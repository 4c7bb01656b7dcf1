------------------------------ MODULE SmokeSummaryMC ---------------------------
(* Symmetry for the TLC runs of SmokeSummary: identities and names are alike. *)
EXTENDS SmokeSummary, TLC

SmokeSymmetry == Permutations(HookIds) \cup Permutations(ToolIds) \cup Permutations(Names)
================================================================================
