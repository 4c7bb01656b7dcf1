----------------------------- MODULE EvaluationMC ------------------------------
(* Symmetry for the TLC run of Evaluation and its notices: hooks are alike. *)
EXTENDS Evaluation, TLC

HookSymmetry == Permutations(Hooks)
================================================================================
