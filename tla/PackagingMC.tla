------------------------------ MODULE PackagingMC ------------------------------
(* Symmetry for TLC. *)
EXTENDS Packaging, TLC

CONSTANTS s1, s2, b1, c1, c2

PackagingSymmetry == Permutations(Contents) \cup Permutations(Sources)
================================================================================
