----------------------------- MODULE GitSnapshotMC -----------------------------
(* Model values and symmetry for TLC. *)
EXTENDS GitSnapshot, TLC

CONSTANTS f, g, b1, b2

BlobSymmetry == Permutations(Blobs)
================================================================================
