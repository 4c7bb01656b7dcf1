------------------------------- MODULE DirLockMC -------------------------------
(* Symmetry for the TLC runs of DirLock: attempts and identities are alike. *)
EXTENDS DirLock, TLC

LockSymmetry == Permutations(Attempts) \cup Permutations(Inodes)
================================================================================
