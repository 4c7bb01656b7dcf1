----------------------------- MODULE HookRunnerMC -----------------------------
(* Model values and symmetry for the TLC runs of HookRunner. *)
EXTENDS HookRunner, TLC

\* Hooks and trees are interchangeable: no definition singles one out.
HookSymmetry == Permutations(Hooks)
HookTreeSymmetry == Permutations(Hooks) \cup Permutations(Trees)

\* Two histories that no action reads: states that differ in them only have the
\* same steps, and the properties of the run that says so do not mention them.
WithoutHistory == <<dir, lock, lockAge, pc, loc, submitted, asked>>
===============================================================================
