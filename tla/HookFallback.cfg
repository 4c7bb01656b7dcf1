SPECIFICATION Spec

CONSTANTS
    Hooks = {h1, h2}
    Prompts = {p1}
    Trees = {t1, t2}
    Submitters = {p1}
    Fallback = TRUE
    Faulty = TRUE
    Resubmit = TRUE
    Overlap = TRUE
    Crashes = TRUE
    TTL = 2
    SweepLimit = 1
    None = None
    NoState = NoState
    Free = Free
    Dead = Dead
    h1 = h1
    h2 = h2
    p1 = p1
    t1 = t1
    t2 = t2

SYMMETRY HookTreeSymmetry

\* armed and granted are only counted.
VIEW WithoutHistory

INVARIANTS
    LockHeld
    RecordedBeforeSend

PROPERTIES
    TombstoneFinal
