SPECIFICATION Spec

CONSTANTS
    Hooks = {h1, h2, h3}
    Prompts = {p1}
    Trees = {t1, t2, t3}
    Submitters = {p1}
    Fallback = FALSE
    Faulty = TRUE
    Resubmit = FALSE
    Overlap = TRUE
    Crashes = TRUE
    TTL = 2
    SweepLimit = 2
    None = None
    NoState = NoState
    Free = Free
    Dead = Dead
    h1 = h1
    h2 = h2
    h3 = h3
    p1 = p1
    t1 = t1
    t2 = t2
    t3 = t3

SYMMETRY HookTreeSymmetry

INVARIANTS
    TypeOK
    OneContinuation

