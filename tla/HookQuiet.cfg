SPECIFICATION Spec

CONSTANTS
    Hooks = {h1, h2}
    Prompts = {p1, p2}
    Trees = {t1, t2}
    Submitters = {p1, p2}
    Fallback = FALSE
    Faulty = FALSE
    Resubmit = TRUE
    Overlap = FALSE
    Crashes = FALSE
    TTL = 2
    SweepLimit = 2
    None = None
    NoState = NoState
    Free = Free
    Dead = Dead
    h1 = h1
    h2 = h2
    p1 = p1
    p2 = p2
    t1 = t1
    t2 = t2

SYMMETRY HookTreeSymmetry

INVARIANTS
    OnlyPendingContent

PROPERTIES
    OpenSucceeds
    BaselineFixed
