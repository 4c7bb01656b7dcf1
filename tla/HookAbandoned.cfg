SPECIFICATION Spec

CONSTANTS
    Hooks = {h1, h2}
    Prompts = {p1}
    Trees = {t1, t2}
    Submitters = {p1}
    Fallback = TRUE
    Faulty = FALSE
    Resubmit = FALSE
    Overlap = FALSE
    Crashes = TRUE
    TTL = 2
    SweepLimit = 2
    None = None
    NoState = NoState
    Free = Free
    Dead = Dead
    h1 = h1
    h2 = h2
    p1 = p1
    t1 = t1
    t2 = t2

INVARIANTS
    AbandonedContentIsOwned
