SPECIFICATION Spec

CONSTANTS
    Attempts = {a1, a2, a3, a4, a5}
    Inodes = {i1, i2, i3}
    Nothing = Nothing
    Displaced = TRUE
    Crashes = TRUE
    Faulty = TRUE
    a1 = a1
    a2 = a2
    a3 = a3
    a4 = a4
    a5 = a5
    i1 = i1
    i2 = i2
    i3 = i3

SYMMETRY LockSymmetry

\* Every attempt is made once, so the system stops.
CHECK_DEADLOCK FALSE

INVARIANTS
    IInv
    Exclusive
    FreeAtRest

PROPERTIES
    SparesSuccessor
    ImplementsPromptLock
