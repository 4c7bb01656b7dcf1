SPECIFICATION SessionSpec

CONSTANTS
    Hooks = {h1, h2, h3}
    Classes = {"config", "api_key", "api_timeout", "api_invalid_response"}
    MaxClasses = 2
    Questions = {1, 2, 3, 4}
    Scores = {0, 500, 1000, 1001}
    Errors = {"api_timeout"}
    MaxMembers = 3
    Free = Free
    Dead = Dead
    Crashes = TRUE
    Faulty = TRUE
    h1 = h1
    h2 = h2
    h3 = h3

SYMMETRY HookSymmetry

INVARIANTS
    ShownOnce
    LedgerBounded
    IInv
    AppliedAsWritten
    WorstFirst

PROPERTIES
    LedgerKept
