SPECIFICATION Spec

CONSTANTS
    HookIds = {h1, h2, h3}
    ToolIds = {t1, t2}
    Names = {n1, n2}
    MaxInits = 2
    MaxEntries = 2
    MaxFailures = 1
    Nothing = Nothing
    h1 = h1
    h2 = h2
    h3 = h3
    t1 = t1
    t2 = t2
    n1 = n1
    n2 = n2

SYMMETRY SmokeSymmetry

\* A stream ends.
CHECK_DEADLOCK FALSE

INVARIANTS
    TypeOK
    PassIsEvidence
