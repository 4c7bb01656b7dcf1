SPECIFICATION Spec
CONSTANTS
    Sources = {s1, s2}
    Binaries = {b1}
    Contents = {c1, c2}
    Bad = Bad
    None = None
    Faulty = TRUE
    Kills = TRUE
    MaxRuns = 3
    MaxEdits = 4
    s1 = s1
    s2 = s2
    b1 = b1
    c1 = c1
    c2 = c2
SYMMETRY PackagingSymmetry
INVARIANTS
    TypeOK
    ReleaseAgrees
PROPERTIES
    OnlyPrintedReleased
\* The runs of the packager are counted.
CHECK_DEADLOCK FALSE
