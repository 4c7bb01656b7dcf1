SPECIFICATION Spec
CONSTANTS
    Files = {f, g}
    Blobs = {b1, b2}
    Ignorable = {g}
    FilterKeys = {"process"}
    None = None
    Shared = Shared
    Filtered = Filtered
    Faulty = TRUE
    MaxSnapshots = 2
    MaxUser = 2
    f = f
    g = g
    b1 = b1
    b2 = b2
SYMMETRY BlobSymmetry
INVARIANTS
    TypeOK
    RealUntouched
    TreeIsWorkTree
    UnchangedStaysOut
    TreeReadable
\* Two trees are the end of a turn.
CHECK_DEADLOCK FALSE
