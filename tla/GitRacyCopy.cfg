SPECIFICATION Spec
CONSTANTS
    Files = {f, g}
    Blobs = {b1, b2}
    Ignorable = {g}
    FilterKeys = {}
    None = None
    Shared = Shared
    Filtered = Filtered
    Faulty = FALSE
    MaxSnapshots = 2
    MaxUser = 1
    f = f
    g = g
    b1 = b1
    b2 = b2
INVARIANT BaselineIsWorkTree
\* Two trees are the end of a turn.
CHECK_DEADLOCK FALSE
