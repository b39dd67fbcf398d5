CONSTANTS
    p1 = p1
    p2 = p2
    Proc = {p1, p2}
    NCPU = 1
    NPages = 3
    Hole = {}
    NFrames = 2
    NSwap = 3
    MaxPages = 1
    FPN_MOD = 4
    SWPOFF_UNIT = 2
    Watched = {p1, p2}
    Mixed = FALSE
SPECIFICATION Spec
INVARIANTS DataKept
