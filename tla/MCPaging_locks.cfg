CONSTANTS
    p1 = p1
    p2 = p2
    Proc = {p1, p2}
    NCPU = 2
    NPages = 2
    Hole = {}
    NFrames = 2
    NSwap = 3
    MaxPages = 1
    FPN_MOD = 4
    SWPOFF_UNIT = 2
    Watched = {}
    Mixed = TRUE
SPECIFICATION Spec
INVARIANTS FrameOwner
