CONSTANTS
    p1 = p1
    p2 = p2
    Proc = {p1, p2}
    NCPU = 2
    NPages = 2
    Hole = {p2}
    NFrames = 2
    NSwap = 2
    MaxPages = 2
    FPN_MOD = 2
    SWPOFF_UNIT = 2
    Watched = {}
    Mixed = FALSE
SPECIFICATION Spec
INVARIANTS TypeOK FrameOwner MutexExact LruExact OutOfSwapJustified AccessFresh
PROPERTY InstructionEnds
