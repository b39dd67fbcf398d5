SPECIFICATION Spec
CONSTANTS
    PAGESZ = 4
    vmemsz = 12
    BUSSZ = 16
    INT_MOD = 65536
    Rgid = {a, b}
    Sizes = {1, 2, 5, 14}
    Offsets = {2}
SYMMETRY Perms
INVARIANTS TypeOK AreaDisjoint BehindBorder StackMapped FreeLoopAgrees
PROPERTIES ExactLength WritePrivate
