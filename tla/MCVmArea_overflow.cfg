SPECIFICATION Spec
CONSTANTS
    PAGESZ = 4
    vmemsz = 24
    BUSSZ = 28
    INT_MOD = 256
    Rgid = {a, b}
    Sizes = {2, 5}
    Offsets = {}
SYMMETRY Perms
INVARIANTS OverlapReal
