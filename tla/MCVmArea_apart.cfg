SPECIFICATION Spec
CONSTANTS
    PAGESZ = 4
    vmemsz = 16
    BUSSZ = 20
    INT_MOD = 65536
    Rgid = {a, b, c}
    Sizes = {2, 3, 5}
    Offsets = {}
SYMMETRY Perms
INVARIANTS AreasApart
