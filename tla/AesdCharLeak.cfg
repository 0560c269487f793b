SPECIFICATION Spec
CONSTANTS
    MAX = 2
    NULL = NULL
    ZERO_SIZE_PTR = ZERO_SIZE_PTR
    Threads = {t1, t2}
    Files = {f1}
    Shared = {f1}
    Blocks = {b1, b2, b3}
    Sizes = {0, 2}
    Counts = {1}
    Positions = {}
SYMMETRY Symmetry
INVARIANTS
    NothingLeaks
