SPECIFICATION Spec
CONSTANTS
    MAX = 2
    NULL = NULL
    ZERO_SIZE_PTR = ZERO_SIZE_PTR
    Threads = {t1}
    Files = {f1}
    Shared = {}
    Blocks = {b1, b2, b3, b4}
    Sizes = {1}
    Counts = {1}
    Positions = {}
SYMMETRY Symmetry
INVARIANTS
    LastLinesKept
