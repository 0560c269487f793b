SPECIFICATION FairSpec
CONSTANTS
    MAX = 2
    NULL = NULL
    ZERO_SIZE_PTR = ZERO_SIZE_PTR
    Threads = {t1, t2}
    Files = {f1}
    Shared = {f1}
    Blocks = {b1, b2}
    Sizes = {0, 1}
    Counts = {1}
    Positions = {}
PROPERTIES
    CallsReturn
    ImplementsDevice
