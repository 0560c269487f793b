SPECIFICATION Spec
CONSTANTS
    MAX = 2
    NULL = NULL
    ZERO_SIZE_PTR = ZERO_SIZE_PTR
    Threads = {t1, t2}
    Files = {f1, f2}
    Shared = {}
    Blocks = {b1, b2, b3}
    Sizes = {1, 2}
    Counts = {1, 2}
    Positions = {1}
SYMMETRY Symmetry
INVARIANTS
    TypeOK
    MutualExclusion
    KeptIsEndOfStream
    EveryBlockHasOneOwner
PROPERTIES
    ImplementsDevice
    ReadsContinue
