SPECIFICATION Spec
CONSTANTS
    Clients = {c1}
    MaxParts = 3
    Window = 1
    Faults = {}
    Programs = {"shipped"}
    LineLengths = {3}
    BufParts = 2
    ChunkParts = 2
    Stamp = Stamp
    NULL = NULL
INVARIANTS
    LineComesBack
CHECK_DEADLOCK FALSE
