SPECIFICATION Spec
CONSTANTS
    Clients = {c1, c2}
    MaxParts = 2
    BufParts = 1
    ChunkParts = 2
    Window = 1
    MaxStamps = 0
    MaxRuns = 1
    Faults = {"signal"}
    Timer = Timer
    Stamp = Stamp
    NULL = NULL
INVARIANT WholeRequestInReply
CHECK_DEADLOCK FALSE
