SPECIFICATION Spec
CONSTANTS
    Clients = {c1, c2}
    MaxParts = 1
    BufParts = 1
    ChunkParts = 2
    Window = 1
    MaxStamps = 0
    MaxRuns = 2
    Faults = {"hangup", "signal", "memory", "thread"}
    Timer = Timer
    Stamp = Stamp
    NULL = NULL
SYMMETRY Symmetry
INVARIANT EveryConnectionTracked
INVARIANT CleanExit
PROPERTY ServesTheLog
CHECK_DEADLOCK FALSE
