SPECIFICATION FairSpec
CONSTANTS
    Clients = {c1}
    MaxParts = 2
    BufParts = 2
    ChunkParts = 2
    Window = 1
    MaxStamps = 1
    MaxRuns = 1
    Faults = {"file", "memory", "thread", "hangup", "signal"}
    Timer = Timer
    Stamp = Stamp
    NULL = NULL
INVARIANT TypeOK
INVARIANT EveryConnectionTracked
PROPERTY ServesTheLog
PROPERTY Answered
PROPERTY StopsOnSignal
CHECK_DEADLOCK FALSE
