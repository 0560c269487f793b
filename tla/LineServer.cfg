SPECIFICATION FairSpec
CONSTANTS
    Clients = {c1, c2}
    MaxParts = 3
    Window = 1
    Faults = {"memory", "file", "hangup", "signal"}
    Programs = {"server", "shipped"}
    LineLengths = {1, 3}
    BufParts = 2
    ChunkParts = 2
    Stamp = Stamp
    NULL = NULL
INVARIANTS
    TypeOK
    LinesOnly
    LateClientTurnedAway
    CleanExit
    FittingLineComesBack
PROPERTIES
    ServesTheLog
    Answered
    StopsAtNextClient
CHECK_DEADLOCK FALSE
