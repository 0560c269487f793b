SPECIFICATION FairSpec
CONSTANTS
    MaxCalls = 2
    MaxPrints = 2
    Faults = {"fork", "open", "dup2", "exec", "kill", "signal"}
INVARIANTS
    TypeOK
    TrueMeansDone
    CallerTextOnce
    NobodyLeft
PROPERTIES
    CallsReturn
CHECK_DEADLOCK FALSE
