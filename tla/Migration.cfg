SPECIFICATION Spec
CONSTANTS
    NumFiles = 2
    FileChunks = 3
    Window = 2
    AckEvery = 1
    AckSlots = 2
    MaxRetries = 2
    MaxRuns = 2
    MaxEdits = 1
    MaxFaults = 2
    FaultKinds = {"corrupt", "write", "create", "read", "slow", "losesrc", "losedst", "crash", "power", "cancel"}
    Delta = TRUE
INVARIANT TypeOK
 
 
 
INVARIANT WindowHolds
INVARIANT NoStall
PROPERTY EveryRunEnds
PROPERTY OrderlyCopy
CHECK_DEADLOCK FALSE
