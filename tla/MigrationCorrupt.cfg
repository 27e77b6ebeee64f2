SPECIFICATION Spec
CONSTANTS
    NumFiles = 2
    FileChunks = 3
    Window = 2
    AckEvery = 1
    AckSlots = 2
    MaxRetries = 2
    MaxRuns = 1
    MaxEdits = 0
    MaxFaults = 1
    FaultKinds = {"corrupt"}
    Delta = FALSE
INVARIANT CorruptMeansResend
CHECK_DEADLOCK FALSE
