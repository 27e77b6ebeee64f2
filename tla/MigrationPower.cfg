SPECIFICATION Spec
CONSTANTS
    NumFiles = 2
    FileChunks = 2
    Window = 2
    AckEvery = 1
    AckSlots = 2
    MaxRetries = 2
    MaxRuns = 2
    MaxEdits = 0
    MaxFaults = 1
    FaultKinds = {"power"}
    Delta = FALSE
INVARIANT CrashResistant
CHECK_DEADLOCK FALSE
