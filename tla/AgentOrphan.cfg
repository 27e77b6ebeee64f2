SPECIFICATION Spec
CONSTANTS
    MaxFaults = 1
    MaxStarts = 1
    Faults = {"mute"}
INVARIANTS NoSessionOutlives
CHECK_DEADLOCK FALSE
