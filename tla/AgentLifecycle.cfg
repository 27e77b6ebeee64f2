SPECIFICATION FairSpec
CONSTANTS
    MaxFaults = 2
    MaxStarts = 1
    Faults = {"drop", "mute", "dialfail", "crash", "quit"}
INVARIANTS TypeOK SendIsCurrent ShutdownIsComplete
PROPERTIES LoopsEnd StaysConnected ImplementsLink
CHECK_DEADLOCK FALSE
