SPECIFICATION ExecSpec
CONSTANTS
    Sessions = {s1}
    MaxShells = 1
    TtyRoom = 1
    MaxInput = 1
    Commands = {c1}
    Actions = {a1}
PROPERTY TimeoutIsHard
CHECK_DEADLOCK FALSE
