SPECIFICATION Spec
CONSTANTS
    Evaluators = {e1, e2}
    MaxTime = 4
    CalendarDay <- MCCalendarDay
    YearDay <- MCYearDay
    MinDuration = 0
    Cooldown = 2
    MaxPerDay = 1
    Sessions = {s1, s2}
    MaxShells = 2
    TtyRoom = 1
    MaxInput = 2
    Commands = {c1}
    Actions = {a1, a2}
    Dumps = {d1, d2}
    MongoDumps = {d2}
    Restores = {r1}
    Parts = 2
    MaxEntries = 2
    MaxLinks = 2
    MaxExits = 1
    LineSlots = 1
    BatchLines = 2
    Backlog = 1
    Tags = {"1.0.0", "1.1.0-rc1", "1.1.0", "1.2.0"}
    Rank <- MCRank
    Current = 0
    MaxLogins = 2
INVARIANT CooldownKept
 
INVARIANT NoStrayShell
INVARIANT OneActionAtATime
INVARIANT ReportsHold
INVARIANT NoticeGiven
INVARIANT LogTypeOK
 
PROPERTY EndIsReported
PROPERTY EveryJobAnswered
PROPERTY LinesArrive
CHECK_DEADLOCK FALSE
