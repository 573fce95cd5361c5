SPECIFICATION Spec
CONSTANTS
    Engines = {"schedule", "event"}
    Threads <- MCThreads
    Pollers = {"p1", "p2"}
    Tests = {"existence", "boolean", "threshold", "delta"}
    Levels <- MCLevels
    Rising = 5
    Falling <- MCFalling
    SetTo = 0
    MaxRows = 2
    MaxAlarms = 3
    MaxRemoves = 1
    MaxPolls = 4
    MaxCount = 1
INVARIANT OneAlarmPerEntry OneFirePerRise
PROPERTY EnabledEntryFires
CHECK_DEADLOCK FALSE
