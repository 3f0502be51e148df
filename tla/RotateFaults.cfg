\* Every kind of fault, one crash, and indices that wrap within a cycle.
CONSTANTS
    MaxIndex = 7
    Limits = {3, 5}
    Retained = {1, 2}
    LineSizes = {1, 3}
    Existing = {6}
    NoFile = NoFile
    NoLog = NoLog
    Faulty = {"rename", "open", "delete"}
    MaxLogs = 4
    MaxFaults = 1
    MaxCrashes = 1
SPECIFICATION Spec
CHECK_DEADLOCK FALSE
INVARIANTS
    QueueTracksDisk
    NoLogVanishes
    SizeKnown
PROPERTIES
    OldestGoesFirst
    AtMostMaxFiles
    LogReturns
    KeepsWindow
