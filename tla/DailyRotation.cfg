\* Days of three hours, the end of summer, one fault and one crash.
CONSTANTS
    DayLength = 3
    Hours = {0, 1}
    Summer <- SummerEnds
    Retained = {1, 2}
    Existing = {0, 1}
    NoFile = NoFile
    NoLog = NoLog
    Faulty = {"rename", "open", "delete"}
    LastHour = 15
    MaxLogs = 3
    MaxFaults = 1
    MaxCrashes = 1
SPECIFICATION Spec
CHECK_DEADLOCK FALSE
INVARIANTS
    NoLogVanishes
    NotDatedEarly
PROPERTIES
    OldestGoesFirst
