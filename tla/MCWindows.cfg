SPECIFICATION Spec
CONSTANTS
    Events = {e1, e2}
    Attendees = {u1}
    Starts = {280, 284, 568}
    None = none
    Duration = 1
    Zone = 36
    RunLimit = 4
    FirstClock = 264
    LastClock = 314
    MaxChanges = 1
    MaxFaults = 0
SYMMETRY Interchangeable
CHECK_DEADLOCK FALSE
INVARIANT TypeOK
INVARIANT NobodyMissed
INVARIANT ScanCoversWindows
PROPERTY StaleByARunAtMost
