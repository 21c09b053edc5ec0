SPECIFICATION Spec
CONSTANTS
    Events = {e1}
    Attendees = {u1}
    Starts = {282}
    None = none
    Duration = 2
    Zone = 0
    RunLimit = 3
    FirstClock = 266
    LastClock = 272
    MaxChanges = 4
    MaxFaults = 2
CHECK_DEADLOCK FALSE
INVARIANT RemindedOnce
