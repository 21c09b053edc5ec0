SPECIFICATION Spec
CONSTANTS
    Events = {e1}
    Attendees = {u1}
    Starts = {282, 300}
    None = none
    Duration = 2
    Zone = 0
    RunLimit = 4
    FirstClock = 264
    LastClock = 298
    MaxChanges = 1
    MaxFaults = 0
CHECK_DEADLOCK FALSE
INVARIANT RemindedOfItsStart
