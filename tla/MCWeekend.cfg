SPECIFICATION Spec
CONSTANTS
    concert = concert
    music = music
    art = art
    Events <- OneEvent
    Filters <- Filter
    None = none
    MaxCalls = 1
    MaxPending = 2
    MaxLost = 0
    Terms = {}
    Categories = {art}
    Presets = {"weekend"}
    Mentions <- NoMentions
    InCategory <- MCInCategory
    DayOf <- MCDayOf
    Today = 3
    Zone = 3
CHECK_DEADLOCK FALSE
INVARIANT WeekendIsSaturdayAndSunday
