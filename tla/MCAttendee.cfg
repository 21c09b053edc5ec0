SPECIFICATION FairSpec
CONSTANTS
    concert = concert
    music = music
    art = art
    Events <- OneEvent
    Filters <- Filter
    None = none
    MaxCalls = 3
    MaxPending = 2
    MaxLost = 1
    Terms = {}
    Categories = {art}
    Presets = {}
    Mentions <- NoMentions
    InCategory <- MCInCategory
    DayOf <- MCDayOf
    Today = 3
    Zone = 0
CHECK_DEADLOCK FALSE
INVARIANT TypeOK
INVARIANT PageTellsTheTruth
INVARIANT ListsAreComplete
INVARIANT ThanksAreDue
INVARIANT ResultsAnswerTheSearch
PROPERTY ScreenSettles
