SPECIFICATION Spec
CONSTANTS
    Page = p
    Conns = {p, q}
    Notices = {n1, n2}
    Senders = {s1, s2}
    None = none
    MaxFaults = 1
    MaxCalls = 2
    MaxPending = 2
SYMMETRY Interchangeable
CHECK_DEADLOCK FALSE
INVARIANTS
    TypeOK
    WritesStayInside
    UnreadIsNeverHidden
    FeedTellsTheTruth
    OnlyStallsBlock
