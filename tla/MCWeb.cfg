SPECIFICATION Spec
CONSTANTS
    Events = {e1, e2}
    Categories = {c1, c2}
    Names = {art, music}
    User = user
    None = none
    MaxCalls = 4
    MaxPending = 2
    MaxLost = 1
CHECK_DEADLOCK FALSE
SYMMETRY Interchangeable
INVARIANT TypeOK
INVARIANT PagesTellTheTruth
INVARIANT CategoriesTellTheTruth
INVARIANT NoDanglingCategory
INVARIANT OneEventPerVisit
PROPERTY ApprovedAsShown
