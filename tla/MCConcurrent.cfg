SPECIFICATION Spec
CONSTANTS
    Events = {e1}
    Organizers = {o1}
    Attendees = {a1, a2, a3}
    Capacities = {1, 2}
    Workers = {w1, w2}
    None = None
    MaxRequests = 5
    MaxFaults = 1
SYMMETRY Interchangeable
INVARIANTS
    TypeOK
    NothingPublicUnapproved
    NoticesMatchRows
    OverbookingBounded
    CancellationRepeatsBounded
    UntoldWereLateOrLost
PROPERTIES
    ImplementsLifecycle
    SettledCancelIsFinal
    NobodyJoinsBehindTheDoor
    NobodyDueIsForgotten
\* The server is idle once its clients have sent their requests.
CHECK_DEADLOCK FALSE
