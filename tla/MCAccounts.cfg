SPECIFICATION Spec
CONSTANTS
    Users = {u1, u2, u3}
    Emails = {admin, x}
    Passwords = {p1, p2}
    Tokens = {t1}
    AdminEmail = admin
    Workers = {w1, w2}
    None = None
    SessionLife = 2
    ResetLife = 1
    RequestLimit = 1
    LastClock = 3
    MaxRequests = 5
    MaxFaults = 1
SYMMETRY Interchangeable
INVARIANTS
    TypeOK
    OneAccountPerEmail
    ResetUsesBounded
    SuspensionEndsSessions
    AdminReady
PROPERTIES
    EditsUndoNothing
    ResetsAreTimely
\* The server is idle once its clients have sent their requests.
CHECK_DEADLOCK FALSE
