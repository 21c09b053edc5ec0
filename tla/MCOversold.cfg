SPECIFICATION Spec
CONSTANTS
    Events = {e1}
    Organizers = {o1}
    Attendees = {a1, a2}
    Capacities = {1}
    Workers = {w1, w2}
    None = None
    MaxRequests = 3
    MaxFaults = 0
SYMMETRY Interchangeable
INVARIANTS
    NeverOversold
\* The server is idle once its clients have sent their requests.
CHECK_DEADLOCK FALSE
