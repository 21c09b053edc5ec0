SPECIFICATION Spec
CONSTANTS
    Events = {e1}
    Organizers = {o1}
    Attendees = {a1}
    Capacities = {1, 2}
    Workers = {w1, w2}
    None = None
    MaxRequests = 3
    MaxFaults = 0
SYMMETRY Interchangeable
PROPERTIES
    CancelledIsNotEdited
\* The server is idle once its clients have sent their requests.
CHECK_DEADLOCK FALSE
