SPECIFICATION FairSpec
CONSTANTS
    Events = {e1}
    Organizers = {o1}
    Attendees = {a1, a2}
    Capacities = {2}
    Workers = {w1, w2}
    None = None
    MaxRequests = 5
    MaxFaults = 1
PROPERTIES
    CancellationTellsEveryone
\* The server is idle once its clients have sent their requests.
CHECK_DEADLOCK FALSE
