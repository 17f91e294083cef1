\* Two requests in flight: the tasklist is opened twice.
CONSTANTS
    Requests = {r1, r2}
    MaxSeq = 2
    MaxNomis = 1
    Ops = {"tasklist"}
SPECIFICATION Spec
\* A behaviour in which no handler is called stops.
CHECK_DEADLOCK FALSE
INVARIANT OneInProgress
