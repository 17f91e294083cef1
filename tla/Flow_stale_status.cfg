\* Two requests in flight: a page is saved while the form is submitted and
\* approved.
CONSTANTS
    Requests = {r1, r2}
    MaxSeq = 1
    MaxNomis = 1
    Ops = {"save", "submit", "approve", "tasklist"}
SPECIFICATION Spec
\* A behaviour in which no handler is called stops.
CHECK_DEADLOCK FALSE
PROPERTY ApprovedNeverStarted
