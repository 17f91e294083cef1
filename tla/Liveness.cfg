\* Two lists and two connections, with requests of every other kind; two handlers
\* of one booking; and two events.
CONSTANTS
    Requests = {list, other, page, check}
    Connections = {c1, c2}
    Lists = {list, other}
    Branching = {page}
    Unawaited = {page}
    Checks = {check}
    MaxQueries = 2
    MaxCome = 3
    Faults = {"handler", "statement", "commit"}
    r1 = r1
    r2 = r2
    e1 = e1
    e2 = e2
SPECIFICATION WaitSpec
INVARIANTS HeldByItsRequest StuckOnlyByLists
PROPERTIES EveryRequestEnds EveryEventHandled
CHECK_DEADLOCK FALSE
