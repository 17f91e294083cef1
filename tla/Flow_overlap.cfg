\* Two requests in flight; either may fail at any step.
CONSTANTS
    Requests = {r1, r2}
    MaxSeq = 2
    MaxNomis = 2
    Ops = {"save", "submit", "approve", "cancel", "tasklist", "release",
           "raiseReferral", "cancelReferral"}
SPECIFICATION MixSpec
SYMMETRY Symmetry
INVARIANTS
    TypeOK
    RecordedInNomis
    SequencesDiffer
    StampedWasApproved
    CompletedWasApproved
