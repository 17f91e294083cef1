\* Three transactions that lock the rows of one or two prisoners, or the events
\* of one prisoner.
CONSTANTS
    Transactions = {x1, x2, x3}
    Prisoners = {p1, p2}
    Numbers = {1, 2}
    Kinds = {"tasklistRecat", "save", "cancel", "release", "movement", "merge"}
    Prisons = {a, b}
    MaxRows = 2
    MaxRaised = 2
    MaxEvents = 3
    BackToSecurity = FALSE
SPECIFICATION PartSpec
SYMMETRY Symmetry
CHECK_DEADLOCK FALSE
INVARIANTS
    
    
    FollowsPrisoner
    MergeWhole
