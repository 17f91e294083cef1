\* One part in a behaviour: the last categorisation may be decided, and the
\* bounds of a part be reached, so that it may stop.
CONSTANTS
    t = t
    r1 = r1
    r2 = r2
    u1 = u1
    u2 = u2
    Kinds = {"man", "woman", "recatMan", "recatWoman"}
    Users = {u1, u2}
    Chosen = {"U", "V"}
    Women = FALSE
    MaxSeq = 3
    Requests = {r1, r2}
    MaxPosts = 4
    Tabs = {t}
    Faults = TRUE
    LastDay = 2
    Year = 2
    Soon = 1
    MaxHistory = 1
SPECIFICATION PartSpec
SYMMETRY Symmetry
CHECK_DEADLOCK FALSE
INVARIANTS
    TypesOK
    CategoryInStep OpenHasConditions
    DateInStep
    FourEyesWhenFresh LiteOrForm LiteApproved
    AnswersKept DocumentWhole
PROPERTY
    ReviewedSoon
