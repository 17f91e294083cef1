SPECIFICATION Spec
CONSTANTS
    Tabs = {t1, t2}
    Changes = {"risk"}
    Varied = {"securityInput", "escapeRating", "decision", "higherSecurityReview"}
    MaxReturns = 1
    p1 = p1
    p2 = p2
    c1 = c1
    c2 = c2
    c3 = c3
    Prisoners = {p1, p2}
    Crns = {c1, c2, c3}
    Offender <- OffenderOf
    Batch = 2
    PomHours = 2
    RiskHours = 1
SYMMETRY Symmetry
INVARIANTS
    PagesTypeOK
    SubmittedWhole
    NothingLeftOver
    Answerable
    SuggestionFollows
    SecurityReviewed
    ShownAreWanted
CHECK_DEADLOCK FALSE
