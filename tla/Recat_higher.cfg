SPECIFICATION Spec
CONSTANTS
    Tabs = {t1}
    Varied = {"decision"}
    MaxReturns = 0
INVARIANTS HigherReviewed
CHECK_DEADLOCK FALSE
