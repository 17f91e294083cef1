SPECIFICATION Spec
CONSTANTS
    Kinds = {"woman"}
INVARIANTS
    OpenNeedsConditions
CHECK_DEADLOCK FALSE
