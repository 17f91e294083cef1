\* A page may be posted when it is out of date.
CONSTANTS
    Users = {u1, u2}
    Chosen = {"U"}
    Women = FALSE
    MaxSeq = 2
SPECIFICATION LiteSpec
CHECK_DEADLOCK FALSE
INVARIANT FourEyes
