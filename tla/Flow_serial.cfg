\* One request at a time, in every setting.
CONSTANTS
    r = r
    Requests = {r}
    MaxSeq = 3
    MaxNomis = 2
    Ops = {"save", "securityInput", "sendBack", "submit", "approve", "cancel",
           "tasklist", "tasklistRecat", "raiseReferral", "securityReview",
           "cancelReferral", "release", "riskRaised"}
    Crowded = TRUE
    StalePages = FALSE
SPECIFICATION SerialSpec
INVARIANTS
    OneInProgress
    ApprovalInStep
    ReferralInStep
    AwaitingIsPending
    ListsInStep
PROPERTY
    LifecycleSpec
