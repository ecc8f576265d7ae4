CONSTANTS
    BoxIds = {b1, b2}
    None = None
    Limit = 1
    MaxRequests = 2
    MaxFaults = 1
    Methods <- AllMethods
    Reuse = TRUE
    Enforceable = {TRUE, FALSE}
    Expiry = TRUE
    Recorded = {b1}
    LineageDir = TRUE
    MaxCrashes = 2
SPECIFICATION RestartFairSpec
INVARIANT
    NoOrphanSurvives
PROPERTY
    FailsClosed
    ThreadsFinish
CHECK_DEADLOCK FALSE
