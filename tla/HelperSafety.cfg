CONSTANTS
    BoxIds = {b1, b2, b3}
    None = None
    Limit = 1
    MaxRequests = 3
    MaxFaults = 1
    Methods <- AllMethods
    Reuse = TRUE
    Enforceable = {TRUE}
    Expiry = TRUE
SPECIFICATION Spec
SYMMETRY MCSymmetry
INVARIANTS
    TypeOK
    WorkConserving
    KilledHoldsNoSlot
    QueueIsBacked
    RunningHoldsSlot
PROPERTY
    ReleasedIsStopped
CHECK_DEADLOCK FALSE
