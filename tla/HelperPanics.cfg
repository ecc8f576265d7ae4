CONSTANTS
    BoxIds = {b1, b2}
    None = None
    Limit = 1
    MaxRequests = 2
    MaxFaults = 0
    Methods <- AllMethods
    Reuse = FALSE
    Enforceable = {TRUE}
    Expiry = TRUE
SPECIFICATION Spec
SYMMETRY MCSymmetry
INVARIANT
    NeverPanics
CHECK_DEADLOCK FALSE
