CONSTANTS
    Boxes = {b1, b2, b3}
    None = None
    Gateways = {g1}
    MaxLimit = 0
    MaxCrashes = 1
    MaxFailures = 1
SPECIFICATION Spec
SYMMETRY MCSymmetry
INVARIANTS
    TypeOK
    Reopens
    RegisteredIsDurable
    LineageNarrows
    ScanIsComplete
PROPERTY
    RecordsAreImmutable
CHECK_DEADLOCK FALSE
