CONSTANTS
    BoxIds = {b1, b2, b3, b4, b5}
    Limit = 2
SPECIFICATION Spec
INVARIANT
    CapacityRespected
PROPERTY
    ImplementsFifo
