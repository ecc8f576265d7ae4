CONSTANTS
    Helpers = {h1, h2}
    Pieces = 2
    MaxEvents = 2
    MaxFaults = 2
    Clocks <- MCClocks
    Working <- MCWorking
SPECIFICATION Spec
INVARIANTS
    TypeOK
    AcceptedIsReadable
    TimestampIsDate
CHECK_DEADLOCK FALSE
