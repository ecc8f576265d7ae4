CONSTANTS
    Calls = {c1, c2}
    None = None
    ConfigFiles <- MCConfigFiles
    Budget = 1
    MaxItems = 3
    Buffer = 1
SPECIFICATION FairSpec
INVARIANTS
    TypeOK
    NeverPanics
    BudgetBounds
    ReaderLeavesAnItem
    FramesInOrder
    GapsShow
PROPERTIES
    EveryCallServed
    CallerReturns
CHECK_DEADLOCK FALSE
