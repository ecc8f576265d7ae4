CONSTANTS
    Calls = {c1, c2}
    None = None
    MaxBudget = 1
    MaxBytes = 4
    Public = {p1}
    Private = {q1}
SPECIFICATION FairSpec
INVARIANTS
    TypeOK
    PinnedToChecked
    BudgetBounds
    AcceptedIsWhole
    
PROPERTY
    EveryCallServed
CHECK_DEADLOCK FALSE
