CONSTANTS
    Calls = {c1}
    None = None
    ConfigFiles <- MCConfigFiles
    Budget = 1
    MaxItems = 3
    Buffer = 1
SPECIFICATION Spec
INVARIANT AcceptedIsComplete
CHECK_DEADLOCK FALSE
