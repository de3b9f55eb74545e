SPECIFICATION FairSpec
CONSTANTS
    c1 = c1
    c2 = c2
    Clients = {c1, c2}
    None = None
    Window = 3
    MaxFrame = 3
    DrainMax = 1
    HasHint = TRUE
    NcpVersion = 8
    Versions = {8}
    Sizes = {1}
    Limit <- LiveLimit
INVARIANTS
    ResetFirst
PROPERTIES
    CallbacksDrained
    LoopReturns
CHECK_DEADLOCK FALSE
