SPECIFICATION Spec
CONSTANTS
    c1 = c1
    c2 = c2
    Clients = {c1, c2}
    None = None
    Window = 3
    MaxFrame = 3
    DrainMax = 2
    HasHint = TRUE
    NcpVersion = 8
    Versions = {8}
    Sizes = {1}
    Limit <- HangupLimit
PROPERTIES
    ClosedOnlyToReplace
CHECK_DEADLOCK FALSE
