SPECIFICATION Spec
CONSTANTS
    c1 = c1
    Clients = {c1}
    None = None
    Window = 3
    MaxFrame = 3
    DrainMax = 2
    HasHint = TRUE
    NcpVersion = 8
    Versions = {8}
    Sizes = {2, 4}
    Limit <- SessionLimit
INVARIANTS
    TypeOK
    SessionOnly
    InOrder
    NoTruncation
    UnackedKept
    RunsWhatWasSent
    LayoutKnown
