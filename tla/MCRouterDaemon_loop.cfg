SPECIFICATION FairSpec
CONSTANTS
    c1 = c1
    Clients = {c1}
    None = None
    Silent = {}
    HasHint = TRUE
    EzspVersions = {4, 8}
    ReportSecs = 5
    FirstSpread = 3
    PollMax = 3
    MaxSending = 1
    CounterMax = 1
    Limit <- LoopLimit
INVARIANTS
    TypeOK
    NeverOversleeps
PROPERTIES
    SleepsAgain
    CallbacksCollected
    RequestsAnswered
    ReportsFlow
