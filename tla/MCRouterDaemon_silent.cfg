SPECIFICATION FairSpec
CONSTANTS
    c1 = c1
    Clients = {c1}
    None = None
    Silent = {c1}
    HasHint = TRUE
    EzspVersions = {8}
    ReportSecs = 5
    FirstSpread = 3
    PollMax = 3
    MaxSending = 1
    CounterMax = 1
    Limit <- CallbackLimit
PROPERTIES
    CallbacksCollected
CHECK_DEADLOCK FALSE
