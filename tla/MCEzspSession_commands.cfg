SPECIFICATION Spec
CONSTANTS
    RespMax = 96
    UnicastMax = 64
    OutMax = 64
    NcpVersions = {4, 6, 8, 9}
    Wants = {4, 8}
    Chips <- CommandsChips
    Image <- ThisChip
    Counts = {0, 2}
    HostLens = {7, 30}
    Messages <- CommandsMessages
    ScanPolls = 3
    ConfigIds = 4
    MaxCmds = 2
    Limit <- CommandsLimit
INVARIANTS
    TypeOK
    InitMeansAgreed
    ReportsGenuine
    ExitZeroIsTrue
    AnswersWhatWasAsked
CHECK_DEADLOCK FALSE
