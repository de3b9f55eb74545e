SPECIFICATION FairSpec
CONSTANTS
    Retries = 1
    JoinPolls = 2
    LeavePolls = 2
    ScanPolls = 2
    Precheck = TRUE
    Limit <- CommandsLimit
INVARIANTS
    TypeOK
    SuccessIsStored
    OneAttemptAtATime
    RestoredIfHealthy
PROPERTIES
    CommandEnds
CHECK_DEADLOCK FALSE
