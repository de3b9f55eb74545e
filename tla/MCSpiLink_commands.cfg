SPECIFICATION FairSpec
CONSTANTS
    WaitBytes = 2
    RxLen = 5
    PayloadLens = {1, 2}
    Delays = {0, 2}
    MaxCmds = 3
    Limit <- CommandsLimit
INVARIANTS
    TypeOK
    AwakeWhenGranted
    EndsOnTerminator
    ReplyIsMine
    AbortCostsOne
PROPERTIES
    ImplementsCommandService
CHECK_DEADLOCK FALSE
