SPECIFICATION Spec
CONSTANTS
    Scripts = {s1, s2}
    MaxOps = 3
    MaxSignals = 2
INVARIANTS
    TransferAlone
    JoinStatusFresh
PROPERTY
    ServiceReturns
CHECK_DEADLOCK FALSE
