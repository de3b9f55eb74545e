SPECIFICATION Spec
CONSTANTS
    Scripts = {s1}
    MaxOps = 1
    MaxSignals = 0
INVARIANT
    InfoWhileStopped
CHECK_DEADLOCK FALSE
