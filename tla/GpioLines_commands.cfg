SPECIFICATION FairSpec
CONSTANTS
    d = d
    p = p
    q = q
    Procs = {d, p, q}
    Daemons = {d}
    Unclean = {p, q}
    Free = Free
    Kernel = Kernel
    KernelCs = FALSE
    DrivesNssel = FALSE
    MaxRuns = 2
INVARIANTS
    RadioExclusive
    ChipSelectAlone
PROPERTY
    ServiceComesBack
