SPECIFICATION IdSpec
CONSTANTS
    t1 = t1
    t2 = t2
    t3 = t3
    k1 = k1
    k2 = k2
    Txns <- ThreeTxns
    Keys <- OneKey
    XidWalk = FALSE
    SingleWriter = TRUE
    BatchSize = 2
    CleanupLag = 1
    OpenLimit = 9
    MaxEvents = 1
    MaxClock = 2
    MaxPasses = 2
    MaxFaults = 2
INVARIANT NoLoss
