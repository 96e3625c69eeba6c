SPECIFICATION FairSpec
CONSTANTS
    t1 = t1
    t2 = t2
    t3 = t3
    k1 = k1
    k2 = k2
    Txns <- TwoTxns
    Keys <- TwoKeys
    XidWalk = TRUE
    SingleWriter = FALSE
    BatchSize = 1
    CleanupLag = 1
    OpenLimit = 1
    MaxEvents = 2
    MaxClock = 1
    MaxPasses = 2
    MaxFaults = 1
INVARIANTS NoSkip NoLoss
PROPERTIES AtLeastOnce EveryRowDone
