SPECIFICATION FairSpec
CONSTANTS
    PerRequest = 2
    Depth = 4
    Overlap = 0
    LastDay = 7
    Splits <- OldAndDay5
    Holidays <- OnDay6
    TickDays <- SomeDays
    HandRanges = 1
    MaxFaults = 2
INVARIANTS OneScale LedgerHolds
PROPERTY GapsAreRetried
CHECK_DEADLOCK FALSE
