SPECIFICATION FairSpec
CONSTANTS
    s1 = s1
    s2 = s2
    Symbols <- TwoSymbols
    Archive <- OneSymbol
    MaxTs = 2
    QueueMax = 1
    BatchSize = 2
    QuotesEvery = 1
    Kafka = TRUE
    JoinTimesOut = FALSE
    MaxMessages = 2
    MaxPurges = 1
    MaxFaults = 1
INVARIANTS KeptOrCounted LatestNeverLost DownstreamConsistent StopDrains StreamCounts
PROPERTY StreamEnds
CHECK_DEADLOCK FALSE
