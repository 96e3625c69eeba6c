SPECIFICATION FairSpec
CONSTANTS
    p1 = p1
    p2 = p2
    w1 = w1
    w2 = w2
    Universe <- TwoSymbols
    Shards <- TwoShards
    Workers <- OneWorker
    ResultsMax = 1
    FailureThreshold = 1
    DeadRounds = 2
    Replies <- KnownReplies
    Rows <- FreshRows
    MaxFaults = 0
    MaxKills = 1
INVARIANTS ExitHonest AuditTrue DelistSparesTransport
PROPERTY RunCloses
CHECK_DEADLOCK FALSE
