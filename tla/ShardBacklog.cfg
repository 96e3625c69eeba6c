SPECIFICATION Spec
CONSTANTS
    p1 = p1
    p2 = p2
    w1 = w1
    w2 = w2
    Universe <- FourSymbols
    Shards <- OneShard
    Workers <- OneWorker
    ResultsMax = 1
    FailureThreshold = 2
    DeadRounds = 2
    Replies <- TransportReplies
    Rows <- WornRows
    MaxFaults = 1
    MaxKills = 0
INVARIANTS BacklogHolds WithdrawBounded CrashAccounted
CHECK_DEADLOCK FALSE
