SPECIFICATION FairSpec
CONSTANTS
    Symbols = {s1, s2}
    Archived = {s1}
    MaxTs = 2
    StreamMax = 1
    QuotesEvery = 1
    QueueMax = 2
    MaxSymbols = 1
    MaxActs = 3
    MaxFaults = 1
INVARIANT DropsAreCounted
INVARIANT SessionFollowsPage
INVARIANT ShownIsStored
PROPERTY DarkIsTold
CHECK_DEADLOCK FALSE
