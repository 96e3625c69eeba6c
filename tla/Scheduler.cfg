SPECIFICATION FairSpec
CONSTANTS
    Jobs <- TwoJobs
    Yahoo <- YahooJobs
    Syncing <- SyncJobs
    DefaultSize = 4
    Grace = 0
    Day = 0
    Retention = 0
    MaxTime = 2
    MaxRuns = 2
    MaxStops = 1
    MaxEvents = 1
    Manual = TRUE
INVARIANTS NoOverlap RecordsHonest LiveSyncUntouched
PROPERTY AllEnds
CHECK_DEADLOCK FALSE
