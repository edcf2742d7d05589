SPECIFICATION FairSpec
CONSTANTS
    MaxTime = 2
    Specs <- Crons
    LongNames = {FALSE}
    Period = 1
    Delay = 1
    TTL <- NoTTL
    HistoryLimit = 3
    TrackActive = TRUE
    MaxJobs = 3
    Requests = {}
    MaxRequests = 0
    MaxFaults = 0
PROPERTY CatchesUp
PROPERTY KeepsLedger
CHECK_DEADLOCK FALSE
