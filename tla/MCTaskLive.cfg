SPECIFICATION FairSpec
CONSTANTS
    MaxTime = 1
    Specs <- NotCron
    LongNames = {FALSE, TRUE}
    Period = 1
    Delay = 1
    TTL <- NoTTL
    HistoryLimit = 3
    TrackActive = FALSE
    MaxJobs = 2
    Requests = {"suspend", "update", "delete", "trigger"}
    MaxRequests = 1
    MaxFaults = 0
PROPERTY NoOrphan
PROPERTY DeletionCompletes
PROPERTY Settles
CHECK_DEADLOCK FALSE
