SPECIFICATION Spec
CONSTANTS
    MaxTime = 2
    Specs <- OneTimeOnly
    LongNames = {FALSE}
    Period = 1
    Delay = 1
    TTL <- NoTTL
    HistoryLimit = 3
    TrackActive = FALSE
    MaxJobs = 2
    Requests = {}
    MaxRequests = 0
    MaxFaults = 0
INVARIANT RunsOnce
CHECK_DEADLOCK FALSE
