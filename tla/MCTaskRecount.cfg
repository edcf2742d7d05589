SPECIFICATION Spec
CONSTANTS
    MaxTime = 2
    Specs <- ForbidOnly
    LongNames = {FALSE}
    Period = 1
    Delay = 1
    TTL <- NoTTL
    HistoryLimit = 1
    TrackActive = FALSE
    MaxJobs = 2
    Requests = {}
    MaxRequests = 0
    MaxFaults = 0
INVARIANT CountedOnce
CHECK_DEADLOCK FALSE
