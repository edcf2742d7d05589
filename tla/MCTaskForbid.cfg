SPECIFICATION Spec
CONSTANTS
    MaxTime = 2
    Specs <- ForbidOnly
    LongNames = {FALSE}
    Period = 1
    Delay = 1
    TTL <- NoTTL
    HistoryLimit = 3
    TrackActive = TRUE
    MaxJobs = 2
    Requests = {}
    MaxRequests = 0
    MaxFaults = 0
INVARIANT ForbidExcludes
CHECK_DEADLOCK FALSE
