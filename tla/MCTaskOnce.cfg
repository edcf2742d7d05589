SPECIFICATION Spec
CONSTANTS
    MaxTime = 1
    Specs <- OneTimeOnly
    LongNames = {FALSE}
    Period = 1
    Delay = 1
    TTL = 1
    HistoryLimit = 3
    TrackActive = FALSE
    MaxJobs = 2
    Requests = {"suspend", "resume", "trigger"}
    MaxRequests = 2
    MaxFaults = 1
INVARIANT TypeOK
INVARIANT QuietStatusTrue
PROPERTY OneExecution
PROPERTY SuspendHolds
PROPERTY KeepsLedger
CHECK_DEADLOCK FALSE
