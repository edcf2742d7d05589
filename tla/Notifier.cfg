SPECIFICATION NotifierFairSpec
CONSTANTS
    Events = {1, 2}
    Workers = {w1, w2}
    NoEvent = 0
    QueueCapacity = 1
    CompletedCapacity = 1
    CompletedTTL = 1
    MaxRetries = 1
    MaxTime = 1
    Channels = {"webhook", "smtp"}
    Names = {n1}
    OfTasks = {1, 2}
    Lingering = {1}
    Relapsing = {2}
    MaxWithdrawals = 1
INVARIANT TypeOK
INVARIANT OneOwner
INVARIANT OpenIsKept
INVARIANT ListMatchesLedger
INVARIANT OnlyNewFailures
INVARIANT SeenIsTold
INVARIANT EmailOnce
PROPERTY NoEarlyRepeat
PROPERTY KeepsPromise
PROPERTY AcceptedFinishes
PROPERTY ShutdownEnds
CHECK_DEADLOCK FALSE
