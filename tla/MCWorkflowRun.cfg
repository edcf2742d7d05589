SPECIFICATION FairSpec
CONSTANTS
    Specs <- Branches
    Foreign = {}
    UserActs = {}
    MaxUserActs = 0
    MaxFaults = 2
INVARIANT TypeOK
INVARIANT ParallelBound
PROPERTY StatusWithinLimit
PROPERTY RunsPlan
PROPERTY WorkflowEnds
CHECK_DEADLOCK FALSE
