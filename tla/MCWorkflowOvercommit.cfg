SPECIFICATION Spec
CONSTANTS
    Specs <- Wide
    Foreign = {}
    UserActs = {}
    MaxUserActs = 0
    MaxFaults = 0
INVARIANT ParallelBound
CHECK_DEADLOCK FALSE
