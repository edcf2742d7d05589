SPECIFICATION FairSpec
CONSTANTS
    Specs <- Edited
    Foreign = {2}
    UserActs = {"update", "delete", "deleteChild", "rerunChild", "takeName"}
    MaxUserActs = 1
    MaxFaults = 0
INVARIANT ViewTrue
PROPERTY NoOrphan
PROPERTY EndIsFinal
PROPERTY WorkflowEnds
PROPERTY DeletionCompletes
CHECK_DEADLOCK FALSE
