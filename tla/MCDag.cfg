SPECIFICATION Spec
CONSTANT Inputs <- AllLists
INVARIANT AcceptsExactly
INVARIANT Topological
INVARIANT LevelsFollowOrder
CHECK_DEADLOCK FALSE
