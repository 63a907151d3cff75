SPECIFICATION Spec
CONSTANT MaxFeeds = 2
INVARIANT OrHolds
CHECK_DEADLOCK FALSE
