SPECIFICATION Spec
CONSTANTS
    g1 = g1
    g2 = g2
    Groups <- TwoGroups
    MaxMessages = 2
    MaxRefreshes = 2
    MaxReads = 1
    MaxChanges = 1
CONSTRAINT Quiet
INVARIANT
    NeverUndercounts
CHECK_DEADLOCK FALSE
