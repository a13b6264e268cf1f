SPECIFICATION Spec
CONSTANTS
    Kinds = {"text", "picture"}
    PageSize = 2
    MaxTries = 2
    AtFirst = 3
    MaxMessages = 6
    MaxSends = 2
    MaxFaults = 2
CONSTRAINT Small
INVARIANTS
    HistoryStaysWalkable
    NothingTwice
CHECK_DEADLOCK FALSE
