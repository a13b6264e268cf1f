SPECIFICATION Spec
CONSTANTS
    d1 = d1
    d2 = d2
    Messages <- FourMessages
    Own <- TheSecond
    Devices <- TwoDevices
    PageSize = 1
    MaxClock = 2
INVARIANTS
    TypeOK
    WalkIsWhole
    NewsIsUnread
PROPERTIES
    CursorOnlyAdvances
CHECK_DEADLOCK FALSE
