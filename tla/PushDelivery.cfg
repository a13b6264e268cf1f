SPECIFICATION FairSpec
CONSTANTS
    a = a
    b = b
    d1 = d1
    d2 = d2
    e1 = e1
    e2 = e2
    g1 = g1
    g2 = g2
    r1 = r1
    r2 = r2
    r3 = r3
    c1 = c1
    c2 = c2
    None = None
    Users <- TwoUsers
    Devices <- TwoDevices
    Endpoints <- TwoEndpoints
    Groups <- TwoGroups
    MemberOf <- InBoth
    Requests <- ThreeRequests
    MayAsk <- Mixed
    Sockets <- TwoSockets
    Holder <- SamePhone
    Page <- SameGroup
    NoGroup <- None
    Slots = 1
    MaxFailures = 1
INVARIANTS
    TypeOK
    OncePerDevice
    MessagesAreTried
    LeaseNeedsSocket
PROPERTIES
    LiveRowsStay
    NotificationsEnd
CHECK_DEADLOCK FALSE
