SPECIFICATION Spec
CONSTANTS
    u1 = u1
    u2 = u2
    g1 = g1
    g2 = g2
    k1 = k1
    m1 = m1
    r1 = r1
    r2 = r2
    r3 = r3
    r4 = r4
    Users <- TwoUsers
    Groups <- TwoGroups
    Keys <- OneKey
    Meals <- OneMeal
    Requests <- FourRequests
    MayAsk <- Mixed
    FirstMembers <- Everyone
    Leavers <- U1LeavesG1
    MaxFailures = 1
INVARIANTS
    TypeOK
    ExactlyOnce
    ToldOnce
    OutsidersChangeNothing
    OneLiveCard
    ReactionLedger
    DoneMeansLanded
    UnannouncedOnlyIfCutOff
PROPERTIES
    ImplementsConversation
CHECK_DEADLOCK FALSE
