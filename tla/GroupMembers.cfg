SPECIFICATION FairSpec
CONSTANTS
    o = o
    a = a
    i1 = i1
    r1 = r1
    r2 = r2
    r3 = r3
    r4 = r4
    r5 = r5
    Users <- OwnerAndGuest
    Nobody = Nobody
    Invites <- OneInvite
    Requests <- FiveRequests
    MayAsk <- Membership
    MaxFailures = 1
INVARIANTS
    TypeOK
    OwnerBelongs
    JoinedUnlessLeft
PROPERTIES
    JoinsNeedLiveInvite
    RequestsFinish
CHECK_DEADLOCK FALSE
