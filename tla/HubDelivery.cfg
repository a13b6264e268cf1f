SPECIFICATION FairSpec
CONSTANTS
    g1 = g1
    g2 = g2
    a = a
    me = me
    Groups <- BothGroups
    GroupSubs <- OneGroupSubs
    UserSubs <- MeSubs
    GroupOf <- OneGroupOf
    BufferSize = 2
    MaxBroadcasts = 4
INVARIANTS
    TypeOK
    NoPanic
    NoSilentLoss
    UnbrokenRun
PROPERTIES
    ImplementsFeed
    BroadcastReturns
    DeliveredOrDropped
    StoppedReaderIsRemoved
CHECK_DEADLOCK FALSE
