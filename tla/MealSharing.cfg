SPECIFICATION Spec
CONSTANTS
    a = a
    b = b
    g1 = g1
    g2 = g2
    g3 = g3
    u1 = u1
    u2 = u2
    u3 = u3
    r1 = r1
    r2 = r2
    r3 = r3
    None = None
    Users <- TwoUsers
    Uploads <- ThreeUploads
    MayUpload <- Pictures
    MaxPhotos = 2
    NoUpload = None
    MaxFailures = 1
    Groups <- ThreeGroups
    Fields <- TwoFields
    Requests <- ThreeRequests
    MayAsk <- Mixed
    MemberOf <- Memberships
    MayLeave <- OutOfG1
    NoRequest = None
CONSTRAINT Apart
INVARIANTS
    TypeOK
    PicturesBackRows
    StraysAreExcused
    CardsCanBeOpened
    OutsidersNeitherShareNorSee
CHECK_DEADLOCK FALSE
