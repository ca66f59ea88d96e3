SPECIFICATION FairSpec
CONSTANTS
    i1 = i1
    i2 = i2
    i3 = i3
    Id = {i1, i2, i3}
    MaxInflight = 2
    MaxRequests = 3
    ReuseIds = FALSE
INVARIANTS
    TypeOK
    AnsweredOnce
    OpenRequestsInMap
    LimitCountsOpenRequests
    OrderlyEndCancels
PROPERTIES
    ServesRequests
    AcceptedIsAnswered
CHECK_DEADLOCK FALSE
