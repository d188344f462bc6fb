CONSTANTS
    Ids = {i1, i2}
    MaxSessions = 1
    Lifetime = 1
    KeepaliveInterval = 0
    KeepaliveTimeout = 1
    ReadLoopSleep = 1
    Loops = {l1, l2}
    MaxQueue = 1
    None = None
SPECIFICATION FairRouterSpec
INVARIANTS
    ClocksOrdered
    EveryClientIsWatched
PROPERTIES
    LeavesOnlyWhenDue
    ExpiredLeaves
    RegisteredLeaves
