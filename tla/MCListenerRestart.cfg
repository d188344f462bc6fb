CONSTANTS
    Peers = {p1}
    SessionIds = {0, 1, 2}
    Tasks = {t1, t2}
    AddressPool = 3
    MaxSessions = 1
    MaxRestarts = 1
    SendMayFail = TRUE
    None = None
SPECIFICATION FairSpec
INVARIANTS
    SameSession
PROPERTIES
    SessionNeverReplaced
    StrandedStays
    CompletedIsServed
CHECK_DEADLOCK FALSE
