CONSTANTS
    Peers = {p1, p2}
    SessionIds = {0, 1}
    Tasks = {t1, t2}
    AddressPool = 1
    MaxSessions = 2
    MaxRestarts = 0
    SendMayFail = FALSE
    None = None
SPECIFICATION Spec
SYMMETRY PeerTaskSymmetry
INVARIANT
    RunningIsRegistered
CHECK_DEADLOCK FALSE
