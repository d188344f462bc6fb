CONSTANTS
    Peers = {p1, p2}
    SessionIds = {0, 1, 2}
    Tasks = {t1, t2}
    AddressPool = 3
    MaxSessions = 1
    MaxRestarts = 0
    SendMayFail = TRUE
    None = None
SPECIFICATION Spec
SYMMETRY PeerTaskSymmetry
INVARIANTS
    AdmissionUndisturbed
    ConnectedIsServed
    RunningIsRegistered
CHECK_DEADLOCK FALSE
