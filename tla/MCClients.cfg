CONSTANTS
    Configs <- MCConfigs
    HttpHeaders <- MCHeaders
    MaxConnections = 3
    MaxFrames = 2
    None = None
    Half = 1000000
    PlainSize = 20
    Cuts = {4, 40, 52}
    MaxClients = 2
    ServerFrames = 2
    MaxPackets = 2
SPECIFICATION MCSpec
INVARIANTS
    ConnectedIsReal
    AttemptsStayAtOne
    KeepaliveSeesWhole
    PacketIsSendable
    NonceOnce
    FramesRise
    WholeFramesKept
PROPERTIES
    KeepaliveServed
    InterruptEndsLoops
CHECK_DEADLOCK FALSE
