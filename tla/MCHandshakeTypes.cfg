CONSTANTS
    Clients = {c1}
    CsClients = {}
    Servers = {s1, s2}
    Profiles = {vk, none}
    SessionIds = {i1, i2}
    None = None
SPECIFICATION InteropSpec
INVARIANTS
    ServerConfirmed
CHECK_DEADLOCK FALSE
