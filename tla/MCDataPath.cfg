CONSTANTS
    Clients = {c1}
    Tasks = {t1, t2}
    TunReader = tun_reader
    Sent = {0, 1}
    DamagedReads = {1}
    MaxCounter = 3
    MaxChannel = 1
    None = None
SPECIFICATION TrafficComes
INVARIANTS
    OpenedInOrder
    WrittenInOrder
    NoCircularWait
PROPERTIES
    RouteEnds
