CONSTANTS
    Clients = {c1}
    Tasks = {t1}
    TunReader = tun_reader
    Sent = {0, 1}
    DamagedReads = {3}
    MaxCounter = 3
    MaxChannel = 1
    None = None
SPECIFICATION Spec
INVARIANT
    OpenedInOrder
