CONSTANTS
    Clients = {c1}
    Tasks = {t1}
    TunReader = tun_reader
    Sent = {0}
    DamagedReads = {}
    MaxCounter = 3
    MaxChannel = 1
    None = None
SPECIFICATION TasksRun
PROPERTY
    RouteEnds
