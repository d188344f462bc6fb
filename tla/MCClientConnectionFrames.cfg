CONSTANTS
    Configs <- MCConfigs
    HttpHeaders <- MCHeaders
    MaxConnections = 3
    MaxFrames = 3
    None = None
SPECIFICATION ClientSpec
PROPERTY
    ReadInStep
CHECK_DEADLOCK FALSE
