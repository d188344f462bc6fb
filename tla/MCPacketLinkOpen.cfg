CONSTANTS
    WindowSize = 2
    MaxSeq = 3
    RekeyAt = 2
    MaxNonce = 5
    IpSizes <- MCIpSizes
    Http = {392}
    Profile = 1
    Malformed <- MCMalformed
    MaxStream = 2
SPECIFICATION LinkSpec
INVARIANTS
    PacketsOpen
CHECK_DEADLOCK FALSE
