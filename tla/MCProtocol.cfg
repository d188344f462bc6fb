CONSTANTS
    Clients = {c1, c2}
    CsClients = {c2}
    Servers = {s1, s2}
    Profiles = {vk, none}
    SessionIds = {i1, i2}
    None = None
    WindowSize = 3
    MaxSeq = 6
    RekeyAt = 4
    MaxNonce = 8
    IpSizes <- MCIpSizes
    Http = {392}
    Profile = 1
    Malformed <- MCMalformed
    MaxStream = 2
SPECIFICATION MCSpec
SYMMETRY Symmetry
INVARIANTS
    ClientCompletionAgrees
    ServerCompletionAgrees
    SameViewSameTag
    AtMostOnce
    MaskIsExact
    NumberIsNonce
    CountersInStep
    OpenedOnce
    WhatIsSentParses
    StreamInOrder
    NeverDuplicate
PROPERTIES
    RefinesAgreement
    RefusalIsFinal
    RefinesGate
    UsedUpIsLost
CHECK_DEADLOCK FALSE
