SPECIFICATION ChannelsSpec
CONSTANTS
    Objects = {s1, s2}
    Fds = {3, 4}
    PlainAccept = TRUE
    WireRoom = 2
    MaxRecord = 2
    SendSize = 3
    RecvSize = 1
    TlsData = 4
INVARIANTS OneOwner BlockingModeHonoured ConnectedIsReal TlsKeepsBytes
PROPERTY TlsDelivers
CHECK_DEADLOCK FALSE
