SPECIFICATION FairSpec
CONSTANTS
    Conns = {c1, c2, c3}
    Senders = {c1}
    SndBuf = 1
    MaxBytes = 2
    ServerFd = 3
    FDs = {4, 5, 6}
    NoConn = NoConn
    BufSize = 1
    AtEof = "stops"
    Faults = TRUE
CHECK_DEADLOCK FALSE
INVARIANTS
    TypeOK
    NoStaleEvent
    NoLostEdge
    NoLostConnection
PROPERTY
    DataRead
    QueueAccepted
