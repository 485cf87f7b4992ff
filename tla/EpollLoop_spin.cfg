SPECIFICATION FairSpec
CONSTANTS
    Conns = {c1, c2, c3}
    Senders = {c1}
    SndBuf = 1
    MaxBytes = 2
    ServerFd = 3
    FDs = {4, 5}
    NoConn = NoConn
    BufSize = 1
    AtEof = "goes on"
    Faults = FALSE
CHECK_DEADLOCK FALSE
PROPERTY
    QueueAccepted
