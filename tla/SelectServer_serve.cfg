SPECIFICATION FairSpec
CONSTANTS
    Conns = {c1, c2, c3}
    Senders = {c1}
    SndBuf = 1
    MaxBytes = 2
    ServerFd = 3
    FDs = {4, 5, 6}
    NoConn = NoConn
    BufSize = 2
    Faults = TRUE
CHECK_DEADLOCK FALSE
INVARIANTS
    TypeOK
    WatchesOpenFds
    HighestWatched
    ScanCoversReady
PROPERTY
    NobodyForgotten
    EchoesInOrder
