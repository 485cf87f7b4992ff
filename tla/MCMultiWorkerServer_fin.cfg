SPECIFICATION FairSpec
CONSTANTS
    Workers = {w1, w2}
    Conns = {c1}
    Senders = {c1}
    FDs = {4, 5}
    Cells = {p1}
    NoWorker = NoWorker
    NoConn = NoConn
    NoCell = NoCell
    ServerData = ServerData
    BufSize = 2
    MaxBytes = 2
    SndBuf = 1
    SharedHeap = FALSE
    Faults = FALSE
CHECK_DEADLOCK FALSE
PROPERTY
    EchoesBeforeFin
