SPECIFICATION FairSpec
CONSTANTS
    Workers = {w1, w2}
    Conns = {c1, c2}
    Senders = {c1}
    FDs = {4, 5}
    Cells = {p1, p2}
    NoWorker = NoWorker
    NoConn = NoConn
    NoCell = NoCell
    ServerData = ServerData
    BufSize = 2
    MaxBytes = 2
    SndBuf = 1
    SharedHeap = FALSE
    Faults = FALSE
CHECK_DEADLOCK FALSE
INVARIANTS
    TypeOK
    ExclusiveAccess
    SigpipeNeedsFin
    NoDanglingEvent
    OwnershipInv
    EchoPrefix
    WriteHasData
    NoLostConnection
PROPERTY
    ClosesOnlyReset
    EchoesAsPromised
    EchoDelivered
