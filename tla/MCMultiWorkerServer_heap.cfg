SPECIFICATION Spec
CONSTANTS
    Workers = {w1, w2}
    Conns = {c1, c2, c3}
    Senders = {c1}
    FDs = {4, 5}
    Cells = {p1, p2}
    NoWorker = NoWorker
    NoConn = NoConn
    NoCell = NoCell
    ServerData = ServerData
    BufSize = 1
    MaxBytes = 3
    SndBuf = 1
    SharedHeap = TRUE
    Faults = TRUE
SYMMETRY Symmetry
CHECK_DEADLOCK FALSE
INVARIANTS
    WriteModeIsTransient
    OverrunAtMostOne
    ReadsOneBuffer
