SPECIFICATION Spec
CONSTANTS
    Conns = {c1, c2}
    Senders = {c1}
    SndBuf = 1
    MaxBytes = 3
    ServerFd = 3
    FDs = {4, 5, 6}
    NoConn = NoConn
    BufSize = 2
    Faults = FALSE
CHECK_DEADLOCK FALSE
INVARIANT
    EchoIsExact
