SPECIFICATION FairSpec
CONSTANTS
    WorkerNum = 2
    Modes = {TRUE}
    Fds = {3, 4, 5}
    Addrs <- AnyAddrs
    InUse <- DualStack
    Clients = {c1, c2}
    Faults = FALSE
CHECK_DEADLOCK FALSE
PROPERTY
    WorkersDistribute
