SPECIFICATION FairSpec
CONSTANTS
    WorkerNum = 2
    Modes = {TRUE, FALSE}
    Fds = {0, 3, 4, 5}
    Addrs <- AnyAddrs
    InUse <- V6Only
    Clients = {c1, c2}
    Faults = TRUE
CHECK_DEADLOCK FALSE
INVARIANTS
    TypeOK
    TakesListener
    NoLeakedSocket
PROPERTY
    ClientsAccepted
    AllWorkersOrExit
