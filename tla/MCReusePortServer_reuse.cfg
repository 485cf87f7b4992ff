SPECIFICATION FairSpec
CONSTANTS
    WorkerNum = 2
    Master = Master
    Pids = {1, 2, 3}
    Addrs <- AnyAddrs
    Clients = {c1, c2}
    NoPid = NoPid
    NoClient = NoClient
    AtEof = "stops"
    Faults = TRUE
CHECK_DEADLOCK FALSE
INVARIANTS
    TypeOK
    OnlyMasterForks
PROPERTY
    QueuedServed
