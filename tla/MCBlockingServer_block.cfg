SPECIFICATION FairSpec
CONSTANTS
    EchoClients = {e1}
    Turns = 2
    MsgLen = 2
    Threads = {t1}
    Rounds = 2
    Pings = 2
    Conns <- ClientConns
    SndBuf = 1
    Main = Main
    Designs = {TRUE, FALSE}
    BufSize = 2
    MaxFds = 2
    Faults = TRUE
CHECK_DEADLOCK FALSE
INVARIANTS
    TypeOK
    MainEnds
PROPERTY
    EchoesAsPromised
    QueueServed
    ClientsFinish
