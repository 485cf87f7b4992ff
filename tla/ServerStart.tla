----------------------------- MODULE ServerStart -----------------------------
(***************************************************************************)
(* MultiWorkerIoMultiplexingTCPServer::start() and setupServerTcpSocket()    *)
(* (src/src/servers/multi_worker_nonblocking_io_multiplexing_server.h): the  *)
(* main thread binds a listening socket, makes an epoll instance watch it    *)
(* and creates the workers, in one of two modes:                            *)
(*   reuse_port_ false   one socket and one epoll instance for all workers   *)
(*   reuse_port_ true    one of each per worker, and one more socket at the  *)
(*                       end (server_main.cpp starts the program this way)   *)
(* A worker copies the member server_sfd_ when its thread gets to run, while *)
(* the main thread goes on assigning to it.  What a worker does with         *)
(* accepted connections is MultiWorkerServer's subject.                     *)
(***************************************************************************)
EXTENDS Integers, Sequences

CONSTANTS
    WorkerNum,   \* worker_num_
    Modes,       \* the values of reuse_port that servers are constructed with
    Fds,         \* descriptor numbers the process may be given for sockets
    Addrs,       \* the address list of getaddrinfo(), in its order
    InUse,       \* pairs of addresses that cannot both be bound to the port
    Clients,     \* clients that connect to the port
    Faults       \* may socket(), listen(), the epoll calls or a thread's creation fail?

NoFd == -1

AddrSet == {Addrs[k] : k \in 1 .. Len(Addrs)}

ASSUME StartAssumption ==
    /\ WorkerNum \in Nat \ {0}
    /\ Modes \subseteq BOOLEAN
    /\ Fds \subseteq Nat
    /\ Addrs \in Seq(AddrSet) /\ Addrs # << >>
    /\ InUse \subseteq AddrSet \X AddrSet
    /\ \A a \in AddrSet : <<a, a>> \in InUse
    /\ Faults \in BOOLEAN

Workers == 0 .. WorkerNum - 1

VARIABLES
    reuse_port,  \* the member reuse_port_
    mpc,         \* the next call of the main thread
    i,           \* the loop variable of start()
    rp,          \* position in the address list
    sfd,         \* server_sfd of setupServerTcpSocket()
    server_sfd,  \* the member server_sfd_
    socks,       \* the sockets of the process, by descriptor
    watch,       \* the listening socket in the epoll instance of each worker
    wpc,         \* where each worker thread is
    own,         \* Worker::server_sfd_, copied when the thread starts
    client,      \* how far each client has come
    at           \* the listening socket a client's connection is queued at

modeVars == <<reuse_port, i>>
setupVars == <<rp, sfd, socks>>
workerVars == <<watch, wpc, own>>
clientVars == <<client, at>>
vars == <<reuse_port, mpc, i, rp, sfd, server_sfd, socks, watch, wpc, own,
          client, at>>

SockStates == {"free", "open", "bound", "listening"}
NoSocket == [state |-> "free", addr |-> Addrs[1], reuse |-> FALSE]

TypeOK ==
    /\ reuse_port \in Modes
    /\ mpc \in {"socket", "bind", "listen", "epoll", "spawn", "join", "exit"}
    /\ i \in 0 .. WorkerNum
    /\ rp \in 1 .. Len(Addrs) + 1
    /\ sfd \in Fds \cup {NoFd}
    /\ server_sfd \in Fds \cup {NoFd}
    /\ socks \in [Fds -> [state : SockStates, addr : AddrSet, reuse : BOOLEAN]]
    /\ watch \in [Workers -> Fds \cup {NoFd}]
    /\ wpc \in [Workers -> {"none", "created", "running", "spinning"}]
    /\ own \in [Workers -> Fds \cup {NoFd}]
    /\ client \in [Clients -> {"away", "queued", "accepted", "refused"}]
    /\ at \in [Clients -> Fds \cup {NoFd}]

\* Mutant: the threads are created before the listening socket.
InitThreadsFirst ==
    /\ reuse_port \in Modes
    /\ mpc = "socket"
    /\ i = 0
    /\ rp = 1
    /\ sfd = NoFd
    /\ server_sfd = NoFd
    /\ socks = [f \in Fds |-> NoSocket]
    /\ watch = [w \in Workers |-> NoFd]
    /\ wpc = [w \in Workers |-> "created"]
    /\ own = [w \in Workers |-> NoFd]
    /\ client = [c \in Clients |-> "away"]
    /\ at = [c \in Clients |-> NoFd]

Init ==
    /\ reuse_port \in Modes
    /\ mpc = "socket"
    /\ i = 0
    /\ rp = 1
    /\ sfd = NoFd
    /\ server_sfd = NoFd
    /\ socks = [f \in Fds |-> NoSocket]
    /\ watch = [w \in Workers |-> NoFd]
    /\ wpc = [w \in Workers |-> "none"]
    /\ own = [w \in Workers |-> NoFd]
    /\ client = [c \in Clients |-> "away"]
    /\ at = [c \in Clients |-> NoFd]

-----------------------------------------------------------------------------
(* setupServerTcpSocket()                                                   *)

\* Only the socket set up at line 99 is given SO_REUSEPORT; those of the workers
\* (line 72) and the shared one (line 101) are not.
WithReusePort == reuse_port /\ i = WorkerNum

FreeFds == {f \in Fds : socks[f].state = "free"}

IsLowestFree(f) == f \in FreeFds /\ \A g \in FreeFds : f <= g

\* bind() at address a would fail: the port is bound at an address that excludes
\* it, unless both sockets have SO_REUSEPORT.
AddrInUse(a) ==
    \E f \in Fds :
        /\ socks[f].state \in {"bound", "listening"}
        /\ <<socks[f].addr, a>> \in InUse
        /\ ~(socks[f].reuse /\ WithReusePort)

\* An exception: the handler at line 137 closes server_sfd_ and ends the process,
\* with its threads and clients.  socks keeps the sockets that set-up has not closed
\* by then.
Exit ==
    /\ mpc' = "exit"
    /\ client' = [c \in Clients |-> IF client[c] = "queued" THEN "refused"
                                                           ELSE client[c]]
    /\ UNCHANGED <<modeVars, rp, sfd, server_sfd, workerVars, at>>

\* The test at line 438 takes descriptor 0 for a failure and goes on to the next
\* address, and -1 for a success.
SocketGives(f) ==
    /\ IsLowestFree(f)
    /\ socks' = [socks EXCEPT ![f] = [state |-> "open", addr |-> Addrs[rp],
                                      reuse |-> WithReusePort]]
    /\ sfd' = f
    /\ IF f = 0 THEN rp' = rp + 1 /\ UNCHANGED mpc
                ELSE mpc' = "bind" /\ UNCHANGED rp

SocketFails ==
    /\ Faults \/ FreeFds = {}
    /\ sfd' = NoFd
    /\ mpc' = "bind"
    /\ UNCHANGED <<socks, rp>>

\* socket()
Socket ==
    /\ mpc = "socket" /\ rp <= Len(Addrs)
    /\ (\E f \in Fds : SocketGives(f)) \/ SocketFails
    /\ UNCHANGED <<modeVars, server_sfd, workerVars, clientVars>>

Bind ==
    /\ mpc = "bind" /\ sfd # NoFd /\ ~AddrInUse(Addrs[rp])
    /\ socks' = [socks EXCEPT ![sfd].state = "bound"]
    /\ mpc' = "listen"
    /\ UNCHANGED <<modeVars, rp, sfd, server_sfd, workerVars, clientVars>>

\* EADDRINUSE, or EBADF when socket() had failed: close and try the next address.
BindFails ==
    /\ mpc = "bind"
    /\ sfd = NoFd \/ AddrInUse(Addrs[rp])
    /\ socks' = [f \in Fds |-> IF f = sfd THEN NoSocket ELSE socks[f]]
    /\ rp' = rp + 1
    /\ mpc' = "socket"
    /\ UNCHANGED <<modeVars, sfd, server_sfd, workerVars, clientVars>>

\* "Could not bind"
NoAddress == mpc = "socket" /\ rp > Len(Addrs) /\ Exit /\ UNCHANGED socks

\* listen(), and server_sfd_ is assigned the result (lines 72, 99 and 101).
Listen ==
    /\ mpc = "listen"
    /\ socks' = [socks EXCEPT ![sfd].state = "listening"]
    /\ server_sfd' = sfd
    /\ mpc' = IF WithReusePort THEN "join" ELSE "epoll"
    /\ UNCHANGED <<modeVars, rp, sfd, workerVars, clientVars>>

\* Mutant: "Could not listen" is thrown with the socket open.
ListenFailsOpen == mpc = "listen" /\ Faults /\ Exit /\ UNCHANGED socks

\* close_fd(), and "Could not listen" is thrown.
ListenFails ==
    /\ mpc = "listen" /\ Faults
    /\ socks' = [socks EXCEPT ![sfd] = NoSocket]
    /\ Exit

-----------------------------------------------------------------------------
(* start()                                                                  *)

\* epoll_create1() and EPOLL_CTL_ADD of the listening socket.
EpollAdd ==
    /\ mpc = "epoll"
    /\ watch' = [w \in Workers |->
                    IF ~reuse_port \/ w = i THEN server_sfd ELSE watch[w]]
    /\ mpc' = "spawn"
    /\ UNCHANGED <<modeVars, setupVars, server_sfd, wpc, own, clientVars>>

EpollFails == mpc = "epoll" /\ Faults /\ Exit /\ UNCHANGED socks

\* Mutant: the loop runs once too often.
SpawnOneTooMany ==
    /\ mpc = "spawn"
    /\ wpc' = [wpc EXCEPT ![i] = "created"]
    /\ i' = i + 1
    /\ mpc' = IF reuse_port THEN "socket"
              ELSE IF i = WorkerNum THEN "join" ELSE "spawn"
    /\ rp' = 1
    /\ UNCHANGED <<reuse_port, sfd, server_sfd, socks, watch, own, clientVars>>

\* A worker thread is created, and the loop goes on: to the next socket, or to
\* the next thread.
Spawn ==
    /\ mpc = "spawn"
    /\ wpc' = [wpc EXCEPT ![i] = "created"]
    /\ i' = i + 1
    /\ mpc' = IF reuse_port THEN "socket"
              ELSE IF i + 1 = WorkerNum THEN "join" ELSE "spawn"
    /\ rp' = 1
    /\ UNCHANGED <<reuse_port, sfd, server_sfd, socks, watch, own, clientVars>>

\* Mutant: start() makes do with the threads it has.
SpawnFailsIgnored ==
    /\ mpc = "spawn" /\ Faults
    /\ mpc' = "join"
    /\ UNCHANGED <<modeVars, setupVars, server_sfd, workerVars, clientVars>>

\* std::thread throws std::system_error, which is a std::runtime_error.
SpawnFails == mpc = "spawn" /\ Faults /\ Exit /\ UNCHANGED socks

MainStep ==
    \/ Socket \/ Bind \/ BindFails \/ NoAddress \/ Listen \/ ListenFails
    \/ EpollAdd \/ EpollFails \/ Spawn \/ SpawnFails

-----------------------------------------------------------------------------
(* Worker threads and clients.                                              *)

\* Mutant: the Worker is constructed before start() has set server_sfd_.
WorkerBuiltEarly(w) ==
    /\ mpc # "exit"
    /\ wpc[w] = "created"
    /\ wpc' = [wpc EXCEPT ![w] = "running"]
    /\ own' = [own EXCEPT ![w] = NoFd]
    /\ UNCHANGED <<mpc, modeVars, setupVars, server_sfd, watch, clientVars>>

\* The thread runs: Worker is constructed from what server_sfd_ is by now.
WorkerRuns(w) ==
    /\ mpc # "exit"
    /\ wpc[w] = "created"
    /\ wpc' = [wpc EXCEPT ![w] = "running"]
    /\ own' = [own EXCEPT ![w] = server_sfd]
    /\ UNCHANGED <<mpc, modeVars, setupVars, server_sfd, watch, clientVars>>

Queued(f) == {c \in Clients : client[c] = "queued" /\ at[c] = f}

\* The event's descriptor is the worker's server_sfd_: accept all that is queued.
WorkerAccepts(w) ==
    /\ mpc # "exit"
    /\ wpc[w] = "running" /\ watch[w] = own[w]
    /\ Queued(watch[w]) # {}
    /\ client' = [c \in Clients |-> IF c \in Queued(watch[w]) THEN "accepted"
                                                              ELSE client[c]]
    /\ UNCHANGED <<mpc, modeVars, setupVars, server_sfd, workerVars, at>>

\* It is not: the worker handles its listening socket as a connection.  read()
\* fails, the rearm of an EPOLLEXCLUSIVE registration fails too, and the
\* level-triggered event is back at once, for ever.
WorkerMistakes(w) ==
    /\ mpc # "exit"
    /\ wpc[w] = "running" /\ watch[w] # own[w]
    /\ watch[w] # NoFd /\ Queued(watch[w]) # {}
    /\ wpc' = [wpc EXCEPT ![w] = "spinning"]
    /\ UNCHANGED <<mpc, modeVars, setupVars, server_sfd, watch, own, clientVars>>

WorkerStep(w) == WorkerRuns(w) \/ WorkerAccepts(w) \/ WorkerMistakes(w)

\* A client connects, and is queued at one of the listening sockets.
Connect(c) ==
    /\ mpc # "exit"
    /\ client[c] = "away"
    /\ \E f \in Fds :
        /\ socks[f].state = "listening"
        /\ at' = [at EXCEPT ![c] = f]
    /\ client' = [client EXCEPT ![c] = "queued"]
    /\ UNCHANGED <<mpc, modeVars, setupVars, server_sfd, workerVars>>

Next ==
    \/ MainStep
    \/ \E w \in Workers : WorkerStep(w)
    \/ \E c \in Clients : Connect(c)

Spec == Init /\ [][Next]_vars

\* Every thread is scheduled.
FairSpec ==
    /\ Spec
    /\ WF_vars(MainStep)
    /\ \A w \in Workers : WF_vars(WorkerStep(w))

-----------------------------------------------------------------------------
(* Properties.                                                              *)

\* A worker takes for its listening socket (line 220) what server_sfd_ is when its
\* thread gets to run (lines 95 and 127).  It is always a socket that listens; in
\* shared mode it is the one the worker's epoll instance watches, and in
\* reuse-port mode, where the main thread goes on assigning, it is never that of
\* an earlier worker.
TakesListener ==
    \A w \in Workers : wpc[w] \in {"running", "spinning"} =>
        /\ own[w] \in Fds /\ socks[own[w]].state = "listening"
        /\ ~reuse_port => own[w] = watch[w]
        /\ reuse_port => \A v \in Workers : v < w => own[w] # watch[v]

\* setupServerTcpSocket() leaves no socket behind that does not listen: every
\* failed attempt is closed (lines 451 and 461) before the next address is tried or
\* an exception is thrown.  Only a socket with descriptor 0, which line 438 takes for
\* a failure, is left open.
NoLeakedSocket ==
    \A f \in Fds \ {0} : socks[f].state \in {"open", "bound"} =>
        f = sfd /\ mpc \in {"bind", "listen"}

\* A client that is queued is accepted, if the process stays up: in shared mode no
\* worker misses the level-triggered event of the listening socket.
ClientsAccepted ==
    \A c \in Clients : (client[c] = "queued" /\ ~reuse_port) ~>
        (client[c] = "accepted" \/ mpc = "exit")

\* Lines 69 and 123, "create worker threads to distribute accept() and read()":
\* if no call fails for want of resources, in the end all the workers run.
WorkersDistribute ==
    <>[](\A w \in Workers : wpc[w] = "running" /\ mpc # "exit")

\* The same where any call, or the creation of any worker's thread, may fail: in
\* neither mode does start() stop halfway, with some of the workers started and the
\* rest missing or waiting for a socket that is never set up (line 137).
AllWorkersOrExit ==
    <>[](\/ mpc = "exit"
         \/ mpc = "join" /\ \A w \in Workers : wpc[w] \in {"running", "spinning"})

=============================================================================
