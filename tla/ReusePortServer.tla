--------------------------- MODULE ReusePortServer ---------------------------
(***************************************************************************)
(* The multi-process server of                                             *)
(* multi_worker_reuseport_nonblocking_io_multiplexing_server.{cpp,h}: main()   *)
(* and linux_concurrent_server::start(), the same code, fork the workers;     *)
(* each of them sets up a listening socket of its own with                   *)
(* setup_server_tcp_socket() (src/src/utilities/server_utility.cpp), the       *)
(* kernel spreads the clients over them, and each runs epoll_event_loop() on    *)
(* an epoll instance of its own: it accepts at its listening socket and reads   *)
(* from its connections in one thread.  main() calls the loop of               *)
(* server_utility.cpp (AtEof = "stops"), start() the copy in the header ("goes   *)
(* on").  EpollLoop has the loop in full, with batches and descriptor numbers;    *)
(* here a peer may send for ever.                                           *)
(*                                                                         *)
(* Every process has its copy of the fork loop: a worker that left its try    *)
(* block alive would go on forking.                                         *)
(***************************************************************************)
EXTENDS Integers, Sequences, FiniteSets

CONSTANTS
    WorkerNum,   \* worker_process_num
    Master,      \* the first process
    Pids,        \* bound: process numbers, which fork() gives in their order
    Addrs,       \* the address list of getaddrinfo(), in its order
    Clients,     \* clients that connect to the port
    NoPid,
    NoClient,
    AtEof,       \* what the read loop does at end of file: "stops" or "goes on"
    Faults       \* may fork(), socket(), listen() and the epoll calls fail?

AddrSet == {Addrs[k] : k \in 1 .. Len(Addrs)}

ASSUME ReusePortAssumption ==
    /\ WorkerNum \in Nat
    /\ Master \notin Pids /\ NoPid \notin Pids
    /\ Pids \subseteq Nat /\ IsFiniteSet(Pids)
    /\ Addrs \in Seq(AddrSet) /\ Addrs # << >>
    /\ NoClient \notin Clients
    /\ AtEof \in {"stops", "goes on"}
    /\ Faults \in BOOLEAN

Procs == {Master} \cup Pids

VARIABLES
    taken,    \* addresses at which another program has the port
    pc,       \* the next call of each process
    i,        \* its loop variable, copied by fork()
    rp,       \* its position in the address list
    bound,    \* the address its socket is bound to, if any
    edge,     \* its listening socket is on the ready list of its epoll instance
    client,   \* how far each client has come
    at,       \* the process at whose socket a client was queued
    unread,   \* what has come from each client: "data", an end of file, a reset
    armed,    \* the connections whose one-shot registration is armed
    cur       \* the connection each process reads from

connVars == <<unread, armed, cur>>
vars == <<taken, pc, i, rp, bound, edge, client, at, unread, armed, cur>>

Inputs == {"data", "fin", "rst"}

\* Listening: connections are queued from listen() on.
Listening == {p \in Procs : pc[p] \in {"epoll", "loop", "read"}}

Queued(p) == {c \in Clients : client[c] = "queued" /\ at[c] = p}

\* The connections of p that are open.
Accepted(p) == {c \in Clients : client[c] = "accepted" /\ at[c] = p}

TypeOK ==
    /\ taken \subseteq AddrSet
    /\ pc \in [Procs -> {"none", "fork", "socket", "bind", "listen", "epoll", "loop",
                      "read", "end"}]
    /\ i \in [Procs -> 0 .. WorkerNum]
    /\ rp \in [Procs -> 1 .. Len(Addrs) + 1]
    /\ bound \in [Procs -> SUBSET AddrSet]
    /\ \A p \in Procs :
        pc[p] \in {"listen", "epoll", "loop", "read"} <=> bound[p] # {}
    /\ edge \in [Procs -> BOOLEAN]
    /\ client \in [Clients -> {"away", "queued", "accepted", "closed", "reset"}]
    /\ at \in [Clients -> Pids \cup {NoPid}]
    /\ \A c \in Clients : client[c] \in {"queued", "accepted"} => at[c] \in Listening
    /\ unread \in [Clients -> SUBSET Inputs]
    /\ armed \subseteq {c \in Clients : client[c] = "accepted"}
    /\ cur \in [Procs -> Clients \cup {NoClient}]
    /\ \A p \in Procs : pc[p] = "read" => cur[p] \in Accepted(p) \ armed

Init ==
    /\ taken \in SUBSET AddrSet
    /\ pc = [p \in Procs |-> IF p = Master THEN "fork" ELSE "none"]
    /\ i = [p \in Procs |-> 0]
    /\ rp = [p \in Procs |-> 1]
    /\ bound = [p \in Procs |-> {}]
    /\ edge = [p \in Procs |-> FALSE]
    /\ client = [c \in Clients |-> "away"]
    /\ at = [c \in Clients |-> NoPid]
    /\ unread = [c \in Clients |-> {}]
    /\ armed = {}
    /\ cur = [p \in Procs |-> NoClient]

-----------------------------------------------------------------------------
(* The fork loop.                                                           *)

Fork(p) ==
    /\ pc[p] = "fork" /\ i[p] < WorkerNum
    /\ \E q \in Pids :
        /\ pc[q] = "none" /\ \A r \in Pids : pc[r] = "none" => q <= r
        /\ pc' = [pc EXCEPT ![q] = "socket"]
        /\ i' = [i EXCEPT ![q] = i[p], ![p] = @ + 1]
    /\ UNCHANGED <<taken, rp, bound, edge, client, at, connVars>>

\* The process is gone, with its socket, those queued there and its connections.
Ends(p) ==
    /\ pc' = [pc EXCEPT ![p] = "end"]
    /\ bound' = [bound EXCEPT ![p] = {}]
    /\ edge' = [edge EXCEPT ![p] = FALSE]
    /\ client' = [c \in Clients |-> IF c \in Queued(p) \cup Accepted(p) THEN "reset"
                                                                   ELSE client[c]]
    /\ armed' = armed \ Accepted(p)
    /\ UNCHANGED <<taken, i, rp, at, unread, cur>>

\* The master's loop is done; its workers go on without it.
Returns(p) == pc[p] = "fork" /\ i[p] >= WorkerNum /\ Ends(p)

\* Nobody catches this exception.
ForkFails(p) == pc[p] = "fork" /\ i[p] < WorkerNum /\ Faults /\ Ends(p)

\* Mutant: the handler closes the socket but does not exit.
HandlerReturns(p) ==
    /\ pc' = [pc EXCEPT ![p] = "fork"]
    /\ i' = [i EXCEPT ![p] = @ + 1]
    /\ bound' = [bound EXCEPT ![p] = {}]
    /\ edge' = [edge EXCEPT ![p] = FALSE]
    /\ client' = [c \in Clients |-> IF c \in Queued(p) \cup Accepted(p) THEN "reset"
                                                                   ELSE client[c]]
    /\ armed' = armed \ Accepted(p)
    /\ UNCHANGED <<taken, rp, at, unread, cur>>

\* The worker's handler: close and exit(EXIT_FAILURE).
Exit(p) == Ends(p)

-----------------------------------------------------------------------------
(* setup_server_tcp_socket(), with is_nonblock and reuse_port set.            *)

Socket(p) ==
    /\ pc[p] = "socket" /\ rp[p] <= Len(Addrs)
    /\ pc' = [pc EXCEPT ![p] = "bind"]
    /\ UNCHANGED <<taken, i, rp, bound, edge, client, at, connVars>>

\* The next address.
SocketFails(p) ==
    /\ pc[p] = "socket" /\ rp[p] <= Len(Addrs) /\ Faults
    /\ rp' = [rp EXCEPT ![p] = @ + 1]
    /\ UNCHANGED <<taken, pc, i, bound, edge, client, at, connVars>>

\* All the workers' sockets have SO_REUSEPORT (its value has all the bits of
\* SO_REUSEADDR), so they exclude each other at no address.
Bind(p) ==
    /\ pc[p] = "bind" /\ Addrs[rp[p]] \notin taken
    /\ bound' = [bound EXCEPT ![p] = {Addrs[rp[p]]}]
    /\ pc' = [pc EXCEPT ![p] = "listen"]
    /\ UNCHANGED <<taken, i, rp, edge, client, at, connVars>>

\* Mutant: on to listen() after a bind() that failed.
BindUntested(p) ==
    /\ pc[p] = "bind" /\ Addrs[rp[p]] \in taken
    /\ pc' = [pc EXCEPT ![p] = "listen"]
    /\ UNCHANGED <<taken, i, rp, bound, edge, client, at, connVars>>

\* EADDRINUSE: close_fd() and the next address.
BindFails(p) ==
    /\ pc[p] = "bind" /\ Addrs[rp[p]] \in taken
    /\ rp' = [rp EXCEPT ![p] = @ + 1]
    /\ pc' = [pc EXCEPT ![p] = "socket"]
    /\ UNCHANGED <<taken, i, bound, edge, client, at, connVars>>

\* "Could not bind"
NoAddress(p) == pc[p] = "socket" /\ rp[p] > Len(Addrs) /\ Exit(p)

Listen(p) ==
    /\ pc[p] = "listen"
    /\ pc' = [pc EXCEPT ![p] = "epoll"]
    /\ UNCHANGED <<taken, i, rp, bound, edge, client, at, connVars>>

\* "Could not listen to port"
ListenFails(p) == pc[p] = "listen" /\ Faults /\ Exit(p)

-----------------------------------------------------------------------------
(* epoll_event_loop() of a worker: registration, and the listening socket.      *)

\* epoll_create1() and EPOLL_CTL_ADD, edge-triggered: clients that are queued by
\* now count as an edge.
EpollAdd(p) ==
    /\ pc[p] = "epoll"
    /\ pc' = [pc EXCEPT ![p] = "loop"]
    /\ edge' = [edge EXCEPT ![p] = Queued(p) # {}]
    /\ UNCHANGED <<taken, i, rp, bound, client, at, connVars>>

EpollFails(p) == pc[p] = "epoll" /\ Faults /\ Exit(p)

\* Mutant: one connection is accepted for each event.
AcceptOnce(p) ==
    /\ pc[p] = "loop" /\ edge[p]
    /\ edge' = [edge EXCEPT ![p] = FALSE]
    /\ \E c \in Queued(p) :
        /\ client' = [client EXCEPT ![c] = "accepted"]
        /\ armed' = armed \cup {c}
    /\ UNCHANGED <<taken, pc, i, rp, bound, at, unread, cur>>

\* The event of the listening socket: accept until EAGAIN, and EPOLL_CTL_ADD.
AcceptAll(p) ==
    /\ pc[p] = "loop" /\ edge[p]
    /\ edge' = [edge EXCEPT ![p] = FALSE]
    /\ client' = [c \in Clients |-> IF c \in Queued(p) THEN "accepted" ELSE client[c]]
    /\ armed' = armed \cup Queued(p)
    /\ UNCHANGED <<taken, pc, i, rp, bound, at, unread, cur>>

\* epoll_wait(), accept4() or epoll_ctl() fails in the loop.
LoopFails(p) == pc[p] \in {"loop", "read"} /\ Faults /\ Exit(p)

-----------------------------------------------------------------------------
(* The events of a connection.                                              *)

Ended(c) == unread[c] \cap {"fin", "rst"} # {}

\* EPOLLRDHUP comes first, whatever is unread.
DispatchClose(p) ==
    /\ pc[p] = "loop"
    /\ \E c \in Accepted(p) \cap armed :
        /\ Ended(c)
        /\ client' = [client EXCEPT ![c] = "closed"]
        /\ armed' = armed \ {c}
    /\ UNCHANGED <<taken, pc, i, rp, bound, edge, at, unread, cur>>

DispatchRead(p) ==
    /\ pc[p] = "loop"
    /\ \E c \in Accepted(p) \cap armed :
        /\ "data" \in unread[c] /\ ~Ended(c)
        /\ cur' = [cur EXCEPT ![p] = c]
        /\ armed' = armed \ {c}
    /\ pc' = [pc EXCEPT ![p] = "read"]
    /\ UNCHANGED <<taken, i, rp, bound, edge, client, at, unread>>

ReadData(p) ==
    /\ pc[p] = "read" /\ "data" \in unread[cur[p]]
    /\ unread' = [unread EXCEPT ![cur[p]] = @ \ {"data"}]
    /\ UNCHANGED <<taken, pc, i, rp, bound, edge, client, at, armed, cur>>

\* EAGAIN: rearm, and on to the next event.
ReadAgain(p) ==
    /\ pc[p] = "read" /\ unread[cur[p]] = {}
    /\ armed' = armed \cup {cur[p]}
    /\ pc' = [pc EXCEPT ![p] = "loop"]
    /\ UNCHANGED <<taken, i, rp, bound, edge, client, at, unread, cur>>

\* The end of file came after epoll_wait() had returned: the connection is left
\* disarmed; in the header's copy read() is called again and again.
ReadEof(p) ==
    /\ pc[p] = "read" /\ unread[cur[p]] = {"fin"}
    /\ pc' = [pc EXCEPT ![p] = IF AtEof = "stops" THEN "loop" ELSE "read"]
    /\ UNCHANGED <<taken, i, rp, bound, edge, client, at, connVars>>

\* So it is with a reset that came after epoll_wait(), in both copies.
ReadError(p) ==
    /\ pc[p] = "read" /\ "rst" \in unread[cur[p]]
    /\ pc' = [pc EXCEPT ![p] = "loop"]
    /\ UNCHANGED <<taken, i, rp, bound, edge, client, at, connVars>>

-----------------------------------------------------------------------------
(* The clients.                                                             *)

\* The kernel queues the client at one of the sockets that listen.
Connect(c) ==
    /\ client[c] = "away"
    /\ \E p \in Listening :
        /\ at' = [at EXCEPT ![c] = p]
        /\ edge' = [edge EXCEPT ![p] = @ \/ pc[p] \in {"loop", "read"}]
    /\ client' = [client EXCEPT ![c] = "queued"]
    /\ UNCHANGED <<taken, pc, i, rp, bound, connVars>>

Connected(c) == client[c] \in {"queued", "accepted"} /\ "rst" \notin unread[c]

\* A client may send as often as it likes.
Send(c) ==
    /\ Connected(c) /\ unread[c] = {}
    /\ unread' = [unread EXCEPT ![c] = {"data"}]
    /\ UNCHANGED <<taken, pc, i, rp, bound, edge, client, at, armed, cur>>

\* It shuts down its sending side, or resets the connection and what is unread.
Finish(c) ==
    /\ Connected(c)
    /\ \E u \in {unread[c] \cup {"fin"}, {"rst"}} :
        /\ u # unread[c]
        /\ unread' = [unread EXCEPT ![c] = u]
    /\ UNCHANGED <<taken, pc, i, rp, bound, edge, client, at, armed, cur>>

-----------------------------------------------------------------------------

Step(p) ==
    \/ Fork(p) \/ Returns(p)
    \/ Socket(p) \/ Bind(p) \/ BindFails(p) \/ NoAddress(p) \/ Listen(p)
    \/ EpollAdd(p) \/ AcceptAll(p)
    \/ DispatchClose(p) \/ DispatchRead(p)
    \/ ReadData(p) \/ ReadAgain(p) \/ ReadEof(p) \/ ReadError(p)

Failure(p) ==
    \/ ForkFails(p) \/ SocketFails(p) \/ ListenFails(p) \/ EpollFails(p)
    \/ LoopFails(p)

Next ==
    \/ \E p \in Procs : Step(p) \/ Failure(p)
    \/ \E c \in Clients : Connect(c) \/ Send(c) \/ Finish(c)

Spec == Init /\ [][Next]_vars

\* Every process is scheduled; that a call fails is not required.
FairSpec == Spec /\ \A p \in Procs : WF_vars(Step(p))

-----------------------------------------------------------------------------
(* Properties.                                                              *)

\* fork() copies the loop and its variable into the worker, but only the master
\* goes on with it: a worker serves until it fails, and then exits.  So there are
\* never more than worker_process_num workers.
OnlyMasterForks ==
    Cardinality({p \in Pids : pc[p] # "none"}) <= WorkerNum

\* A client that the kernel has queued at one worker is accepted by it, even if it
\* came before the worker had its epoll instance or while it was reading, or reset
\* with it; the others and the end of the master have no part in it.  This is said of
\* main(), whose read loop stops at end of file (AtEof = "stops"), and of peers that
\* pause: the loop reads until EAGAIN, so one that sends for ever keeps its worker
\* from its socket for ever.
QueuedServed ==
    <>[][\A c \in Clients : ~Send(c)]_vars =>
        \A c \in Clients : (client[c] = "queued") ~> (client[c] # "queued")

=============================================================================
