------------------------------ MODULE EpollLoop ------------------------------
(***************************************************************************)
(* epoll_event_loop(), which reads what clients send and answers nothing.    *)
(* It exists twice: in src/src/utilities/server_utility.cpp, used by the     *)
(* edge-triggered server and by each process of the reuse-port server, and   *)
(* as a member of linux_concurrent_server in                                *)
(* src/src/servers/multi_worker_reuseport_nonblocking_io_multiplexing_server.h *)
(* where the read loop does not stop at end of file (AtEof = "goes on").     *)
(* Line numbers are those of server_utility.cpp.  One process with its own   *)
(* listening socket and epoll instance is modelled: the worker processes     *)
(* share neither.  The listening socket is edge-triggered, the connections   *)
(* are edge-triggered and one-shot.                                         *)
(***************************************************************************)
EXTENDS TcpPeer, FiniteSets

CONSTANTS
    ServerFd,    \* the listening socket
    FDs,         \* descriptor numbers free for accept4()
    NoConn,
    BufSize,     \* BUFF_SIZE
    AtEof,       \* what the read loop does at end of file: "stops" or "goes on"
    Faults       \* may epoll_wait() be interrupted and epoll_ctl() fail?

ASSUME LoopAssumption ==
    /\ ServerFd \in Nat
    /\ FDs \subseteq Nat
    /\ ServerFd \notin FDs
    /\ NoConn \notin Conns
    /\ BufSize \in Nat \ {0}
    /\ AtEof \in {"stops", "goes on"}
    /\ Faults \in BOOLEAN

VARIABLES
    proc,     \* how the process is: "up" or "exit"
    fdt,      \* the process's descriptor table
    reg,      \* the registration of a connection's descriptor
    edge,     \* the listening socket is on the epoll instance's ready list
    batch,    \* events[i .. nfds): what epoll_wait() returned, not yet handled
    pc,       \* the next call
    cur       \* events[i].data.fd of the event being handled

loopVars == <<batch, pc, cur>>
vars == <<st, sock, proc, fdt, reg, edge, batch, pc, cur>>

Flags == {"IN", "OUT", "RDHUP", "ERR", "HUP"}

Events == [fd : FDs \cup {ServerFd}, ev : SUBSET Flags]

TypeOK ==
    /\ PeerTypeOK
    /\ proc \in {"up", "exit"}
    /\ fdt \in [FDs -> Conns \cup {NoConn}]
    /\ reg \in [FDs -> {"none", "armed", "spent"}]
    /\ \A f \in FDs : fdt[f] = NoConn <=> reg[f] = "none"
    /\ edge \in BOOLEAN
    /\ batch \in SUBSET Events
    /\ pc \in {"wait", "dispatch", "accept", "read"}
    /\ cur \in FDs \cup {ServerFd}

Init ==
    /\ PeerInit
    /\ proc = "up"
    /\ fdt = [f \in FDs |-> NoConn]
    /\ reg = [f \in FDs |-> "none"]
    /\ edge = FALSE
    /\ batch = {}
    /\ pc = "wait"
    /\ cur = ServerFd

\* A connection that joins the queue is an edge of the listening socket.
Peer(c) ==
    /\ proc = "up"
    /\ PeerStep(c)
    /\ edge' = (edge \/ Queued' # Queued)
    /\ UNCHANGED <<proc, fdt, reg, loopVars>>

-----------------------------------------------------------------------------
(* epoll_wait() and the dispatch of one event.                              *)

At(call) == proc = "up" /\ pc = call

\* EPOLLIN and EPOLLRDHUP are asked for, EPOLLERR and EPOLLHUP always reported.
EventsOf(f) ==
    IF reg[f] = "armed" THEN PollMask(sock[fdt[f]]) \ {"OUT"} ELSE {}

ReadyFds == {f \in FDs : EventsOf(f) # {}}

ListenerEvents ==
    IF edge /\ Queued # {} THEN {[fd |-> ServerFd, ev |-> {"IN"}]} ELSE {}

\* Mutant: registered without EPOLLONESHOT, and reported again.
EpollWaitKeepsArmed ==
    /\ At("wait")
    /\ batch' = ListenerEvents \cup {[fd |-> f, ev |-> EventsOf(f)] : f \in ReadyFds}
    /\ batch' # {}
    /\ edge' = FALSE
    /\ pc' = "dispatch"
    /\ UNCHANGED <<st, sock, proc, fdt, reg, cur>>

EpollWait ==
    /\ At("wait")
    /\ batch' = ListenerEvents \cup {[fd |-> f, ev |-> EventsOf(f)] : f \in ReadyFds}
    /\ batch' # {}
    /\ reg' = [f \in FDs |-> IF f \in ReadyFds THEN "spent" ELSE reg[f]]
    /\ edge' = FALSE
    /\ pc' = "dispatch"
    /\ UNCHANGED <<st, sock, proc, fdt, cur>>

\* An exception ends the process: main() closes the listening socket and exits.
Exit ==
    /\ proc' = "exit"
    /\ UNCHANGED <<st, sock, fdt, reg, edge, loopVars>>

EpollWaitFails == At("wait") /\ Faults /\ Exit

Take(e) ==
    /\ At("dispatch")
    /\ e \in batch
    /\ batch' = batch \ {e}
    /\ cur' = e.fd

BatchDone ==
    /\ At("dispatch") /\ batch = {}
    /\ pc' = "wait"
    /\ UNCHANGED <<st, sock, proc, fdt, reg, edge, batch, cur>>

\* Mutant: close() is forgotten.
DispatchCloseOnlyDel ==
    /\ \E e \in batch : Take(e) /\ "RDHUP" \in e.ev
    /\ reg' = [reg EXCEPT ![cur'] = "none"]
    /\ UNCHANGED <<st, sock, proc, fdt, edge, pc>>

\* EPOLLRDHUP comes first: the registration is removed and the descriptor closed,
\* whatever is still unread.  A reset reports EPOLLRDHUP as well.
DispatchClose ==
    /\ \E e \in batch : Take(e) /\ "RDHUP" \in e.ev
    /\ st' = [c \in Conns |-> IF cur' \in FDs /\ fdt[cur'] = c THEN "closed"
                                                               ELSE st[c]]
    /\ fdt' = [fdt EXCEPT ![cur'] = NoConn]
    /\ reg' = [reg EXCEPT ![cur'] = "none"]
    /\ UNCHANGED <<sock, proc, edge, pc>>

DispatchListener ==
    /\ \E e \in batch : Take(e) /\ e.fd = ServerFd
    /\ pc' = "accept"
    /\ UNCHANGED <<st, sock, proc, fdt, reg, edge>>

DispatchRead ==
    /\ \E e \in batch : Take(e) /\ e.fd # ServerFd /\ "RDHUP" \notin e.ev
    /\ pc' = "read"
    /\ UNCHANGED <<st, sock, proc, fdt, reg, edge>>

-----------------------------------------------------------------------------
(* The listening socket: accept until EAGAIN (lines 166-194).               *)

FreeFds == {f \in FDs : fdt[f] = NoConn}

IsLowestFree(f) == f \in FreeFds /\ \A g \in FreeFds : f <= g

\* Mutant: one connection is accepted for each event.
AcceptOnce(f) ==
    /\ At("accept") /\ IsLowestFree(f)
    /\ \E c \in Queued :
        /\ st' = [st EXCEPT ![c] = "open"]
        /\ fdt' = [fdt EXCEPT ![f] = c]
    /\ reg' = [reg EXCEPT ![f] = "armed"]
    /\ pc' = "dispatch"
    /\ UNCHANGED <<sock, proc, edge, batch, cur>>

\* accept4() and EPOLL_CTL_ADD
Accept(f) ==
    /\ At("accept") /\ IsLowestFree(f)
    /\ \E c \in Queued :
        /\ st' = [st EXCEPT ![c] = "open"]
        /\ fdt' = [fdt EXCEPT ![f] = c]
    /\ reg' = [reg EXCEPT ![f] = "armed"]
    /\ UNCHANGED <<sock, proc, edge, loopVars>>

AcceptNone ==
    /\ At("accept") /\ Queued = {} /\ FreeFds # {}
    /\ pc' = "dispatch"
    /\ UNCHANGED <<st, sock, proc, fdt, reg, edge, batch, cur>>

\* EMFILE, which Linux reports whether or not anybody is waiting, or EPOLL_CTL_ADD
\* fails.
AcceptFails ==
    /\ At("accept")
    /\ FreeFds = {} \/ (Faults /\ Queued # {})
    /\ Exit

-----------------------------------------------------------------------------
(* A connection: read until EAGAIN, then rearm (lines 196-230).              *)

Sock == sock[fdt[cur]]

ReadData ==
    /\ At("read") /\ ReadsData(Sock, BufSize)
    /\ sock' = [sock EXCEPT ![fdt[cur]] = AfterRead(@, BufSize)]
    /\ UNCHANGED <<st, proc, fdt, reg, edge, loopVars>>

\* Mutant: the registration is left as it is.
ReadAgainNoRearm ==
    /\ At("read") /\ ReadsAgain(Sock, BufSize)
    /\ pc' = "dispatch"
    /\ UNCHANGED <<st, sock, proc, fdt, reg, edge, batch, cur>>

ReadAgain ==
    /\ At("read") /\ ReadsAgain(Sock, BufSize)
    /\ reg' = [reg EXCEPT ![cur] = "armed"]
    /\ pc' = "dispatch"
    /\ UNCHANGED <<st, sock, proc, fdt, edge, batch, cur>>

\* EPOLL_CTL_MOD fails.
RearmFails == At("read") /\ ReadsAgain(Sock, BufSize) /\ Faults /\ Exit

\* The FIN arrived after epoll_wait() had returned: the loop is left, and the
\* registration stays disabled.  In linux_concurrent_server the loop goes on,
\* with nothing to read for ever: a step that changes nothing.
ReadEof ==
    /\ At("read") /\ ReadsEof(Sock, BufSize)
    /\ pc' = IF AtEof = "stops" THEN "dispatch" ELSE "read"
    /\ UNCHANGED <<st, sock, proc, fdt, reg, edge, batch, cur>>

\* So it is when the RST arrived after epoll_wait() had returned.
ReadError ==
    /\ At("read") /\ ReadsError(Sock, BufSize)
    /\ sock' = [sock EXCEPT ![fdt[cur]] = ClearError(@)]
    /\ pc' = "dispatch"
    /\ UNCHANGED <<st, proc, fdt, reg, edge, batch, cur>>

-----------------------------------------------------------------------------

LoopStep ==
    \/ EpollWait \/ BatchDone
    \/ DispatchClose \/ DispatchListener \/ DispatchRead
    \/ \E f \in FDs : Accept(f)
    \/ AcceptNone \/ AcceptFails
    \/ ReadData \/ ReadAgain \/ RearmFails \/ ReadEof \/ ReadError

Next ==
    \/ \E c \in Conns : Peer(c)
    \/ LoopStep
    \/ EpollWaitFails

Spec == Init /\ [][Next]_vars

\* The process is scheduled.  Nothing is assumed of the peers.
FairSpec == Spec /\ WF_vars(LoopStep)

-----------------------------------------------------------------------------
(* Properties.                                                              *)

\* An event names a descriptor by its number.  While it waits for its turn in the
\* batch, no earlier event's accept or close gives the number to another
\* connection: its registration is still the spent one it came from, and only a
\* connection that its peer has ended is closed.
NoStaleEvent ==
    proc = "up" =>
        /\ \A e \in batch : e.fd \in FDs =>
            /\ fdt[e.fd] # NoConn /\ reg[e.fd] = "spent"
            /\ "RDHUP" \in e.ev => sock[fdt[e.fd]].fin \/ sock[fdt[e.fd]].rst
        /\ \A d, e \in batch : d.fd = e.fd => d = e
        /\ pc = "read" =>
            /\ cur \in FDs /\ fdt[cur] # NoConn /\ reg[cur] = "spent"
            /\ \A e \in batch : e.fd # cur

\* The listening socket is edge-triggered: while a connection is queued, the edge
\* is still to be reported, or its event is in the batch, or accepting has not
\* come to EAGAIN yet.
NoLostEdge ==
    proc = "up" /\ Queued # {} =>
        edge \/ pc = "accept" \/ \E e \in batch : e.fd = ServerFd

\* An open connection is armed, or its event is being handled or in the batch, or
\* its peer has ended it: with a FIN or RST that comes between epoll_wait() and
\* read() the code gives the connection up without closing it.
NoLostConnection ==
    \A f \in FDs : fdt[f] # NoConn =>
        \/ reg[f] = "armed"
        \/ pc = "read" /\ cur = f
        \/ \E e \in batch : e.fd = f
        \/ sock[fdt[f]].fin \/ sock[fdt[f]].rst

\* What a peer sends is read, as long as it keeps the connection open.  Once it has
\* sent a FIN or RST nothing is promised: DispatchClose (line 151) closes the
\* connection with what it still has to read, so the data of a peer that sends and
\* closes at once may be lost, and ReadEof and ReadError give it up.
DataRead ==
    \A c \in Conns : (st[c] = "open" /\ sock[c].rq # << >>) ~>
        (sock[c].rq = << >> \/ sock[c].fin \/ sock[c].rst \/ proc # "up")

\* "accept as many new connections as possible" (line 166).
QueueAccepted ==
    \A c \in Conns : (st[c] = "queued") ~> (st[c] # "queued" \/ proc # "up")

=============================================================================
