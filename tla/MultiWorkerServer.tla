------------------------- MODULE MultiWorkerServer -------------------------
(***************************************************************************)
(* The event loop of MultiWorkerIoMultiplexingTCPServer                     *)
(* (src/src/servers/multi_worker_nonblocking_io_multiplexing_server.h) in   *)
(* its shared-epoll mode, reuse_port = false: all the worker threads wait   *)
(* on one epoll instance that holds the listening socket (level-triggered)  *)
(* and every accepted connection (edge-triggered, one-shot).                *)
(*                                                                         *)
(* A worker's step is one system call or one locked ConnectionDataManager   *)
(* call, with the assignments the code makes before the next one.           *)
(* ConnectionData objects are heap blocks: closeConnection() goes on using  *)
(* a reference into the block after the manager has freed it, so which      *)
(* block a later insert() is given matters and is part of the state.        *)
(***************************************************************************)
EXTENDS TcpSocket, FiniteSets

CONSTANTS
    Workers,     \* worker threads
    FDs,         \* descriptor numbers free for accept4()
    Cells,       \* heap blocks for ConnectionData
    NoWorker, NoConn, NoCell, ServerData,
    BufSize,     \* buffer_.size(), 1024 in the code
    Senders,     \* bound: the connections whose peer sends bytes and a FIN
    MaxBytes,    \* bound: bytes a peer sends on one connection
    SharedHeap,  \* may a block freed by one worker be handed to another?
    Faults       \* may epoll_wait() be interrupted and epoll_ctl(ADD) fail?

ASSUME ConstantsAssumption ==
    /\ FDs \subseteq Nat
    /\ Senders \subseteq Conns
    /\ BufSize \in Nat \ {0}
    /\ MaxBytes \in Nat
    /\ SharedHeap \in BOOLEAN
    /\ Faults \in BOOLEAN
    /\ NoWorker \notin Workers
    /\ NoConn \notin Conns
    /\ NoCell \notin Cells
    /\ ServerData \notin Cells \cup {NoCell}

VARIABLES
    proc,    \* how the process is: "up", or what ended it
    st,      \* life of a connection: "idle", "queued", "open", "closed"
    sock,    \* the socket of each connection
    fdt,     \* the process's descriptor table
    reg,     \* the epoll registration of each descriptor
    data,    \* ConnectionDataManager::data_
    cfd,     \* ConnectionData::conn_fd_
    buf,     \* ConnectionData::buffer_[0 .. read_index_)
    wix,     \* ConnectionData::write_index_
    rfw,     \* ConnectionData::ready_for_write_
    cache,   \* the worker whose allocator cache holds a freed block
    pc,      \* the next call of each worker
    batch,   \* events_[i .. nfds): what epoll_wait() returned, not yet handled
    ptr,     \* conn_data, or event_.data.ptr while accepting
    newfd,   \* conn_fd in acceptConnections()
    arm      \* isRead of the pending rearmEpoll()

kernelVars == <<st, sock, fdt, reg>>
cellVars   == <<cfd, buf, wix, rfw>>
heapVars   == <<data, cache>>
workerVars == <<pc, batch, ptr, newfd, arm>>
vars == <<proc, st, sock, fdt, reg, data, cfd, buf, wix, rfw, cache,
          pc, batch, ptr, newfd, arm>>

NoFd == -1

Flags == {"IN", "OUT", "RDHUP", "ERR", "HUP"}

AcceptPcs  == {"accept", "insert", "add"}
HandlerPcs == {"read", "write", "rearm", "rearm_err", "reset"}
ClosePcs   == {"remove", "del", "close", "assign"}
Pcs == {"loop"} \cup AcceptPcs \cup HandlerPcs \cup ClosePcs

Registrations == [on : BOOLEAN, want : SUBSET Flags, ptr : Cells \cup {NoCell}]
NotRegistered == [on |-> FALSE, want |-> {}, ptr |-> NoCell]

Events == [ptr : Cells \cup {NoCell, ServerData}, ev : SUBSET Flags]

TypeOK ==
    /\ proc \in {"up", "sigpipe", "abort", "segv"}
    /\ st \in [Conns -> {"idle", "queued", "open", "closed"}]
    /\ sock \in [Conns -> Sockets]
    /\ fdt \in [FDs -> Conns \cup {NoConn}]
    /\ reg \in [FDs -> Registrations]
    /\ data \in [FDs -> Cells \cup {NoCell}]
    /\ cfd \in [Cells -> FDs \cup {NoFd}]
    /\ buf \in [Cells -> Seq(Bytes)]
    /\ wix \in [Cells -> Nat]
    /\ rfw \in [Cells -> BOOLEAN]
    /\ cache \in [Cells -> Workers \cup {NoWorker}]
    /\ pc \in [Workers -> Pcs]
    /\ batch \in [Workers -> SUBSET Events]
    /\ ptr \in [Workers -> Cells \cup {NoCell}]
    /\ newfd \in [Workers -> FDs \cup {NoFd}]
    /\ arm \in [Workers -> BOOLEAN]

\* After start(): the listening socket is registered, every worker is about to
\* call epoll_wait().  The ConnectionData of the listening socket (ServerData)
\* is never removed and needs no block here.
Init ==
    /\ proc = "up"
    /\ st = [c \in Conns |-> "idle"]
    /\ sock = [c \in Conns |-> FreshSocket]
    /\ fdt = [f \in FDs |-> NoConn]
    /\ reg = [f \in FDs |-> NotRegistered]
    /\ data = [f \in FDs |-> NoCell]
    /\ cfd = [p \in Cells |-> NoFd]
    /\ buf = [p \in Cells |-> << >>]
    /\ wix = [p \in Cells |-> 0]
    /\ rfw = [p \in Cells |-> FALSE]
    /\ cache = [p \in Cells |-> NoWorker]
    /\ pc = [w \in Workers |-> "loop"]
    /\ batch = [w \in Workers |-> {}]
    /\ ptr = [w \in Workers |-> NoCell]
    /\ newfd = [w \in Workers |-> NoFd]
    /\ arm = [w \in Workers |-> TRUE]

-----------------------------------------------------------------------------
(* Peers.  They connect, send, read the echo, half-close and reset as they  *)
(* please, on connections that are queued or accepted; the peers outside     *)
(* Senders only connect and reset.                                          *)

Connected(c) == proc = "up" /\ st[c] \in {"queued", "open"}

Connect(c) ==
    /\ proc = "up" /\ st[c] = "idle"
    /\ st' = [st EXCEPT ![c] = "queued"]
    /\ UNCHANGED <<proc, sock, fdt, reg, heapVars, cellVars, workerVars>>

PeerSend(c) ==
    /\ Connected(c) /\ ~sock[c].fin /\ ~sock[c].rst
    /\ c \in Senders /\ sock[c].sent < MaxBytes
    /\ sock' = [sock EXCEPT ![c] = RecvByte(@, c)]
    /\ UNCHANGED <<proc, st, fdt, reg, heapVars, cellVars, workerVars>>

PeerRead(c) ==
    /\ Connected(c) /\ ~sock[c].rst
    /\ sock[c].got < Len(sock[c].out)
    /\ sock' = [sock EXCEPT ![c] = PeerConsume(@)]
    /\ UNCHANGED <<proc, st, fdt, reg, heapVars, cellVars, workerVars>>

PeerFin(c) ==
    /\ c \in Senders
    /\ Connected(c) /\ ~sock[c].fin /\ ~sock[c].rst
    /\ sock' = [sock EXCEPT ![c] = RecvFin(@)]
    /\ UNCHANGED <<proc, st, fdt, reg, heapVars, cellVars, workerVars>>

PeerReset(c) ==
    /\ Connected(c) /\ ~sock[c].rst
    /\ sock' = [sock EXCEPT ![c] = RecvRst(@)]
    /\ UNCHANGED <<proc, st, fdt, reg, heapVars, cellVars, workerVars>>

PeerStep(c) ==
    Connect(c) \/ PeerSend(c) \/ PeerRead(c) \/ PeerFin(c) \/ PeerReset(c)

-----------------------------------------------------------------------------
(* Worker::start(): epoll_wait() and the dispatch of one event.             *)

\* The process is alive and the next call of worker w is one of these.
At(w, calls) == proc = "up" /\ pc[w] \in calls

\* The events epoll has for descriptor f; EPOLLERR and EPOLLHUP need not be
\* asked for.  A registration whose one-shot event was delivered has none.
ReadyEvents(f) ==
    IF reg[f].on /\ reg[f].want # {}
    THEN PollMask(sock[fdt[f]]) \cap (reg[f].want \cup {"ERR", "HUP"})
    ELSE {}

ReadyFds == {f \in FDs : ReadyEvents(f) # {}}

ListenerEvents ==
    IF \E c \in Conns : st[c] = "queued"
    THEN {[ptr |-> ServerData, ev |-> {"IN"}]}
    ELSE {}

ConnectionEvents == {[ptr |-> reg[f].ptr, ev |-> ReadyEvents(f)] : f \in ReadyFds}

\* Mutant: registered without EPOLLONESHOT.
DeliveryWithoutOneShot(r) == r

\* EPOLLONESHOT: delivery disables the registration until rearmEpoll().
AfterDelivery(r) == [r EXCEPT !.want = {}]

EpollWait(w) ==
    /\ At(w, {"loop"}) /\ batch[w] = {}
    /\ ListenerEvents \cup ConnectionEvents # {}
    /\ batch' = [batch EXCEPT ![w] = ListenerEvents \cup ConnectionEvents]
    /\ reg' = [f \in FDs |-> IF f \in ReadyFds THEN AfterDelivery(reg[f])
                                               ELSE reg[f]]
    /\ UNCHANGED <<proc, st, sock, fdt, heapVars, cellVars, pc, ptr, newfd, arm>>

\* epoll_wait() returns -1 (EINTR): the exception leaves the thread's function.
EpollWaitFails(w) ==
    /\ Faults
    /\ At(w, {"loop"}) /\ batch[w] = {}
    /\ proc' = "abort"
    /\ UNCHANGED <<kernelVars, heapVars, cellVars, workerVars>>

DispatchListener(w) ==
    /\ At(w, {"loop"})
    /\ \E e \in batch[w] :
        /\ e.ptr = ServerData
        /\ batch' = [batch EXCEPT ![w] = @ \ {e}]
    /\ pc' = [pc EXCEPT ![w] = "accept"]
    /\ UNCHANGED <<proc, kernelVars, heapVars, cellVars, ptr, newfd, arm>>

\* EPOLLERR or EPOLLRDHUP: closeConnection(), which returns at once when the
\* object has no descriptor any more.
DispatchClose(w) ==
    /\ At(w, {"loop"})
    /\ \E e \in batch[w] :
        /\ e.ptr \in Cells
        /\ e.ev \cap {"ERR", "RDHUP"} # {}
        /\ batch' = [batch EXCEPT ![w] = @ \ {e}]
        /\ IF cfd[e.ptr] < 0
           THEN UNCHANGED <<pc, ptr>>
           ELSE /\ pc' = [pc EXCEPT ![w] = "remove"]
                /\ ptr' = [ptr EXCEPT ![w] = e.ptr]
    /\ UNCHANGED <<proc, kernelVars, heapVars, cellVars, newfd, arm>>

\* EPOLLHUP alone is logged and skipped: no close, no rearm.
DispatchHangup(w) ==
    /\ At(w, {"loop"})
    /\ \E e \in batch[w] :
        /\ e.ptr \in Cells
        /\ e.ev \cap {"ERR", "RDHUP"} = {} /\ "HUP" \in e.ev
        /\ batch' = [batch EXCEPT ![w] = @ \ {e}]
    /\ UNCHANGED <<proc, kernelVars, heapVars, cellVars, pc, ptr, newfd, arm>>

DispatchHandler(w) ==
    /\ At(w, {"loop"})
    /\ \E e \in batch[w] :
        /\ e.ptr \in Cells
        /\ e.ev \cap {"ERR", "RDHUP", "HUP"} = {}
        /\ batch' = [batch EXCEPT ![w] = @ \ {e}]
        /\ ptr' = [ptr EXCEPT ![w] = e.ptr]
        /\ pc' = [pc EXCEPT ![w] = IF rfw[e.ptr] THEN "write" ELSE "read"]
    /\ UNCHANGED <<proc, kernelVars, heapVars, cellVars, newfd, arm>>

\* events_[i].data.ptr is the nullptr of a failed insert().
DispatchNull(w) ==
    /\ At(w, {"loop"})
    /\ \E e \in batch[w] : e.ptr = NoCell
    /\ proc' = "segv"
    /\ UNCHANGED <<kernelVars, heapVars, cellVars, workerVars>>

-----------------------------------------------------------------------------
(* acceptConnections(): accept4(), insert() and EPOLL_CTL_ADD in a loop.     *)

\* The descriptor is open, and the connection behind it.
IsOpen(f) == f \in FDs /\ fdt[f] # NoConn

SockOf(f) == sock[fdt[f]]

FreeFds == {f \in FDs : fdt[f] = NoConn}

\* The descriptor number the kernel gives out next.
IsLowestFree(f) == f \in FreeFds /\ \A g \in FreeFds : f <= g

\* EAGAIN (nobody is queued) or EMFILE (no descriptor left): leave the loop.
AcceptNone(w) ==
    /\ At(w, {"accept"})
    /\ FreeFds = {} \/ \A c \in Conns : st[c] # "queued"
    /\ pc' = [pc EXCEPT ![w] = "loop"]
    /\ UNCHANGED <<proc, kernelVars, heapVars, cellVars, batch, ptr, newfd, arm>>

AcceptConn(w) ==
    /\ At(w, {"accept"})
    /\ \E c \in Conns, f \in FDs :
        /\ st[c] = "queued" /\ IsLowestFree(f)
        /\ st' = [st EXCEPT ![c] = "open"]
        /\ fdt' = [fdt EXCEPT ![f] = c]
        /\ newfd' = [newfd EXCEPT ![w] = f]
    /\ pc' = [pc EXCEPT ![w] = "insert"]
    /\ UNCHANGED <<proc, sock, reg, heapVars, cellVars, batch, ptr, arm>>

\* The blocks make_shared<ConnectionData>() may get when worker w calls it: one
\* never used, one freed by w, and if the allocator shares its free lists any
\* freed one.
Allocatable(w) ==
    {p \in Cells : /\ \A f \in FDs : data[f] # p
                   /\ SharedHeap \/ cache[p] \in {NoWorker, w}}

\* Mutant: write_index_ starts from a "nothing written" marker.
ConstructMarked(p, f) ==
    /\ cfd' = [cfd EXCEPT ![p] = f]
    /\ buf' = [buf EXCEPT ![p] = << >>]
    /\ wix' = [wix EXCEPT ![p] = -1]
    /\ rfw' = [rfw EXCEPT ![p] = FALSE]

\* ConnectionData::ConnectionData(conn_fd)
Construct(p, f) ==
    /\ cfd' = [cfd EXCEPT ![p] = f]
    /\ buf' = [buf EXCEPT ![p] = << >>]
    /\ wix' = [wix EXCEPT ![p] = 0]
    /\ rfw' = [rfw EXCEPT ![p] = FALSE]

InsertNew(w) ==
    /\ At(w, {"insert"})
    /\ data[newfd[w]] = NoCell
    /\ \E p \in Allocatable(w) :
        /\ data' = [data EXCEPT ![newfd[w]] = p]
        /\ cache' = [cache EXCEPT ![p] = NoWorker]
        /\ Construct(p, newfd[w])
        /\ ptr' = [ptr EXCEPT ![w] = p]
    /\ pc' = [pc EXCEPT ![w] = "add"]
    /\ UNCHANGED <<proc, kernelVars, batch, newfd, arm>>

\* The key is still in data_: insert() drops the object it was given and returns
\* nullptr.
InsertCollides(w) ==
    /\ At(w, {"insert"})
    /\ data[newfd[w]] # NoCell
    /\ \E p \in Allocatable(w) :
        /\ Construct(p, newfd[w])
        /\ cache' = [cache EXCEPT ![p] = w]
    /\ ptr' = [ptr EXCEPT ![w] = NoCell]
    /\ pc' = [pc EXCEPT ![w] = "add"]
    /\ UNCHANGED <<proc, kernelVars, data, batch, newfd, arm>>

EpollAdd(w) ==
    /\ At(w, {"add"})
    /\ IsOpen(newfd[w]) /\ ~reg[newfd[w]].on
    /\ reg' = [reg EXCEPT ![newfd[w]] =
                  [on |-> TRUE, want |-> {"IN"}, ptr |-> ptr[w]]]
    /\ pc' = [pc EXCEPT ![w] = "accept"]
    /\ ptr' = [ptr EXCEPT ![w] = NoCell]
    /\ newfd' = [newfd EXCEPT ![w] = NoFd]
    /\ UNCHANGED <<proc, st, sock, fdt, heapVars, cellVars, batch, arm>>

\* EPOLL_CTL_ADD fails (EBADF, EEXIST, or the kernel is out of memory): logged,
\* and the accept loop is left.
EpollAddFails(w) ==
    /\ At(w, {"add"})
    /\ Faults \/ ~IsOpen(newfd[w]) \/ reg[newfd[w]].on
    /\ pc' = [pc EXCEPT ![w] = "loop"]
    /\ ptr' = [ptr EXCEPT ![w] = NoCell]
    /\ newfd' = [newfd EXCEPT ![w] = NoFd]
    /\ UNCHANGED <<proc, kernelVars, heapVars, cellVars, batch, arm>>

-----------------------------------------------------------------------------
(* handleConnectionEvent(): read until EAGAIN, then write back.             *)

\* Mutant: the room already used is not subtracted.
ReadCountWhole(p) == BufSize + 1

\* The byte count of the read() at line 303: one more than the room left.
ReadCount(p) == BufSize - Len(buf[p]) + 1

\* Mutant: every write() starts from the beginning of buffer_.
PendingFromStart(p) == buf[p]

\* buffer_[write_index_ .. read_index_)
Pending(p) == SubSeq(buf[p], wix[p] + 1, Len(buf[p]))

ReadData(w) ==
    LET p == ptr[w]  f == cfd[p] IN
    /\ At(w, {"read"})
    /\ IsOpen(f) /\ ReadsData(SockOf(f), ReadCount(p))
    /\ buf' = [buf EXCEPT ![p] = @ \o ReadBytes(SockOf(f), ReadCount(p))]
    /\ sock' = [sock EXCEPT ![fdt[f]] = AfterRead(@, ReadCount(p))]
    /\ UNCHANGED <<proc, st, fdt, reg, heapVars, cfd, wix, rfw, workerVars>>

\* read() returned 0: ready_for_write_ is still false, so the function returns
\* without writing and without rearming.
ReadEof(w) ==
    LET p == ptr[w]  f == cfd[p] IN
    /\ At(w, {"read"})
    /\ IsOpen(f) /\ ReadsEof(SockOf(f), ReadCount(p))
    /\ pc' = [pc EXCEPT ![w] = "loop"]
    /\ ptr' = [ptr EXCEPT ![w] = NoCell]
    /\ UNCHANGED <<proc, kernelVars, heapVars, cellVars, batch, newfd, arm>>

ReadAgain(w) ==
    LET p == ptr[w]  f == cfd[p] IN
    /\ At(w, {"read"})
    /\ IsOpen(f) /\ ReadsAgain(SockOf(f), ReadCount(p))
    /\ rfw' = [rfw EXCEPT ![p] = TRUE]
    /\ pc' = [pc EXCEPT ![w] = "write"]
    /\ UNCHANGED <<proc, kernelVars, heapVars, cfd, buf, wix, batch, ptr, newfd, arm>>

\* Any other errno: rearm for reading, then reset() the object, in this order.
ReadError(w) ==
    LET p == ptr[w]  f == cfd[p] IN
    /\ At(w, {"read"})
    /\ IsOpen(f) => ReadsError(SockOf(f), ReadCount(p))
    /\ sock' = IF IsOpen(f) THEN [sock EXCEPT ![fdt[f]] = ClearError(@)] ELSE sock
    /\ arm' = [arm EXCEPT ![w] = TRUE]
    /\ pc' = [pc EXCEPT ![w] = "rearm_err"]
    /\ UNCHANGED <<proc, st, fdt, reg, heapVars, cellVars, batch, ptr, newfd>>

WriteData(w) ==
    LET p == ptr[w]  f == cfd[p]
        n == WriteLen(SockOf(f), Len(Pending(p)))
        done == wix[p] + n >= Len(buf[p]) IN
    /\ At(w, {"write"})
    /\ IsOpen(f) /\ WritesData(SockOf(f), Len(Pending(p)))
    /\ sock' = [sock EXCEPT ![fdt[f]] = AfterWrite(@, Pending(p))]
    /\ wix' = [wix EXCEPT ![p] = @ + n]
    /\ rfw' = [rfw EXCEPT ![p] = ~done]
    /\ arm' = [arm EXCEPT ![w] = TRUE]
    /\ pc' = [pc EXCEPT ![w] = IF done THEN "rearm" ELSE "write"]
    /\ UNCHANGED <<proc, st, fdt, reg, heapVars, cfd, buf, batch, ptr, newfd>>

\* Mutant: the handler returns on EAGAIN without rearming.
WriteAgainNoRearm(w) ==
    LET p == ptr[w]  f == cfd[p] IN
    /\ At(w, {"write"})
    /\ IsOpen(f) /\ WritesNothing(SockOf(f), Len(Pending(p)))
    /\ rfw' = [rfw EXCEPT ![p] = FALSE]
    /\ pc' = [pc EXCEPT ![w] = "loop"]
    /\ ptr' = [ptr EXCEPT ![w] = NoCell]
    /\ UNCHANGED <<proc, kernelVars, heapVars, cfd, buf, wix, batch, newfd, arm>>

\* Mutant: EAGAIN rearms for reading.
WriteAgainRearmsRead(w) ==
    LET p == ptr[w]  f == cfd[p] IN
    /\ At(w, {"write"})
    /\ IsOpen(f) /\ WritesNothing(SockOf(f), Len(Pending(p)))
    /\ rfw' = [rfw EXCEPT ![p] = FALSE]
    /\ arm' = [arm EXCEPT ![w] = TRUE]
    /\ pc' = [pc EXCEPT ![w] = "rearm"]
    /\ UNCHANGED <<proc, kernelVars, heapVars, cfd, buf, wix, batch, ptr, newfd>>

\* Mutant: EAGAIN leaves ready_for_write_ set.
WriteAgainKeepsMode(w) ==
    LET p == ptr[w]  f == cfd[p] IN
    /\ At(w, {"write"})
    /\ IsOpen(f) /\ WritesNothing(SockOf(f), Len(Pending(p)))
    /\ arm' = [arm EXCEPT ![w] = FALSE]
    /\ pc' = [pc EXCEPT ![w] = "rearm"]
    /\ UNCHANGED <<proc, kernelVars, heapVars, cellVars, batch, ptr, newfd>>

\* EAGAIN: wait for EPOLLOUT.  A write of 0 bytes returns 0 and leaves the
\* EAGAIN of the read that ended the read loop in errno: the same branch.
WriteAgain(w) ==
    LET p == ptr[w]  f == cfd[p] IN
    /\ At(w, {"write"})
    /\ IsOpen(f) /\ WritesNothing(SockOf(f), Len(Pending(p)))
    /\ rfw' = [rfw EXCEPT ![p] = FALSE]
    /\ arm' = [arm EXCEPT ![w] = FALSE]
    /\ pc' = [pc EXCEPT ![w] = "rearm"]
    /\ UNCHANGED <<proc, kernelVars, heapVars, cfd, buf, wix, batch, ptr, newfd>>

\* Mutant: any error is retried at once.
WriteErrorRetries(w) ==
    LET p == ptr[w]  f == cfd[p] IN
    /\ At(w, {"write"})
    /\ IsOpen(f) => WritesError(SockOf(f))
    /\ sock' = IF IsOpen(f) THEN [sock EXCEPT ![fdt[f]] = ClearError(@)] ELSE sock
    /\ UNCHANGED <<proc, st, fdt, reg, heapVars, cellVars, workerVars>>

WriteError(w) ==
    LET p == ptr[w]  f == cfd[p] IN
    /\ At(w, {"write"})
    /\ IsOpen(f) => WritesError(SockOf(f))
    /\ sock' = IF IsOpen(f) THEN [sock EXCEPT ![fdt[f]] = ClearError(@)] ELSE sock
    /\ rfw' = [rfw EXCEPT ![p] = FALSE]
    /\ arm' = [arm EXCEPT ![w] = TRUE]
    /\ pc' = [pc EXCEPT ![w] = "rearm"]
    /\ UNCHANGED <<proc, st, fdt, reg, heapVars, cfd, buf, wix, batch, ptr, newfd>>

\* EPIPE raises SIGPIPE, which ends the process with all its workers.
WriteSigpipe(w) ==
    LET f == cfd[ptr[w]] IN
    /\ At(w, {"write"})
    /\ IsOpen(f) /\ WritesSigpipe(SockOf(f))
    /\ proc' = "sigpipe"
    /\ UNCHANGED <<kernelVars, heapVars, cellVars, workerVars>>

\* Mutant: the two directions are swapped.
InterestSwapped(isRead) == {IF isRead THEN "OUT" ELSE "IN"}

\* rearmEpoll(): EPOLL_CTL_MOD; a failure is only logged.
Interest(isRead) == {IF isRead THEN "IN" ELSE "OUT"}

RearmEpoll(w) ==
    LET p == ptr[w]  f == cfd[p] IN
    /\ At(w, {"rearm", "rearm_err"})
    /\ reg' = IF IsOpen(f) /\ reg[f].on
              THEN [reg EXCEPT ![f] = [on |-> TRUE, want |-> Interest(arm[w]),
                                       ptr |-> p]]
              ELSE reg
    /\ IF pc[w] = "rearm"
       THEN /\ pc' = [pc EXCEPT ![w] = "loop"]
            /\ ptr' = [ptr EXCEPT ![w] = NoCell]
       ELSE /\ pc' = [pc EXCEPT ![w] = "reset"]
            /\ UNCHANGED ptr
    /\ UNCHANGED <<proc, st, sock, fdt, heapVars, cellVars, batch, newfd, arm>>

\* ConnectionData::reset(), after the registration is armed again.
Reset(w) ==
    /\ At(w, {"reset"})
    /\ buf' = [buf EXCEPT ![ptr[w]] = << >>]
    /\ wix' = [wix EXCEPT ![ptr[w]] = 0]
    /\ rfw' = [rfw EXCEPT ![ptr[w]] = FALSE]
    /\ pc' = [pc EXCEPT ![w] = "loop"]
    /\ ptr' = [ptr EXCEPT ![w] = NoCell]
    /\ UNCHANGED <<proc, kernelVars, heapVars, cfd, batch, newfd, arm>>

-----------------------------------------------------------------------------
(* closeConnection(epoll_fd, int &conn_fd): conn_fd refers to conn_fd_ of    *)
(* the object, which remove() frees.  The later uses read, and the last one  *)
(* writes, whatever the block holds by then.                                *)

\* Mutant: the object stays in the manager.
RemoveSkipped(w) ==
    /\ At(w, {"remove"})
    /\ pc' = [pc EXCEPT ![w] = "del"]
    /\ UNCHANGED <<proc, kernelVars, heapVars, cellVars, batch, ptr, newfd, arm>>

\* data_manager_.remove(conn_fd): erase() destroys the mapped object.
Remove(w) ==
    LET f == cfd[ptr[w]] IN
    /\ At(w, {"remove"})
    /\ data' = IF f \in FDs THEN [data EXCEPT ![f] = NoCell] ELSE data
    /\ cache' = IF f \in FDs /\ data[f] # NoCell
                THEN [cache EXCEPT ![data[f]] = w] ELSE cache
    /\ pc' = [pc EXCEPT ![w] = "del"]
    /\ UNCHANGED <<proc, kernelVars, cellVars, batch, ptr, newfd, arm>>

EpollDel(w) ==
    LET f == cfd[ptr[w]] IN
    /\ At(w, {"del"})
    /\ reg' = IF f \in FDs THEN [reg EXCEPT ![f] = NotRegistered] ELSE reg
    /\ pc' = [pc EXCEPT ![w] = "close"]
    /\ UNCHANGED <<proc, st, sock, fdt, heapVars, cellVars, batch, ptr, newfd, arm>>

\* close(conn_fd); closing the descriptor also drops its epoll registration.
CloseFd(w) ==
    LET f == cfd[ptr[w]] IN
    /\ At(w, {"close"})
    /\ IF IsOpen(f)
       THEN /\ st' = [st EXCEPT ![fdt[f]] = "closed"]
            /\ fdt' = [fdt EXCEPT ![f] = NoConn]
            /\ reg' = [reg EXCEPT ![f] = NotRegistered]
       ELSE UNCHANGED <<st, fdt, reg>>
    /\ pc' = [pc EXCEPT ![w] = "assign"]
    /\ UNCHANGED <<proc, sock, heapVars, cellVars, batch, ptr, newfd, arm>>

\* conn_fd = -1
AssignFd(w) ==
    /\ At(w, {"assign"})
    /\ cfd' = [cfd EXCEPT ![ptr[w]] = NoFd]
    /\ pc' = [pc EXCEPT ![w] = "loop"]
    /\ ptr' = [ptr EXCEPT ![w] = NoCell]
    /\ UNCHANGED <<proc, kernelVars, heapVars, buf, wix, rfw, batch, newfd, arm>>

-----------------------------------------------------------------------------

Dispatch(w) ==
    \/ DispatchListener(w) \/ DispatchClose(w) \/ DispatchHangup(w)
    \/ DispatchHandler(w) \/ DispatchNull(w)

AcceptConnections(w) ==
    \/ AcceptNone(w) \/ AcceptConn(w)
    \/ InsertNew(w) \/ InsertCollides(w)
    \/ EpollAdd(w) \/ EpollAddFails(w)

HandleConnectionEvent(w) ==
    \/ ReadData(w) \/ ReadEof(w) \/ ReadAgain(w) \/ ReadError(w)
    \/ WriteData(w) \/ WriteAgain(w) \/ WriteError(w) \/ WriteSigpipe(w)
    \/ RearmEpoll(w) \/ Reset(w)

CloseConnection(w) ==
    Remove(w) \/ EpollDel(w) \/ CloseFd(w) \/ AssignFd(w)

WorkerStep(w) ==
    \/ EpollWait(w) \/ Dispatch(w) \/ AcceptConnections(w)
    \/ HandleConnectionEvent(w) \/ CloseConnection(w)

Next ==
    \/ \E c \in Conns : PeerStep(c)
    \/ \E w \in Workers : WorkerStep(w) \/ EpollWaitFails(w)

Spec == Init /\ [][Next]_vars

\* Every thread is scheduled, and a peer reads the echo that reaches it.
FairSpec ==
    /\ Spec
    /\ \A w \in Workers : WF_vars(WorkerStep(w))
    /\ \A c \in Conns : WF_vars(PeerRead(c))

-----------------------------------------------------------------------------
(* Safety.                                                                  *)

\* Worker w is using the ConnectionData at block p: it is handling an event of
\* it, closing it, or has just constructed it.
Touches(w, p) ==
    /\ pc[w] \in {"add"} \cup HandlerPcs \cup ClosePcs
    /\ ptr[w] = p

\* ConnectionData "is not thread-safe" (line 146) and has no lock: two workers
\* never use one object at the same time.  The one-shot registrations are what
\* keeps them apart, also while one worker still has to reset() an object whose
\* registration it has already armed again (lines 320-321).
ExclusiveAccess ==
    \A w1, w2 \in Workers : \A p \in Cells :
        Touches(w1, p) /\ Touches(w2, p) => w1 = w2

\* A pointer that epoll can hand to a worker, or has handed to one, points to
\* the live object of the descriptor it was registered for: closeConnection()
\* leaves no event behind, and insert() (line 287) never returned nullptr for a
\* recycled descriptor number.
NoDanglingEvent ==
    /\ \A f \in FDs : reg[f].want # {} =>
        reg[f].ptr \in Cells /\ data[f] = reg[f].ptr /\ cfd[reg[f].ptr] = f
    /\ \A w \in Workers : \A e \in batch[w] :
        e.ptr # ServerData =>
            e.ptr \in Cells /\ \E f \in FDs : data[f] = e.ptr /\ cfd[e.ptr] = f

\* Worker w will still come back to block p.
Holds(w, p) ==
    Touches(w, p) \/ \E e \in batch[w] : e.ptr = p

\* No lost wakeup: a registered connection is armed, or some worker has its
\* event, or it is one of those the code gives up on without closing them: the
\* peer has closed or reset it, or its buffer is used up (read_index_ is never
\* set back after an echo).
NoLostConnection ==
    \A f \in FDs : reg[f].on /\ reg[f].want = {} =>
        \/ \E w \in Workers : Holds(w, reg[f].ptr)
        \/ SockOf(f).fin \/ SockOf(f).rst
        \/ Len(buf[reg[f].ptr]) > BufSize

\* What the server writes to a connection is what its own peer sent, in order,
\* without gaps or repeats, whatever the interleaving of partial reads, partial
\* writes, rearms, recycled descriptors and workers.
EchoPrefix ==
    \A c \in Conns : \A i \in 1 .. Len(sock[c].out) : sock[c].out[i] = <<c, i>>

\* The write loop is never entered with nothing to write.  write() would return
\* 0 there and the code would act on a stale errno (line 347) and spin on
\* EPOLLOUT.
WriteHasData ==
    \A w \in Workers :
        pc[w] = "write" /\ ptr[w] \in Cells => wix[ptr[w]] < Len(buf[ptr[w]])

\* The count at line 303 lets read() go one byte past buffer_, and never more.
OverrunAtMostOne == \A p \in Cells : Len(buf[p]) <= BufSize + 1

\* read_index_ is never set back, so in all its life a connection is never read
\* for more than buffer_ and its overrun: the read() after that has count 0, is
\* taken for end of file (lines 303-309), and the rest of the stream stays in the
\* kernel.
ReadsOneBuffer ==
    \A c \in Conns : sock[c].sent - Len(sock[c].rq) <= BufSize + 1

\* ready_for_write_ never survives the handler: an EPOLLOUT event always starts
\* with the read loop.
WriteModeIsTransient ==
    \A p \in Cells : rfw[p] =>
        \E w \in Workers : Touches(w, p) /\ pc[w] = "write"

\* A reset alone does not kill the server: SIGPIPE needs a peer whose FIN
\* arrived first, because after ECONNRESET the connection is never written
\* again.
SigpipeNeedsFin ==
    proc = "sigpipe" => \E c \in Conns : sock[c].fin /\ sock[c].rst

\* The server closes a connection only after its peer has reset it: no worker
\* ever closes a descriptor number that was recycled for another connection.
ClosesOnlyReset ==
    [][\A c \in Conns : st[c] = "open" /\ st'[c] = "closed" => sock[c].rst]_vars

\* The process, its workers, objects and descriptor numbers are invisible to the
\* clients; a connection nobody has closed when the process dies is lost with it.
Service == INSTANCE EchoService WITH
    phase <- [c \in Conns |->
                IF proc # "up" /\ st[c] \in {"queued", "open"} THEN "lost" ELSE st[c]],
    sent  <- [c \in Conns |-> sock[c].sent],
    ended <- [c \in Conns |-> sock[c].fin \/ sock[c].rst],
    echo  <- [c \in Conns |-> sock[c].out],
    Lossy <- FALSE

\* The server is an echo service: what it writes to a connection is what its own
\* peer sent, in order, without gaps or repeats, and only connections their peers
\* have ended are closed, whatever numbers and blocks are recycled.
EchoesAsPromised == Service!Spec

-----------------------------------------------------------------------------
(* Liveness.                                                                *)

Echoed(c) == Len(sock[c].out) = sock[c].sent

\* A peer that keeps its connection open and sends no more than buffer_ holds in
\* total gets every byte back, as long as the process lives.
EchoDelivered ==
    \A c \in Conns : (sock[c].sent > 0) ~>
        \/ Echoed(c) \/ sock[c].fin \/ sock[c].rst
        \/ sock[c].sent > BufSize \/ proc # "up"

\* Lines 327 and 331, "Echo the data back to the client", for a peer that sends
\* its data and then shuts down its sending side.
EchoesBeforeFin ==
    \A c \in Conns : (sock[c].sent > 0) ~>
        \/ Echoed(c) \/ sock[c].rst
        \/ sock[c].sent > BufSize \/ proc # "up"

=============================================================================
