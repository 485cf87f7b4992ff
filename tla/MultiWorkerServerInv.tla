------------------------ MODULE MultiWorkerServerInv ------------------------
(***************************************************************************)
(* The inductive invariant behind the safety theorems of MultiWorkerServer. *)
(* A connection's object is reachable in three ways: an armed registration,  *)
(* an event some worker has not handled yet, or a worker in the middle of a  *)
(* handler.  The code keeps every object to one of them at a time, without a *)
(* lock; the parts below say how.                                           *)
(***************************************************************************)
EXTENDS MultiWorkerServer

\* The program counters at which a worker has no event of its object to come
\* back to: everything but the reset() that follows a rearm.
WorkingPcs == {"add", "read", "write", "rearm", "rearm_err"} \cup ClosePcs

Working(w, p) == pc[w] \in WorkingPcs /\ ptr[w] = p

\* Worker w has epoll_wait()'s event for block p still to handle.
HasEvent(w, p) == \E e \in batch[w] : e.ptr = p

\* Block p is the object data_ maps its own descriptor to.
Live(p) == p \in Cells /\ cfd[p] \in FDs /\ data[cfd[p]] = p

\* Worker w alone knows descriptor f, which data_ does not map: it has just been
\* accepted, or its object has just been removed.
Claims(w, f) ==
    \/ pc[w] = "insert" /\ newfd[w] = f
    \/ pc[w] \in {"del", "close"} /\ cfd[ptr[w]] = f

-----------------------------------------------------------------------------

\* The locals a worker will use next have a value.
LocalsInv ==
    \A w \in Workers :
        /\ pc[w] \in HandlerPcs \cup ClosePcs => ptr[w] \in Cells
        /\ pc[w] \in {"insert", "add"} => newfd[w] \in FDs

SocketInv == \A c \in Conns : sock[c].err # "none" => sock[c].rst

DataInv ==
    \A f \in FDs : data[f] # NoCell => cfd[data[f]] = f /\ fdt[f] # NoConn

RegInv ==
    \A f \in FDs :
        /\ reg[f].on => fdt[f] # NoConn
        /\ reg[f].want \subseteq {"IN", "OUT"}
        /\ reg[f].want # {} =>
            reg[f].on /\ reg[f].ptr \in Cells /\ data[f] = reg[f].ptr

\* An armed registration, a pending event and a working worker exclude each
\* other, and each of the last two is unique.
TokenInv ==
    \A p \in Cells : \A w1 \in Workers :
        /\ Working(w1, p) \/ HasEvent(w1, p) =>
            \A f \in FDs : reg[f].ptr = p => reg[f].want = {}
        /\ \A w2 \in Workers : ~(Working(w1, p) /\ HasEvent(w2, p))
        /\ \A w2 \in Workers : HasEvent(w1, p) /\ HasEvent(w2, p) => w1 = w2
        /\ \A e1, e2 \in batch[w1] : e1.ptr = p /\ e2.ptr = p => e1 = e2

EventInv ==
    \A w \in Workers : \A e \in batch[w] : e.ptr # ServerData =>
        /\ Live(e.ptr)
        /\ "RDHUP" \notin e.ev
        /\ "ERR" \in e.ev => SockOf(cfd[e.ptr]).rst

\* What a worker touches is live, up to remove(); from there on the block stays
\* in the worker's own allocator cache.
HoldInv ==
    \A w \in Workers :
        /\ pc[w] \in HandlerPcs \cup {"add", "remove"} => Live(ptr[w])
        /\ pc[w] = "add" => data[newfd[w]] = ptr[w]
        /\ pc[w] \in {"del", "close", "assign"} =>
            cache[ptr[w]] = w /\ \A f \in FDs : data[f] # ptr[w]

ClaimInv ==
    \A w1 \in Workers :
        /\ pc[w1] \in {"del", "close"} => cfd[ptr[w1]] \in FDs
        /\ \A f \in FDs : Claims(w1, f) =>
            /\ fdt[f] # NoConn /\ data[f] = NoCell
            /\ \A w2 \in Workers : Claims(w2, f) => w1 = w2

\* The connection a worker closes has been reset.
CloseInv ==
    \A w \in Workers :
        pc[w] \in {"remove", "del", "close"} => SockOf(cfd[ptr[w]]).rst

\* After a read error the socket is dead and its error has been consumed: the
\* event that may come between the rearm and the reset() is a hang-up, which
\* start() skips.
ResetInv ==
    \A w1 \in Workers :
        /\ pc[w1] \in {"rearm_err", "reset"} =>
            /\ SockOf(cfd[ptr[w1]]).rst
            /\ SockOf(cfd[ptr[w1]]).err = "none"
        /\ pc[w1] = "reset" =>
            \A w2 \in Workers : \A e \in batch[w2] :
                e.ptr = ptr[w1] => "HUP" \in e.ev /\ "ERR" \notin e.ev

\* Holds for every value of the constants.
TypeInv == TypeOK /\ LocalsInv /\ OverrunAtMostOne

\* Holds when no freed block goes from one worker to another.
OwnershipInv ==
    /\ SocketInv /\ DataInv /\ RegInv /\ TokenInv /\ EventInv
    /\ HoldInv /\ ClaimInv /\ CloseInv /\ ResetInv /\ ExclusiveAccess

=============================================================================
