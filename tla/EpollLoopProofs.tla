--------------------------- MODULE EpollLoopProofs ---------------------------
(***************************************************************************)
(* Proofs about EpollLoop: events that name descriptors by number are never  *)
(* stale, the edge-triggered listening socket loses no edge, and a one-shot  *)
(* registration is rearmed unless the peer has ended the connection.         *)
(***************************************************************************)
EXTENDS EpollLoop, TcpSocketProofs

-----------------------------------------------------------------------------
(* Types.                                                                   *)

LEMMA PeerKeepsTypes ==
    ASSUME PeerTypeOK, NEW c \in Conns, PeerStep(c)
    PROVE  PeerTypeOK'
<1> USE DEF PeerTypeOK
<1>1. CASE Connect(c)
  BY <1>1 DEF Connect
<1>2. CASE PeerSend(c)
  BY <1>2, PeerTypes DEF PeerSend
<1>3. CASE PeerRead(c)
  BY <1>3, PeerTypes DEF PeerRead
<1>4. CASE PeerFin(c)
  BY <1>4, PeerTypes DEF PeerFin
<1>5. CASE PeerReset(c)
  BY <1>5, PeerTypes DEF PeerReset
<1> QED  BY <1>1, <1>2, <1>3, <1>4, <1>5 DEF PeerStep

\* A peer's step ends no connection of others and takes none of the ends back;
\* what is queued stays queued.
LEMMA PeerKeepsEnded ==
    ASSUME PeerTypeOK, NEW c \in Conns, PeerStep(c)
    PROVE  /\ \A d \in Conns : Ended(sock[d]) => Ended(sock'[d])
           /\ Queued \subseteq Queued'
<1> USE DEF PeerTypeOK
<1>1. CASE Connect(c)
  BY <1>1 DEF Connect, Queued
<1>2. CASE PeerSend(c)
  BY <1>2, EndedForGood DEF PeerSend, Queued
<1>3. CASE PeerRead(c)
  BY <1>3, EndedForGood DEF PeerRead, Queued
<1>4. CASE PeerFin(c)
  BY <1>4, EndedForGood DEF PeerFin, Queued
<1>5. CASE PeerReset(c)
  BY <1>5, EndedForGood DEF PeerReset, Queued
<1> QED  BY <1>1, <1>2, <1>3, <1>4, <1>5 DEF PeerStep

\* EPOLLRDHUP is reported of sockets that have got a FIN or a RST.
LEMMA MaskFacts ==
    ASSUME NEW s \in Sockets
    PROVE  /\ PollMask(s) \subseteq Flags
           /\ "RDHUP" \in PollMask(s) => Ended(s)
BY DEF PollMask, Flags, Ended

LEMMA FreshTypes == FreshSocket \in Sockets
BY EmptySeq DEF FreshSocket, Sockets, SockErrors

\* epoll_wait() returns events of the listening socket, or of armed descriptors.
Reported == ListenerEvents \cup {[fd |-> f, ev |-> EventsOf(f)] : f \in ReadyFds}

LEMMA ReportedTypes ==
    ASSUME TypeOK
    PROVE  /\ Reported \subseteq Events
           /\ \A e \in Reported : e.fd \in FDs =>
                /\ e.fd \in ReadyFds
                /\ e.ev = EventsOf(e.fd)
                /\ fdt[e.fd] \in Conns /\ reg[e.fd] = "armed"
                /\ "RDHUP" \in e.ev => Ended(sock[fdt[e.fd]])
           /\ \A e \in Reported : e.fd = ServerFd => e.ev = {"IN"}
           /\ edge /\ Queued # {} => \E e \in Reported : e.fd = ServerFd
           /\ \A d, e \in Reported : d.fd = e.fd => d = e
<1> USE DEF TypeOK
<1>1. \A f \in ReadyFds :
        /\ f \in FDs /\ fdt[f] \in Conns /\ reg[f] = "armed"
        /\ EventsOf(f) \subseteq Flags
        /\ "RDHUP" \in EventsOf(f) => Ended(sock[fdt[f]])
  <2>1. ASSUME NEW f \in FDs, reg[f] = "armed"
        PROVE  fdt[f] \in Conns /\ sock[fdt[f]] \in Sockets
    BY <2>1 DEF PeerTypeOK
  <2> QED  BY <2>1, MaskFacts DEF ReadyFds, EventsOf
<1>2. ServerFd \notin FDs
  BY LoopAssumption
<1>3. \A e \in ListenerEvents : e.fd = ServerFd /\ e.ev = {"IN"}
  BY DEF ListenerEvents
<1>4. ListenerEvents \subseteq Events
  BY DEF ListenerEvents, Events, Flags
<1>5. Reported \subseteq Events
  BY <1>1, <1>4 DEF Reported, Events
<1>6. \A e \in Reported : e.fd \in FDs => e.fd \in ReadyFds /\ e.ev = EventsOf(e.fd)
  BY <1>2, <1>3 DEF Reported
<1>7. \A e \in Reported : e.fd = ServerFd => e.ev = {"IN"}
  BY <1>1, <1>2, <1>3 DEF Reported
<1>8. edge /\ Queued # {} => \E e \in Reported : e.fd = ServerFd
  <2>1. [fd |-> ServerFd, ev |-> {"IN"}].fd = ServerFd
    OBVIOUS
  <2> QED  BY <2>1 DEF Reported, ListenerEvents
<1>9. \A d, e \in Reported : d.fd = e.fd => d = e
  BY <1>1, <1>2 DEF Reported, ListenerEvents
<1> QED  BY <1>1, <1>5, <1>6, <1>7, <1>8, <1>9

\* The initial states.
LEMMA LoopTypeInit == Init => TypeOK
BY FreshTypes DEF Init, PeerInit, TypeOK, PeerTypeOK

LEMMA LoopTypeNext == TypeOK /\ NoStaleEvent /\ [Next]_vars => TypeOK'
<1> SUFFICES ASSUME TypeOK, NoStaleEvent, [Next]_vars PROVE TypeOK'
  OBVIOUS
<1> USE LoopAssumption DEF TypeOK, loopVars, At
<1>1. ASSUME NEW c \in Conns, Peer(c) PROVE TypeOK'
  BY <1>1, PeerKeepsTypes DEF Peer
<1>2. CASE EpollWait
  <2>1. batch' = Reported
    BY <1>2 DEF EpollWait, Reported
  <2>2. \A f \in ReadyFds : f \in FDs /\ reg[f] = "armed"
    BY DEF ReadyFds, EventsOf
  <2> QED  BY <1>2, <2>1, <2>2, ReportedTypes DEF EpollWait, PeerTypeOK
<1>3. CASE BatchDone
  BY <1>3 DEF BatchDone, PeerTypeOK
<1>4. CASE DispatchClose
  <2>1. PICK e \in batch : Take(e) /\ "RDHUP" \in e.ev
    BY <1>4 DEF DispatchClose
  <2>2. cur' \in FDs \cup {ServerFd} /\ batch' \in SUBSET Events
    BY <2>1 DEF Take, Events
  <2>3. PeerTypeOK'
    BY <1>4 DEF DispatchClose, PeerTypeOK
  <2> QED  BY <1>4, <2>1, <2>2, <2>3 DEF DispatchClose, Take
<1>5. CASE DispatchListener \/ DispatchRead
  <2>1. PICK e \in batch : Take(e)
    BY <1>5 DEF DispatchListener, DispatchRead
  <2>2. cur' \in FDs \cup {ServerFd} /\ batch' \in SUBSET Events
    BY <1>5 DEF DispatchListener, DispatchRead, Take, Events
  <2> QED  BY <1>5, <2>2 DEF DispatchListener, DispatchRead, PeerTypeOK
<1>6. ASSUME NEW f \in FDs, Accept(f) PROVE TypeOK'
  <2>1. PICK c \in Queued : /\ st' = [st EXCEPT ![c] = "open"]
                            /\ fdt' = [fdt EXCEPT ![f] = c]
    BY <1>6 DEF Accept
  <2> QED  BY <1>6, <2>1 DEF Accept, Queued, PeerTypeOK
<1>7. CASE AcceptNone \/ AcceptFails \/ RearmFails \/ EpollWaitFails
  BY <1>7 DEF AcceptNone, AcceptFails, RearmFails, EpollWaitFails, Exit, PeerTypeOK
<1>8. CASE ReadData
  BY <1>8, ReadTypes DEF ReadData, PeerTypeOK
<1>9. CASE ReadAgain
  BY <1>9 DEF ReadAgain, PeerTypeOK, NoStaleEvent
<1>10. CASE ReadEof
  BY <1>10 DEF ReadEof, PeerTypeOK
<1>11. CASE ReadError
  BY <1>11, PeerTypes DEF ReadError, PeerTypeOK
<1>12. CASE UNCHANGED vars
  BY <1>12 DEF vars, PeerTypeOK
<1> QED
  BY <1>1, <1>2, <1>3, <1>4, <1>5, <1>6, <1>7, <1>8, <1>9, <1>10, <1>11, <1>12
     DEF Next, LoopStep

-----------------------------------------------------------------------------
(* The inductive invariant.  A read that finds an error leaves the connection *)
(* unarmed, so NoLostConnection needs that only a reset leaves an error; the  *)
(* batch is empty whenever epoll_wait() is called; and the listening socket   *)
(* is never taken for a connection that has ended.                           *)

ErrorMeansReset == \A c \in Conns : sock[c].err # "none" => sock[c].rst

LoopInv ==
    /\ TypeOK
    /\ NoStaleEvent
    /\ NoLostEdge
    /\ NoLostConnection
    /\ ErrorMeansReset
    /\ pc = "wait" => batch = {}
    /\ \A e \in batch : e.fd = ServerFd => "RDHUP" \notin e.ev

LEMMA LoopInvInit == Init => LoopInv
<1> SUFFICES ASSUME Init PROVE LoopInv
  OBVIOUS
<1>1. TypeOK
  BY LoopTypeInit
<1>2. NoStaleEvent /\ NoLostEdge /\ NoLostConnection
  BY DEF Init, PeerInit, NoStaleEvent, NoLostEdge, NoLostConnection, Queued
<1>3. ErrorMeansReset
  BY DEF Init, PeerInit, FreshSocket, ErrorMeansReset
<1> QED  BY <1>1, <1>2, <1>3 DEF Init, LoopInv

LEMMA ErrorNext == TypeOK /\ ErrorMeansReset /\ [Next]_vars => ErrorMeansReset'
<1> SUFFICES ASSUME TypeOK, ErrorMeansReset, [Next]_vars PROVE ErrorMeansReset'
  OBVIOUS
<1> USE DEF ErrorMeansReset
<1>1. sock \in [Conns -> Sockets]
  BY DEF TypeOK, PeerTypeOK
<1>2. ASSUME NEW c \in Conns, Peer(c) PROVE ErrorMeansReset'
  <2>1. CASE Connect(c)
    BY <2>1 DEF Connect
  <2>2. CASE PeerSend(c)
    BY <1>1, <2>2 DEF PeerSend, RecvByte, Sockets
  <2>3. CASE PeerRead(c)
    BY <1>1, <2>3 DEF PeerRead, PeerConsume, Sockets
  <2>4. CASE PeerFin(c)
    BY <1>1, <2>4 DEF PeerFin, RecvFin, Sockets
  <2>5. CASE PeerReset(c)
    BY <1>1, <2>5 DEF PeerReset, RecvRst, Sockets
  <2> QED  BY <1>2, <2>1, <2>2, <2>3, <2>4, <2>5 DEF Peer, PeerStep
<1>3. CASE ReadData
  BY <1>1, <1>3 DEF ReadData, AfterRead, Sockets
<1>4. CASE ReadError
  BY <1>1, <1>4 DEF ReadError, ClearError, Sockets
<1>5. CASE UNCHANGED sock
  BY <1>5
<1> QED
  BY <1>2, <1>3, <1>4, <1>5
     DEF Next, LoopStep, EpollWait, BatchDone, DispatchClose, DispatchListener,
         DispatchRead, Accept, AcceptNone, AcceptFails, ReadAgain, RearmFails, ReadEof,
         EpollWaitFails, Exit, vars

\* A peer's step.
LEMMA PeerLoopNext ==
    ASSUME LoopInv, NEW c \in Conns, Peer(c)
    PROVE  NoStaleEvent' /\ NoLostEdge' /\ NoLostConnection'
<1> USE DEF LoopInv, Peer, loopVars
<1>1. PeerTypeOK /\ TypeOK
  BY DEF TypeOK
<1>2. /\ \A d \in Conns : Ended(sock[d]) => Ended(sock'[d])
      /\ Queued \subseteq Queued'
  BY <1>1, PeerKeepsEnded
<1>3. \A f \in FDs : fdt[f] # NoConn => fdt[f] \in Conns
  BY DEF TypeOK
<1>4. NoStaleEvent'
  BY <1>2, <1>3 DEF NoStaleEvent, Ended
<1>5. NoLostEdge'
  BY DEF NoLostEdge
<1>6. NoLostConnection'
  BY <1>2, <1>3 DEF NoLostConnection, Ended
<1> QED  BY <1>4, <1>5, <1>6

\* epoll_wait(), with nothing left of the batch before.
LEMMA WaitNext ==
    ASSUME LoopInv, EpollWait
    PROVE  /\ NoStaleEvent' /\ NoLostEdge' /\ NoLostConnection'
           /\ \A e \in batch' : e.fd = ServerFd => "RDHUP" \notin e.ev
<1> USE DEF LoopInv
<1>1. batch' = Reported /\ batch = {} /\ pc = "wait" /\ proc = "up"
  BY DEF EpollWait, Reported, At
<1>2. /\ pc' = "dispatch" /\ sock' = sock /\ fdt' = fdt /\ Queued' = Queued
      /\ reg' = [f \in FDs |-> IF f \in ReadyFds THEN "spent" ELSE reg[f]]
  BY DEF EpollWait, Queued
<1>3. NoStaleEvent'
  <2>1. fdt \in [FDs -> Conns \cup {NoConn}] /\ NoConn \notin Conns
    BY LoopAssumption DEF TypeOK
  <2> QED  BY <1>1, <1>2, <2>1, ReportedTypes DEF NoStaleEvent, Ended
<1>4. NoLostEdge'
  BY <1>1, <1>2, ReportedTypes DEF NoLostEdge
<1>5. NoLostConnection'
  <2>1. \A f \in ReadyFds : \E e \in Reported : e.fd = f
    <3>1. \A f \in ReadyFds : [fd |-> f, ev |-> EventsOf(f)].fd = f
      OBVIOUS
    <3> QED  BY <3>1 DEF Reported
  <2> QED  BY <1>1, <1>2, <2>1 DEF NoLostConnection
<1>6. \A e \in batch' : e.fd = ServerFd => "RDHUP" \notin e.ev
  BY <1>1, ReportedTypes
<1> QED  BY <1>3, <1>4, <1>5, <1>6

\* EPOLLRDHUP: the descriptor closed has no other event in the batch.
LEMMA DispatchCloseNext ==
    ASSUME LoopInv, DispatchClose
    PROVE  NoStaleEvent' /\ NoLostEdge' /\ NoLostConnection'
<1> USE DEF LoopInv
<1>1. PICK e \in batch : Take(e) /\ "RDHUP" \in e.ev
  BY DEF DispatchClose
<1>2. /\ proc = "up" /\ pc = "dispatch" /\ batch' = batch \ {e} /\ cur' = e.fd
      /\ e.fd \in FDs
  BY <1>1 DEF Take, At, TypeOK, Events
<1>3. /\ UNCHANGED <<sock, proc, edge, pc>>
      /\ fdt' = [fdt EXCEPT ![e.fd] = NoConn]
      /\ reg' = [reg EXCEPT ![e.fd] = "none"]
  BY <1>2 DEF DispatchClose
<1>4. \A d \in batch' : d \in batch /\ d.fd # e.fd
  BY <1>1, <1>2 DEF NoStaleEvent
<1>5. fdt \in [FDs -> Conns \cup {NoConn}] /\ DOMAIN reg = FDs
  BY DEF TypeOK
<1>6. NoStaleEvent'
  BY <1>2, <1>3, <1>4, <1>5 DEF NoStaleEvent
<1>7. NoLostEdge'
  <2>1. Queued' \subseteq Queued
    BY DEF DispatchClose, Queued
  <2>2. e.fd # ServerFd
    BY <1>2, LoopAssumption
  <2> QED  BY <1>1, <1>2, <1>3, <2>1, <2>2 DEF NoLostEdge
<1>8. NoLostConnection'
  BY <1>1, <1>2, <1>3, <1>5 DEF NoLostConnection
<1> QED  BY <1>6, <1>7, <1>8

\* EPOLLIN.
LEMMA DispatchInNext ==
    ASSUME LoopInv, DispatchListener \/ DispatchRead
    PROVE  NoStaleEvent' /\ NoLostEdge' /\ NoLostConnection'
<1> USE DEF LoopInv
<1>1. PICK e \in batch :
        /\ Take(e)
        /\ \/ e.fd = ServerFd /\ pc' = "accept"
           \/ e.fd # ServerFd /\ pc' = "read"
  BY DEF DispatchListener, DispatchRead
<1>2. /\ proc = "up" /\ pc = "dispatch" /\ batch' = batch \ {e} /\ cur' = e.fd
      /\ e.fd \in FDs \cup {ServerFd}
  BY <1>1 DEF Take, At, TypeOK, Events
<1>3. UNCHANGED <<st, sock, proc, fdt, reg, edge>>
  BY DEF DispatchListener, DispatchRead
<1>4. \A d \in batch' : d \in batch /\ d.fd # e.fd
  BY <1>1, <1>2 DEF NoStaleEvent
<1>5. NoStaleEvent'
  BY <1>1, <1>2, <1>3, <1>4 DEF NoStaleEvent
<1>6. NoLostEdge'
  BY <1>1, <1>2, <1>3 DEF NoLostEdge, Queued
<1>7. NoLostConnection'
  BY <1>1, <1>2, <1>3, LoopAssumption DEF NoLostConnection
<1> QED  BY <1>5, <1>6, <1>7

\* accept4() takes a number that no event in the batch names.
LEMMA AcceptNext ==
    ASSUME LoopInv, NEW f \in FDs, Accept(f)
    PROVE  NoStaleEvent' /\ NoLostEdge' /\ NoLostConnection'
<1> USE DEF LoopInv
<1>1. /\ proc = "up" /\ pc = "accept" /\ fdt[f] = NoConn
      /\ UNCHANGED <<sock, proc, edge, batch, pc, cur>>
      /\ reg' = [reg EXCEPT ![f] = "armed"]
  BY DEF Accept, At, IsLowestFree, FreeFds, loopVars
<1>2. PICK c \in Queued : fdt' = [fdt EXCEPT ![f] = c]
  BY DEF Accept
<1>3. fdt \in [FDs -> Conns \cup {NoConn}] /\ DOMAIN reg = FDs
  BY DEF TypeOK
<1>4. NoStaleEvent'
  BY <1>1, <1>2, <1>3 DEF NoStaleEvent
<1>5. NoLostEdge'
  BY <1>1 DEF NoLostEdge
<1>6. NoLostConnection'
  BY <1>1, <1>2, <1>3 DEF NoLostConnection
<1> QED  BY <1>4, <1>5, <1>6

\* The read loop.
LEMMA ReadNext ==
    ASSUME LoopInv, ReadData \/ ReadAgain \/ ReadEof \/ ReadError
    PROVE  NoStaleEvent' /\ NoLostEdge' /\ NoLostConnection'
<1> USE DEF LoopInv
<1>1. /\ proc = "up" /\ pc = "read" /\ pc' \in {"read", "dispatch"}
      /\ UNCHANGED <<st, proc, fdt, edge, batch, cur>>
  BY DEF ReadData, ReadAgain, ReadEof, ReadError, At, loopVars
<1>2. /\ cur \in FDs /\ fdt[cur] \in Conns /\ sock \in [Conns -> Sockets]
      /\ \A e \in batch : e.fd # cur
  BY <1>1 DEF NoStaleEvent, TypeOK, PeerTypeOK
<1>3. \A d \in Conns : Ended(sock[d]) => Ended(sock'[d])
  <2>1. CASE sock' = sock
    BY <2>1
  <2>2. CASE ReadData
    BY <1>2, <2>2, EndedForGood, LoopAssumption DEF ReadData
  <2>3. CASE ReadError
    BY <1>2, <2>3, EndedForGood DEF ReadError
  <2> QED  BY <2>1, <2>2, <2>3 DEF ReadAgain, ReadEof
<1>4. reg' = reg \/ reg' = [reg EXCEPT ![cur] = "armed"]
  BY DEF ReadData, ReadAgain, ReadEof, ReadError, loopVars
<1>5. DOMAIN reg = FDs /\ \A f \in FDs : fdt[f] # NoConn => fdt[f] \in Conns
  BY DEF TypeOK
<1>6. ReadAgain => pc' = "dispatch" /\ reg'[cur] = "armed"
  BY <1>2, <1>5 DEF ReadAgain
<1>7. NoStaleEvent'
  <2>1. pc' = "read" => reg'[cur] = "spent"
    BY <1>1, <1>6 DEF NoStaleEvent, ReadData, ReadEof, ReadError, loopVars
  <2> QED  BY <1>1, <1>2, <1>3, <1>4, <1>5, <2>1 DEF NoStaleEvent, Ended
<1>8. NoLostEdge'
  BY <1>1 DEF NoLostEdge, Queued
<1>9. NoLostConnection'
  <2>1. pc' = "read" \/ reg'[cur] = "armed" \/ Ended(sock'[fdt[cur]])
    <3>1. CASE ReadData
      BY <1>1, <3>1 DEF ReadData, loopVars
    <3>2. CASE ReadAgain
      BY <1>6, <3>2
    <3>3. CASE ReadEof
      BY <1>2, <1>3, <3>3, LoopAssumption DEF ReadEof, ReadsEof, Sock, Ended
    <3>4. CASE ReadError
      BY <1>2, <1>3, <3>4 DEF ReadError, ReadsError, Sock, Ended, ErrorMeansReset
    <3> QED  BY <3>1, <3>2, <3>3, <3>4
  <2> QED  BY <1>1, <1>2, <1>3, <1>4, <1>5, <2>1 DEF NoLostConnection, Ended
<1> QED  BY <1>7, <1>8, <1>9

LEMMA LoopInvNext == LoopInv /\ [Next]_vars => LoopInv'
<1> SUFFICES ASSUME LoopInv, [Next]_vars PROVE LoopInv'
  OBVIOUS
<1>1. TypeOK' /\ ErrorMeansReset'
  BY LoopTypeNext, ErrorNext DEF LoopInv
<1>2. NoStaleEvent' /\ NoLostEdge' /\ NoLostConnection'
  <2>1. CASE BatchDone
    BY <2>1 DEF LoopInv, BatchDone, NoStaleEvent, NoLostEdge, NoLostConnection, Queued, At
  <2>2. CASE AcceptNone
    BY <2>2 DEF LoopInv, AcceptNone, NoStaleEvent, NoLostEdge, NoLostConnection, Queued, At
  <2>3. CASE AcceptFails \/ RearmFails \/ EpollWaitFails
    BY <2>3 DEF LoopInv, AcceptFails, RearmFails, EpollWaitFails, Exit, loopVars,
                NoStaleEvent, NoLostEdge, NoLostConnection
  <2>4. CASE UNCHANGED vars
    BY <2>4 DEF LoopInv, vars, NoStaleEvent, NoLostEdge, NoLostConnection, Queued
  <2> QED
    BY <2>1, <2>2, <2>3, <2>4, PeerLoopNext, WaitNext, DispatchCloseNext,
       DispatchInNext, AcceptNext, ReadNext DEF Next, LoopStep
<1>3. /\ pc' = "wait" => batch' = {}
      /\ \A e \in batch' : e.fd = ServerFd => "RDHUP" \notin e.ev
  <2>1. CASE EpollWait
    BY <2>1, WaitNext DEF EpollWait
  <2>2. CASE DispatchClose \/ DispatchListener \/ DispatchRead
    BY <2>2 DEF LoopInv, DispatchClose, DispatchListener, DispatchRead, Take, At
  <2>3. CASE BatchDone
    BY <2>3 DEF BatchDone
  <2>4. CASE batch' = batch /\ (pc' = pc \/ pc' # "wait")
    BY <2>4 DEF LoopInv
  <2> QED
    BY <2>1, <2>2, <2>3, <2>4
       DEF Next, LoopStep, Peer, Accept, AcceptNone, AcceptFails, ReadData, ReadAgain,
           RearmFails, ReadEof, ReadError, EpollWaitFails, Exit, loopVars, vars
<1> QED  BY <1>1, <1>2, <1>3 DEF LoopInv

LEMMA LoopInvHolds == Spec => []LoopInv
<1>1. Init => LoopInv
  BY LoopInvInit
<1>2. LoopInv /\ [Next]_vars => LoopInv'
  BY LoopInvNext
<1> QED  BY <1>1, <1>2, PTL DEF Spec

\* TypeOK of the run: the variables of the loop keep their types, whichever
\* descriptors are recycled and whatever epoll_wait() reports.
THEOREM LoopTypeCorrect == Spec => []TypeOK
<1>1. LoopInv => TypeOK
  BY DEF LoopInv
<1> QED  BY <1>1, LoopInvHolds, PTL

\* No event is handled for a descriptor that was closed, or given to another
\* connection, since epoll_wait() reported it: events may name descriptors by
\* number (lines 137 to 197), for any number of connections and descriptors.
THEOREM EventsNeverStale == Spec => []NoStaleEvent
<1>1. LoopInv => NoStaleEvent
  BY DEF LoopInv
<1> QED  BY <1>1, LoopInvHolds, PTL

\* Accepting until EAGAIN (lines 170 to 194) is enough for an edge-triggered
\* listening socket: no queued connection is ever left without an event to come.
THEOREM EdgeNeverLost == Spec => []NoLostEdge
<1>1. LoopInv => NoLostEdge
  BY DEF LoopInv
<1> QED  BY <1>1, LoopInvHolds, PTL

\* A connection whose peer has not ended it always has an event to come, one in
\* the batch, or is being read (lines 204 to 214 rearm it).
THEOREM ConnectionNeverLost == Spec => []NoLostConnection
<1>1. LoopInv => NoLostConnection
  BY DEF LoopInv
<1> QED  BY <1>1, LoopInvHolds, PTL

=============================================================================
