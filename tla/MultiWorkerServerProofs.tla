---------------------- MODULE MultiWorkerServerProofs ----------------------
(***************************************************************************)
(* Theorems about MultiWorkerServer, for every number of workers,           *)
(* connections, descriptors and blocks, every buffer size and every bound.  *)
(***************************************************************************)
EXTENDS MultiWorkerServerInv, TcpSocketProofs

-----------------------------------------------------------------------------
(* Type correctness.                                                        *)

\* What is still to be written is a sequence of bytes.
LEMMA PendingTypes ==
    ASSUME TypeOK, NEW p \in Cells
    PROVE  Pending(p) \in Seq(Bytes)
<1>1. buf[p] \in Seq(Bytes) /\ wix[p] \in Nat
  BY DEF TypeOK
<1>2. \A i \in wix[p] + 1 .. Len(buf[p]) : buf[p][i] \in Bytes
  BY <1>1, ElementOfSeq
<1>. QED  BY <1>1, <1>2, SubSeqProperties DEF Pending

\* epoll_wait() returns events.
LEMMA EventTypes ==
    ASSUME TypeOK
    PROVE  ListenerEvents \cup ConnectionEvents \subseteq Events
<1>1. ListenerEvents \subseteq Events
  BY DEF ListenerEvents, Events, Flags
<1>2. \A s : PollMask(s) \subseteq Flags
  BY DEF PollMask, Flags
<1>3. \A f \in FDs : ReadyEvents(f) \in SUBSET Flags
  BY <1>2 DEF ReadyEvents
<1>4. \A f \in FDs : reg[f].ptr \in Cells \cup {NoCell}
  BY DEF TypeOK, Registrations
<1>5. ConnectionEvents \subseteq Events
  BY <1>3, <1>4 DEF ConnectionEvents, ReadyFds, Events
<1>. QED  BY <1>1, <1>5

\* The initial state.
LEMMA TypeInit == Init => TypeInv
BY ConstantsAssumption, EmptySeq
DEF Init, TypeInv, TypeOK, LocalsInv, OverrunAtMostOne, FreshSocket, Sockets,
    SockErrors, NotRegistered, Registrations, Pcs, HandlerPcs, ClosePcs

\* Every step, one action at a time.
LEMMA TypeNext == TypeInv /\ [Next]_vars => TypeInv'
<1>. SUFFICES ASSUME TypeInv, [Next]_vars  PROVE TypeInv'
  OBVIOUS
<1>. USE ConstantsAssumption
     DEF TypeInv, TypeOK, LocalsInv, OverrunAtMostOne, kernelVars, cellVars,
         heapVars, workerVars, At, Pcs, AcceptPcs, HandlerPcs, ClosePcs
<1>1. ASSUME NEW c \in Conns, Connect(c)  PROVE TypeInv'
  BY <1>1 DEF Connect
<1>2. ASSUME NEW c \in Conns, PeerSend(c)  PROVE TypeInv'
  BY <1>2, PeerTypes DEF PeerSend
<1>3. ASSUME NEW c \in Conns, PeerRead(c)  PROVE TypeInv'
  BY <1>3, PeerTypes DEF PeerRead
<1>4. ASSUME NEW c \in Conns, PeerFin(c)  PROVE TypeInv'
  BY <1>4, PeerTypes DEF PeerFin
<1>5. ASSUME NEW c \in Conns, PeerReset(c)  PROVE TypeInv'
  BY <1>5, PeerTypes DEF PeerReset
<1>6. ASSUME NEW w \in Workers, EpollWait(w)  PROVE TypeInv'
  <2>1. ListenerEvents \cup ConnectionEvents \subseteq Events
    BY EventTypes
  <2>2. \A r \in Registrations : AfterDelivery(r) \in Registrations
    BY DEF AfterDelivery, Registrations
  <2>. QED  BY <1>6, <2>1, <2>2 DEF EpollWait
<1>7. ASSUME NEW w \in Workers, EpollWaitFails(w)  PROVE TypeInv'
  BY <1>7 DEF EpollWaitFails
<1>8. ASSUME NEW w \in Workers, DispatchListener(w)  PROVE TypeInv'
  BY <1>8 DEF DispatchListener
<1>9. ASSUME NEW w \in Workers, DispatchClose(w)  PROVE TypeInv'
  <2>1. PICK e \in batch[w] :
            /\ e.ptr \in Cells
            /\ batch' = [batch EXCEPT ![w] = @ \ {e}]
            /\ IF cfd[e.ptr] < 0
               THEN UNCHANGED <<pc, ptr>>
               ELSE /\ pc' = [pc EXCEPT ![w] = "remove"]
                    /\ ptr' = [ptr EXCEPT ![w] = e.ptr]
    BY <1>9 DEF DispatchClose
  <2>2. UNCHANGED <<proc, kernelVars, heapVars, cellVars, newfd, arm>>
    BY <1>9 DEF DispatchClose
  <2>3. \/ UNCHANGED <<pc, ptr>>
        \/ /\ pc' = [pc EXCEPT ![w] = "remove"]
           /\ ptr' = [ptr EXCEPT ![w] = e.ptr]
    BY <2>1
  <2>4. /\ batch' \in [Workers -> SUBSET Events]
        /\ pc' \in [Workers -> Pcs]
        /\ ptr' \in [Workers -> Cells \cup {NoCell}]
    <3>1. batch' \in [Workers -> SUBSET Events]
      BY <2>1
    <3>2. CASE UNCHANGED <<pc, ptr>>
      BY <3>1, <3>2
    <3>3. CASE /\ pc' = [pc EXCEPT ![w] = "remove"]
               /\ ptr' = [ptr EXCEPT ![w] = e.ptr]
      BY <2>1, <3>1, <3>3
    <3>. QED  BY <2>3, <3>2, <3>3
  <2>5. \A v \in Workers \ {w} : pc'[v] = pc[v] /\ ptr'[v] = ptr[v]
    BY <2>1
  <2>6. LocalsInv'
    BY <2>1, <2>2, <2>3, <2>5
  <2>. QED  BY <2>2, <2>4, <2>6
<1>10. ASSUME NEW w \in Workers, DispatchHangup(w)  PROVE TypeInv'
  BY <1>10 DEF DispatchHangup
<1>11. ASSUME NEW w \in Workers, DispatchHandler(w)  PROVE TypeInv'
  BY <1>11 DEF DispatchHandler
<1>12. ASSUME NEW w \in Workers, DispatchNull(w)  PROVE TypeInv'
  BY <1>12 DEF DispatchNull
<1>13. ASSUME NEW w \in Workers, AcceptNone(w)  PROVE TypeInv'
  BY <1>13 DEF AcceptNone
<1>14. ASSUME NEW w \in Workers, AcceptConn(w)  PROVE TypeInv'
  BY <1>14 DEF AcceptConn
<1>15. ASSUME NEW w \in Workers, InsertNew(w)  PROVE TypeInv'
  BY <1>15, EmptySeq DEF InsertNew, Construct, Allocatable
<1>16. ASSUME NEW w \in Workers, InsertCollides(w)  PROVE TypeInv'
  BY <1>16, EmptySeq DEF InsertCollides, Construct, Allocatable
<1>17. ASSUME NEW w \in Workers, EpollAdd(w)  PROVE TypeInv'
  <2>1. [on |-> TRUE, want |-> {"IN"}, ptr |-> ptr[w]] \in Registrations
    BY DEF Registrations, Flags
  <2>. QED  BY <1>17, <2>1 DEF EpollAdd
<1>18. ASSUME NEW w \in Workers, EpollAddFails(w)  PROVE TypeInv'
  BY <1>18 DEF EpollAddFails
<1>19. ASSUME NEW w \in Workers, ReadData(w)  PROVE TypeInv'
  <2>. DEFINE p == ptr[w]
              c == fdt[cfd[p]]
              n == ReadCount(p)
  <2>1. p \in Cells /\ c \in Conns
    BY <1>19 DEF ReadData, IsOpen
  <2>2. n \in Nat /\ sock[c] \in Sockets
    BY <2>1 DEF ReadCount
  <2>3. /\ AfterRead(sock[c], n) \in Sockets
        /\ ReadBytes(sock[c], n) \in Seq(Bytes)
        /\ Len(ReadBytes(sock[c], n)) \in 0 .. n
    BY <2>2, ReadTypes
  <2>4. /\ buf[p] \o ReadBytes(sock[c], n) \in Seq(Bytes)
        /\ Len(buf[p] \o ReadBytes(sock[c], n)) <= BufSize + 1
    BY <2>1, <2>3, ConcatProperties DEF ReadCount
  <2>5. /\ buf' = [buf EXCEPT ![p] = buf[p] \o ReadBytes(sock[c], n)]
        /\ sock' = [sock EXCEPT ![c] = AfterRead(sock[c], n)]
        /\ UNCHANGED <<proc, st, fdt, reg, heapVars, cfd, wix, rfw, workerVars>>
    BY <1>19 DEF ReadData, SockOf
  <2>. HIDE DEF p, c, n
  <2>. QED  BY <2>1, <2>3, <2>4, <2>5
<1>20. ASSUME NEW w \in Workers, ReadEof(w)  PROVE TypeInv'
  BY <1>20 DEF ReadEof
<1>21. ASSUME NEW w \in Workers, ReadAgain(w)  PROVE TypeInv'
  BY <1>21 DEF ReadAgain
<1>22. ASSUME NEW w \in Workers, ReadError(w)  PROVE TypeInv'
  <2>1. sock' \in [Conns -> Sockets]
    BY <1>22, PeerTypes DEF ReadError, IsOpen
  <2>. QED  BY <1>22, <2>1 DEF ReadError
<1>23. ASSUME NEW w \in Workers, WriteData(w)  PROVE TypeInv'
  <2>. DEFINE p == ptr[w]
              c == fdt[cfd[p]]
              b == Pending(p)
              n == WriteLen(sock[c], Len(b))
              done == wix[p] + n >= Len(buf[p])
  <2>1. p \in Cells /\ c \in Conns /\ SendRoom(sock[c]) > 0
    BY <1>23 DEF WriteData, IsOpen, WritesData, SockOf
  <2>2. b \in Seq(Bytes)
    BY <2>1, PendingTypes
  <2>3. AfterWrite(sock[c], b) \in Sockets /\ n \in Nat
    BY <2>1, <2>2, WriteTypes
  <2>4. /\ sock' = [sock EXCEPT ![c] = AfterWrite(sock[c], b)]
        /\ wix' = [wix EXCEPT ![p] = wix[p] + n]
        /\ rfw' = [rfw EXCEPT ![p] = ~done]
        /\ arm' = [arm EXCEPT ![w] = TRUE]
        /\ pc' = [pc EXCEPT ![w] = IF done THEN "rearm" ELSE "write"]
        /\ UNCHANGED <<proc, st, fdt, reg, heapVars, cfd, buf, batch, ptr, newfd>>
        /\ pc[w] = "write"
    BY <1>23 DEF WriteData, SockOf
  <2>5. rfw' \in [Cells -> BOOLEAN]
    BY <2>4, Zenon
  <2>. HIDE DEF p, c, b, n, done
  <2>. QED  BY <2>1, <2>3, <2>4, <2>5
<1>24. ASSUME NEW w \in Workers, WriteAgain(w)  PROVE TypeInv'
  BY <1>24 DEF WriteAgain
<1>25. ASSUME NEW w \in Workers, WriteError(w)  PROVE TypeInv'
  <2>1. sock' \in [Conns -> Sockets]
    BY <1>25, PeerTypes DEF WriteError, IsOpen
  <2>. QED  BY <1>25, <2>1 DEF WriteError
<1>26. ASSUME NEW w \in Workers, WriteSigpipe(w)  PROVE TypeInv'
  BY <1>26 DEF WriteSigpipe
<1>27. ASSUME NEW w \in Workers, RearmEpoll(w)  PROVE TypeInv'
  <2>1. [on |-> TRUE, want |-> Interest(arm[w]), ptr |-> ptr[w]] \in Registrations
    BY DEF Registrations, Flags, Interest
  <2>2. reg' \in [FDs -> Registrations]
    BY <1>27, <2>1 DEF RearmEpoll, IsOpen
  <2>3. CASE pc[w] = "rearm"
    <3>1. /\ pc' = [pc EXCEPT ![w] = "loop"]
          /\ ptr' = [ptr EXCEPT ![w] = NoCell]
          /\ UNCHANGED <<proc, st, sock, fdt, heapVars, cellVars, batch, newfd, arm>>
      BY <1>27, <2>3 DEF RearmEpoll
    <3>. QED  BY <2>2, <3>1
  <2>4. CASE pc[w] # "rearm"
    <3>1. /\ pc[w] = "rearm_err" /\ pc' = [pc EXCEPT ![w] = "reset"]
          /\ UNCHANGED <<proc, st, sock, fdt, heapVars, cellVars, batch, ptr, newfd, arm>>
      BY <1>27, <2>4 DEF RearmEpoll
    <3>. QED  BY <2>2, <3>1
  <2>. QED  BY <2>3, <2>4
<1>28. ASSUME NEW w \in Workers, Reset(w)  PROVE TypeInv'
  BY <1>28 DEF Reset
<1>29. ASSUME NEW w \in Workers, Remove(w)  PROVE TypeInv'
  BY <1>29 DEF Remove
<1>30. ASSUME NEW w \in Workers, EpollDel(w)  PROVE TypeInv'
  BY <1>30 DEF EpollDel, NotRegistered, Registrations
<1>31. ASSUME NEW w \in Workers, CloseFd(w)  PROVE TypeInv'
  <2>1. CASE IsOpen(cfd[ptr[w]])
    <3>1. /\ st' = [st EXCEPT ![fdt[cfd[ptr[w]]]] = "closed"]
          /\ fdt' = [fdt EXCEPT ![cfd[ptr[w]]] = NoConn]
          /\ reg' = [reg EXCEPT ![cfd[ptr[w]]] = NotRegistered]
          /\ pc' = [pc EXCEPT ![w] = "assign"]
          /\ pc[w] = "close"
          /\ UNCHANGED <<proc, sock, heapVars, cellVars, batch, ptr, newfd, arm>>
      BY <1>31, <2>1 DEF CloseFd
    <3>2. NotRegistered \in Registrations
      BY DEF NotRegistered, Registrations
    <3>. QED  BY <3>1, <3>2
  <2>2. CASE ~IsOpen(cfd[ptr[w]])
    BY <1>31, <2>2 DEF CloseFd
  <2>. QED  BY <2>1, <2>2
<1>32. ASSUME NEW w \in Workers, AssignFd(w)  PROVE TypeInv'
  BY <1>32 DEF AssignFd
<1>33. CASE UNCHANGED vars
  BY <1>33 DEF vars
<1>. QED
  BY <1>1, <1>2, <1>3, <1>4, <1>5, <1>6, <1>7, <1>8, <1>9, <1>10, <1>11, <1>12,
     <1>13, <1>14, <1>15, <1>16, <1>17, <1>18, <1>19, <1>20, <1>21, <1>22, <1>23, <1>24,
     <1>25, <1>26, <1>27, <1>28, <1>29, <1>30, <1>31, <1>32, <1>33
  DEF Next, PeerStep, WorkerStep, Dispatch, AcceptConnections,
      HandleConnectionEvent, CloseConnection

\* TypeOK of every run: the program's variables keep their types, whatever the
\* allocator does with freed objects.
THEOREM TypeCorrect == Spec => []TypeOK
<1>1. Spec => []TypeInv
  BY TypeInit, TypeNext, PTL DEF Spec
<1>2. TypeInv => TypeOK
  BY DEF TypeInv
<1>. QED  BY <1>1, <1>2, PTL

\* The read() of line 303 never goes more than one byte past buffer_, in no
\* interleaving and for no sequence of reads.
THEOREM BoundedOverrun == Spec => []OverrunAtMostOne
<1>1. Spec => []TypeInv
  BY TypeInit, TypeNext, PTL DEF Spec
<1>2. TypeInv => OverrunAtMostOne
  BY DEF TypeInv
<1>. QED  BY <1>1, <1>2, PTL

-----------------------------------------------------------------------------
(* ready_for_write_.                                                        *)

\* The worker that sets it is the one that writes, and clears it when it leaves.
LEMMA WriteModeNext ==
    TypeInv /\ WriteModeIsTransient /\ [Next]_vars => WriteModeIsTransient'
<1>. SUFFICES ASSUME TypeInv, WriteModeIsTransient, [Next]_vars
              PROVE  WriteModeIsTransient'
  OBVIOUS
<1>. USE ConstantsAssumption
     DEF TypeInv, TypeOK, LocalsInv, WriteModeIsTransient, Touches, kernelVars,
         cellVars, heapVars, workerVars, At, AcceptPcs, HandlerPcs, ClosePcs
<1>1. ASSUME NEW c \in Conns, Connect(c)  PROVE WriteModeIsTransient'
  BY <1>1 DEF Connect
<1>2. ASSUME NEW c \in Conns, PeerSend(c)  PROVE WriteModeIsTransient'
  BY <1>2 DEF PeerSend
<1>3. ASSUME NEW c \in Conns, PeerRead(c)  PROVE WriteModeIsTransient'
  BY <1>3 DEF PeerRead
<1>4. ASSUME NEW c \in Conns, PeerFin(c)  PROVE WriteModeIsTransient'
  BY <1>4 DEF PeerFin
<1>5. ASSUME NEW c \in Conns, PeerReset(c)  PROVE WriteModeIsTransient'
  BY <1>5 DEF PeerReset
<1>6. ASSUME NEW w \in Workers, EpollWait(w)  PROVE WriteModeIsTransient'
  BY <1>6 DEF EpollWait
<1>7. ASSUME NEW w \in Workers, EpollWaitFails(w)  PROVE WriteModeIsTransient'
  BY <1>7 DEF EpollWaitFails
<1>8. ASSUME NEW w \in Workers, DispatchListener(w)  PROVE WriteModeIsTransient'
  BY <1>8 DEF DispatchListener
<1>9. ASSUME NEW w \in Workers, DispatchClose(w)  PROVE WriteModeIsTransient'
  BY <1>9 DEF DispatchClose
<1>10. ASSUME NEW w \in Workers, DispatchHangup(w)  PROVE WriteModeIsTransient'
  BY <1>10 DEF DispatchHangup
<1>11. ASSUME NEW w \in Workers, DispatchHandler(w)  PROVE WriteModeIsTransient'
  BY <1>11 DEF DispatchHandler
<1>12. ASSUME NEW w \in Workers, DispatchNull(w)  PROVE WriteModeIsTransient'
  BY <1>12 DEF DispatchNull
<1>13. ASSUME NEW w \in Workers, AcceptNone(w)  PROVE WriteModeIsTransient'
  BY <1>13 DEF AcceptNone
<1>14. ASSUME NEW w \in Workers, AcceptConn(w)  PROVE WriteModeIsTransient'
  BY <1>14 DEF AcceptConn
<1>15. ASSUME NEW w \in Workers, InsertNew(w)  PROVE WriteModeIsTransient'
  BY <1>15 DEF InsertNew, Construct, Allocatable
<1>16. ASSUME NEW w \in Workers, InsertCollides(w)  PROVE WriteModeIsTransient'
  BY <1>16 DEF InsertCollides, Construct, Allocatable
<1>17. ASSUME NEW w \in Workers, EpollAdd(w)  PROVE WriteModeIsTransient'
  BY <1>17 DEF EpollAdd
<1>18. ASSUME NEW w \in Workers, EpollAddFails(w)  PROVE WriteModeIsTransient'
  BY <1>18 DEF EpollAddFails
<1>19. ASSUME NEW w \in Workers, ReadData(w)  PROVE WriteModeIsTransient'
  BY <1>19 DEF ReadData
<1>20. ASSUME NEW w \in Workers, ReadEof(w)  PROVE WriteModeIsTransient'
  BY <1>20 DEF ReadEof
<1>21. ASSUME NEW w \in Workers, ReadAgain(w)  PROVE WriteModeIsTransient'
  BY <1>21 DEF ReadAgain
<1>22. ASSUME NEW w \in Workers, ReadError(w)  PROVE WriteModeIsTransient'
  BY <1>22 DEF ReadError
<1>23. ASSUME NEW w \in Workers, WriteData(w)  PROVE WriteModeIsTransient'
  <2>. DEFINE p == ptr[w]
  <2>1. /\ pc[w] = "write" /\ p \in Cells
        /\ UNCHANGED ptr
        /\ rfw' = [rfw EXCEPT ![p] = rfw'[p]]
    BY <1>23 DEF WriteData
  <2>. DEFINE done == wix[p] + WriteLen(SockOf(cfd[p]), Len(Pending(p)))
                        >= Len(buf[p])
  <2>2. /\ rfw' = [rfw EXCEPT ![p] = ~done]
        /\ pc' = [pc EXCEPT ![w] = IF done THEN "rearm" ELSE "write"]
    BY <1>23 DEF WriteData
  <2>. HIDE DEF done
  <2>3. rfw'[p] => pc'[w] = "write"
    <3>1. rfw'[p] = ~done
      BY <2>1, <2>2
    <3>2. pc'[w] = IF done THEN "rearm" ELSE "write"
      BY <2>2
    <3>. QED  BY <3>1, <3>2
  <2>4. \A v \in Workers \ {w} : pc'[v] = pc[v]
    BY <2>2
  <2>5. \A q \in Cells \ {p} : rfw'[q] = rfw[q]
    BY <2>1
  <2>6. ASSUME NEW q \in Cells, rfw'[q]
        PROVE  \E v \in Workers : Touches(v, q)' /\ pc'[v] = "write"
    <3>1. CASE q = p
      BY <2>1, <2>3, <2>6, <3>1
    <3>2. CASE q # p
      <4>1. PICK v \in Workers : Touches(v, q) /\ pc[v] = "write"
        BY <2>5, <2>6, <3>2
      <4>. QED  BY <2>1, <2>4, <3>2, <4>1
    <3>. QED  BY <3>1, <3>2
  <2>. QED  BY <2>6
<1>24. ASSUME NEW w \in Workers, WriteAgain(w)  PROVE WriteModeIsTransient'
  BY <1>24 DEF WriteAgain
<1>25. ASSUME NEW w \in Workers, WriteError(w)  PROVE WriteModeIsTransient'
  BY <1>25 DEF WriteError
<1>26. ASSUME NEW w \in Workers, WriteSigpipe(w)  PROVE WriteModeIsTransient'
  BY <1>26 DEF WriteSigpipe
<1>27. ASSUME NEW w \in Workers, RearmEpoll(w)  PROVE WriteModeIsTransient'
  <2>1. UNCHANGED rfw /\ pc[w] \in {"rearm", "rearm_err"}
    BY <1>27 DEF RearmEpoll
  <2>2. \A v \in Workers \ {w} : pc'[v] = pc[v] /\ ptr'[v] = ptr[v]
    <3>1. CASE pc[w] = "rearm"
      <4>1. /\ pc' = [pc EXCEPT ![w] = "loop"]
            /\ ptr' = [ptr EXCEPT ![w] = NoCell]
        BY <1>27, <3>1 DEF RearmEpoll
      <4>. QED  BY <4>1
    <3>2. CASE pc[w] = "rearm_err"
      <4>1. pc' = [pc EXCEPT ![w] = "reset"] /\ ptr' = ptr
        BY <1>27, <3>2 DEF RearmEpoll
      <4>. QED  BY <4>1
    <3>. QED  BY <2>1, <3>1, <3>2
  <2>3. ASSUME NEW p \in Cells, rfw'[p]
        PROVE  \E v \in Workers : Touches(v, p)' /\ pc'[v] = "write"
    <3>1. PICK v \in Workers : Touches(v, p) /\ pc[v] = "write"
      BY <2>1, <2>3
    <3>. QED  BY <2>1, <2>2, <3>1
  <2>. QED  BY <2>3
<1>28. ASSUME NEW w \in Workers, Reset(w)  PROVE WriteModeIsTransient'
  BY <1>28 DEF Reset
<1>29. ASSUME NEW w \in Workers, Remove(w)  PROVE WriteModeIsTransient'
  BY <1>29 DEF Remove
<1>30. ASSUME NEW w \in Workers, EpollDel(w)  PROVE WriteModeIsTransient'
  BY <1>30 DEF EpollDel
<1>31. ASSUME NEW w \in Workers, CloseFd(w)  PROVE WriteModeIsTransient'
  BY <1>31 DEF CloseFd
<1>32. ASSUME NEW w \in Workers, AssignFd(w)  PROVE WriteModeIsTransient'
  BY <1>32 DEF AssignFd
<1>33. CASE UNCHANGED vars
  BY <1>33 DEF vars
<1>. QED
  BY <1>1, <1>2, <1>3, <1>4, <1>5, <1>6, <1>7, <1>8, <1>9, <1>10, <1>11, <1>12,
     <1>13, <1>14, <1>15, <1>16, <1>17, <1>18, <1>19, <1>20, <1>21, <1>22, <1>23, <1>24,
     <1>25, <1>26, <1>27, <1>28, <1>29, <1>30, <1>31, <1>32, <1>33
  DEF Next, PeerStep, WorkerStep, Dispatch, AcceptConnections,
      HandleConnectionEvent, CloseConnection

\* WriteModeIsTransient of the run with a shared heap, whatever the allocator
\* does with freed objects: no worker starts an event in write mode.
THEOREM WriteModeCorrect == Spec => []WriteModeIsTransient
<1>1. Spec => []TypeInv
  BY TypeInit, TypeNext, PTL DEF Spec
<1>2. Init => WriteModeIsTransient
  BY DEF Init, WriteModeIsTransient
<1>. QED  BY <1>1, <1>2, WriteModeNext, PTL DEF Spec

-----------------------------------------------------------------------------
(* OwnershipInv is an invariant when the allocator keeps freed blocks with   *)
(* the thread that freed them, and with it the safety properties that rest   *)
(* on exclusive access.                                                     *)
(*                                                                         *)
(* Each step is first reduced to its effect on ownership: the 32 actions     *)
(* have 11 different ones.  Each part of the invariant is then shown to be   *)
(* preserved by every effect.                                               *)

Inv == ~SharedHeap /\ TypeInv /\ OwnershipInv

\* All that decides who owns what.
ownVars == <<fdt, reg, data, cfd, cache, pc, batch, ptr, newfd>>

-----------------------------------------------------------------------------
(* Effects.                                                                 *)

\* A socket never recovers from a reset, and only a reset gives it an error.
SocketMoves ==
    \A c \in Conns :
        /\ sock[c].rst => sock'[c].rst
        /\ sock[c].rst /\ sock[c].err = "none" => sock'[c].err = "none"
        /\ sock'[c].err # "none" => sock'[c].rst

\* Worker v stays, is done with its object, starts to accept, or goes on with the
\* event it handles.
LocalMove(v) ==
    /\ batch'[v] \subseteq batch[v]
    /\ \/ pc'[v] = pc[v] /\ ptr'[v] = ptr[v] /\ newfd'[v] = newfd[v]
       \/ pc'[v] \in {"loop", "accept"}
       \/ /\ pc[v] \in {"read", "write"}
          /\ pc'[v] \in {"write", "rearm", "rearm_err"}
          /\ ptr'[v] = ptr[v]
          /\ pc'[v] = "rearm_err" =>
                SockOf(cfd[ptr[v]])'.rst /\ SockOf(cfd[ptr[v]])'.err = "none"

LocalStep ==
    /\ SocketMoves
    /\ \A v \in Workers : LocalMove(v)
    /\ UNCHANGED <<fdt, reg, data, cfd, cache>>

\* A worker takes an event out of its batch and starts to handle it.
TakeStep(w) ==
    \E e \in batch[w] :
        /\ pc[w] = "loop" /\ e.ptr \in Cells
        /\ batch' = [batch EXCEPT ![w] = @ \ {e}]
        /\ ptr' = [ptr EXCEPT ![w] = e.ptr]
        /\ \/ pc' = [pc EXCEPT ![w] = "remove"] /\ "ERR" \in e.ev
           \/ pc' = [pc EXCEPT ![w] = "read"] /\ "HUP" \notin e.ev
           \/ pc' = [pc EXCEPT ![w] = "write"] /\ "HUP" \notin e.ev
        /\ UNCHANGED <<sock, fdt, reg, data, cfd, cache, newfd>>

\* epoll_wait() turns armed registrations into events.
WaitStep(w) ==
    /\ pc[w] = "loop" /\ batch[w] = {}
    /\ batch' = [batch EXCEPT ![w] = ListenerEvents \cup ConnectionEvents]
    /\ reg' = [f \in FDs |-> IF f \in ReadyFds THEN [reg[f] EXCEPT !.want = {}]
                                               ELSE reg[f]]
    /\ UNCHANGED <<sock, fdt, data, cfd, cache, pc, ptr, newfd>>

AcceptStep(w) ==
    \E c \in Conns, f \in FDs :
        /\ pc[w] = "accept" /\ fdt[f] = NoConn
        /\ fdt' = [fdt EXCEPT ![f] = c]
        /\ newfd' = [newfd EXCEPT ![w] = f]
        /\ pc' = [pc EXCEPT ![w] = "insert"]
        /\ UNCHANGED <<sock, reg, data, cfd, cache, batch, ptr>>

InsertStep(w) ==
    \E p \in Allocatable(w) :
        /\ pc[w] = "insert" /\ data[newfd[w]] = NoCell
        /\ data' = [data EXCEPT ![newfd[w]] = p]
        /\ cfd' = [cfd EXCEPT ![p] = newfd[w]]
        /\ cache' = [cache EXCEPT ![p] = NoWorker]
        /\ ptr' = [ptr EXCEPT ![w] = p]
        /\ pc' = [pc EXCEPT ![w] = "add"]
        /\ UNCHANGED <<sock, fdt, reg, batch, newfd>>

AddStep(w) ==
    /\ pc[w] = "add"
    /\ reg' = [reg EXCEPT ![newfd[w]] =
                  [on |-> TRUE, want |-> {"IN"}, ptr |-> ptr[w]]]
    /\ pc' = [pc EXCEPT ![w] = "accept"]
    /\ ptr' = [ptr EXCEPT ![w] = NoCell]
    /\ newfd' = [newfd EXCEPT ![w] = NoFd]
    /\ UNCHANGED <<sock, fdt, data, cfd, cache, batch>>

\* The worker arms the registration of its object and leaves it, but for the
\* reset() that may follow.
RearmStep(w) ==
    \E m \in {{"IN"}, {"OUT"}} :
        /\ \/ UNCHANGED reg
           \/ reg' = [reg EXCEPT ![cfd[ptr[w]]] =
                        [on |-> TRUE, want |-> m, ptr |-> ptr[w]]]
        /\ \/ /\ pc[w] = "rearm" /\ pc' = [pc EXCEPT ![w] = "loop"]
              /\ ptr' = [ptr EXCEPT ![w] = NoCell]
           \/ /\ pc[w] = "rearm_err" /\ pc' = [pc EXCEPT ![w] = "reset"]
              /\ UNCHANGED ptr
        /\ UNCHANGED <<sock, fdt, data, cfd, cache, batch, newfd>>

RemoveStep(w) ==
    /\ pc[w] = "remove"
    /\ data' = [data EXCEPT ![cfd[ptr[w]]] = NoCell]
    /\ cache' = [cache EXCEPT ![ptr[w]] = w]
    /\ pc' = [pc EXCEPT ![w] = "del"]
    /\ UNCHANGED <<sock, fdt, reg, cfd, batch, ptr, newfd>>

DelStep(w) ==
    /\ pc[w] = "del"
    /\ reg' = [reg EXCEPT ![cfd[ptr[w]]] = NotRegistered]
    /\ pc' = [pc EXCEPT ![w] = "close"]
    /\ UNCHANGED <<sock, fdt, data, cfd, cache, batch, ptr, newfd>>

CloseStep(w) ==
    /\ pc[w] = "close"
    /\ fdt' = [fdt EXCEPT ![cfd[ptr[w]]] = NoConn]
    /\ reg' = [reg EXCEPT ![cfd[ptr[w]]] = NotRegistered]
    /\ pc' = [pc EXCEPT ![w] = "assign"]
    /\ UNCHANGED <<sock, data, cfd, cache, batch, ptr, newfd>>

AssignStep(w) ==
    /\ pc[w] = "assign"
    /\ cfd' = [cfd EXCEPT ![ptr[w]] = NoFd]
    /\ pc' = [pc EXCEPT ![w] = "loop"]
    /\ ptr' = [ptr EXCEPT ![w] = NoCell]
    /\ UNCHANGED <<sock, fdt, reg, data, cache, batch, newfd>>

OwnershipStep(w) ==
    \/ TakeStep(w) \/ WaitStep(w) \/ AcceptStep(w) \/ InsertStep(w)
    \/ AddStep(w) \/ RearmStep(w) \/ RemoveStep(w) \/ DelStep(w)
    \/ CloseStep(w) \/ AssignStep(w)

-----------------------------------------------------------------------------
(* Every step has one of these effects.                                     *)

\* The object of a worker in a handler is mapped and its descriptor is open.
LEMMA HandlerOpen ==
    ASSUME Inv, NEW w \in Workers,
           pc[w] \in HandlerPcs \cup {"add", "remove"}
    PROVE  ptr[w] \in Cells /\ Live(ptr[w]) /\ IsOpen(cfd[ptr[w]])
<1>1. Live(ptr[w])
  BY DEF Inv, OwnershipInv, HoldInv
<1>2. ptr[w] \in Cells /\ cfd[ptr[w]] \in FDs /\ data[cfd[ptr[w]]] # NoCell
  BY <1>1, ConstantsAssumption DEF Live
<1>3. fdt[cfd[ptr[w]]] # NoConn
  BY <1>2 DEF Inv, OwnershipInv, DataInv
<1>. QED  BY <1>1, <1>2, <1>3 DEF IsOpen

LEMMA Effects ==
    ASSUME Inv, [Next]_vars
    PROVE  LocalStep \/ \E w \in Workers : OwnershipStep(w)
<1>. USE ConstantsAssumption
     DEF TypeInv, TypeOK, kernelVars, cellVars, heapVars, workerVars, At
<1>0. ~SharedHeap /\ TypeInv /\ SocketInv
  BY DEF Inv, OwnershipInv
<1>1. ASSUME NEW c \in Conns, Connect(c)  PROVE LocalStep
  BY <1>0, <1>1 DEF Connect, LocalStep, LocalMove, SocketMoves, SocketInv
<1>2. ASSUME NEW c \in Conns, PeerSend(c)  PROVE LocalStep
  BY <1>0, <1>2 DEF PeerSend, LocalStep, LocalMove, SocketMoves, SocketInv, RecvByte, Sockets
<1>3. ASSUME NEW c \in Conns, PeerRead(c)  PROVE LocalStep
  BY <1>0, <1>3 DEF PeerRead, LocalStep, LocalMove, SocketMoves, SocketInv, PeerConsume, Sockets
<1>4. ASSUME NEW c \in Conns, PeerFin(c)  PROVE LocalStep
  BY <1>0, <1>4 DEF PeerFin, LocalStep, LocalMove, SocketMoves, SocketInv, RecvFin, Sockets
<1>5. ASSUME NEW c \in Conns, PeerReset(c)  PROVE LocalStep
  BY <1>0, <1>5 DEF PeerReset, LocalStep, LocalMove, SocketMoves, SocketInv, RecvRst, Sockets
<1>6. ASSUME NEW w \in Workers, EpollWait(w)  PROVE WaitStep(w)
  BY <1>0, <1>6 DEF EpollWait, WaitStep, AfterDelivery
<1>7. ASSUME NEW w \in Workers, EpollWaitFails(w)  PROVE LocalStep
  BY <1>0, <1>7 DEF EpollWaitFails, LocalStep, LocalMove, SocketMoves, SocketInv
<1>8. ASSUME NEW w \in Workers, DispatchListener(w)  PROVE LocalStep
  BY <1>0, <1>8 DEF DispatchListener, LocalStep, LocalMove, SocketMoves, SocketInv
<1>9. ASSUME NEW w \in Workers, DispatchClose(w)  PROVE TakeStep(w)
  <2>1. PICK e \in batch[w] :
            /\ pc[w] = "loop" /\ e.ptr \in Cells
            /\ e.ev \cap {"ERR", "RDHUP"} # {}
            /\ batch' = [batch EXCEPT ![w] = @ \ {e}]
            /\ IF cfd[e.ptr] < 0
               THEN UNCHANGED <<pc, ptr>>
               ELSE /\ pc' = [pc EXCEPT ![w] = "remove"]
                    /\ ptr' = [ptr EXCEPT ![w] = e.ptr]
    BY <1>0, <1>9 DEF DispatchClose
  <2>2. Live(e.ptr) /\ "RDHUP" \notin e.ev
    BY <2>1 DEF Inv, OwnershipInv, EventInv
  <2>3. "ERR" \in e.ev
    BY <2>1, <2>2
  <2>4. cfd[e.ptr] \in Nat
    BY <2>2 DEF Live
  <2>5. /\ pc' = [pc EXCEPT ![w] = "remove"]
        /\ ptr' = [ptr EXCEPT ![w] = e.ptr]
    BY <2>1, <2>4
  <2>6. UNCHANGED <<sock, fdt, reg, data, cfd, cache, newfd>>
    BY <1>9 DEF DispatchClose
  <2>. QED  BY <2>1, <2>3, <2>5, <2>6 DEF TakeStep
<1>10. ASSUME NEW w \in Workers, DispatchHangup(w)  PROVE LocalStep
  BY <1>0, <1>10 DEF DispatchHangup, LocalStep, LocalMove, SocketMoves, SocketInv
<1>11. ASSUME NEW w \in Workers, DispatchHandler(w)  PROVE TakeStep(w)
  BY <1>0, <1>11 DEF DispatchHandler, TakeStep
<1>12. ASSUME NEW w \in Workers, DispatchNull(w)  PROVE LocalStep
  BY <1>0, <1>12 DEF DispatchNull, LocalStep, LocalMove, SocketMoves, SocketInv
<1>13. ASSUME NEW w \in Workers, AcceptNone(w)  PROVE LocalStep
  BY <1>0, <1>13 DEF AcceptNone, LocalStep, LocalMove, SocketMoves, SocketInv
<1>14. ASSUME NEW w \in Workers, AcceptConn(w)  PROVE AcceptStep(w)
  BY <1>0, <1>14 DEF AcceptConn, AcceptStep, IsLowestFree, FreeFds
<1>15. ASSUME NEW w \in Workers, InsertNew(w)  PROVE InsertStep(w)
  BY <1>0, <1>15 DEF InsertNew, InsertStep, Construct
<1>16. ASSUME NEW w \in Workers, InsertCollides(w)  PROVE FALSE
  BY <1>0, <1>16 DEF InsertCollides, Inv, OwnershipInv, ClaimInv, Claims, LocalsInv
<1>17. ASSUME NEW w \in Workers, EpollAdd(w)  PROVE AddStep(w)
  BY <1>0, <1>17 DEF EpollAdd, AddStep
<1>18. ASSUME NEW w \in Workers, EpollAddFails(w)  PROVE LocalStep
  BY <1>0, <1>18 DEF EpollAddFails, LocalStep, LocalMove, SocketMoves, SocketInv
<1>19. ASSUME NEW w \in Workers, ReadData(w)  PROVE LocalStep
  <2>. DEFINE c == fdt[cfd[ptr[w]]]
  <2>1. UNCHANGED <<pc, ptr, batch, newfd, fdt, reg, data, cfd, cache>>
    BY <1>19 DEF ReadData
  <2>2. c \in Conns
    BY <1>0, <1>19 DEF ReadData, IsOpen
  <2>3. PICK q : sock' = [sock EXCEPT ![c] = [@ EXCEPT !.rq = q]]
    BY <1>19 DEF ReadData, AfterRead
  <2>4. \A d \in Conns : sock'[d].rst = sock[d].rst /\ sock'[d].err = sock[d].err
    BY <1>0, <2>2, <2>3 DEF Sockets
  <2>5. SocketMoves
    <3>. HIDE DEF TypeOK
    <3>. QED  BY <1>0, <2>4 DEF SocketMoves, SocketInv
  <2>6. \A v \in Workers : LocalMove(v)
    BY <2>1 DEF LocalMove
  <2>. QED  BY <2>1, <2>5, <2>6 DEF LocalStep
<1>20. ASSUME NEW w \in Workers, ReadEof(w)  PROVE LocalStep
  BY <1>0, <1>20 DEF ReadEof, LocalStep, LocalMove, SocketMoves, SocketInv
<1>21. ASSUME NEW w \in Workers, ReadAgain(w)  PROVE LocalStep
  BY <1>0, <1>21 DEF ReadAgain, LocalStep, LocalMove, SocketMoves, SocketInv
<1>22. ASSUME NEW w \in Workers, ReadError(w)  PROVE LocalStep
  <2>. DEFINE f == cfd[ptr[w]]  c == fdt[f]
  <2>1. /\ pc[w] = "read" /\ pc' = [pc EXCEPT ![w] = "rearm_err"]
        /\ UNCHANGED <<ptr, batch, newfd, fdt, reg, data, cfd, cache>>
    BY <1>22 DEF ReadError
  <2>2. c \in Conns /\ IsOpen(f)
    BY <1>0, <1>22, HandlerOpen DEF ReadError, HandlerPcs, IsOpen
  <2>3. /\ sock[c].err # "none"
        /\ sock' = [sock EXCEPT ![c] = ClearError(@)]
    BY <1>22, <2>2 DEF ReadError, ReadsError, SockOf
  <2>4. sock'[c] = ClearError(sock[c]) /\ \A d \in Conns \ {c} : sock'[d] = sock[d]
    BY <1>0, <2>2, <2>3
  <2>5. sock[c].rst
    BY <1>0, <2>2, <2>3 DEF SocketInv
  <2>6. /\ ClearError(sock[c]).rst = sock[c].rst
        /\ ClearError(sock[c]).err = "none"
    BY <1>0, <2>2 DEF ClearError, Sockets
  <2>7. SocketMoves
    <3>. HIDE DEF TypeOK, c, f
    <3>. QED  BY <1>0, <2>4, <2>5, <2>6 DEF SocketMoves, SocketInv
  <2>8. LocalMove(w)
    BY <1>0, <2>1, <2>4, <2>5, <2>6 DEF LocalMove, SockOf
  <2>9. \A v \in Workers \ {w} : LocalMove(v)
    BY <1>0, <2>1 DEF LocalMove
  <2>. QED  BY <2>1, <2>7, <2>8, <2>9 DEF LocalStep
<1>23. ASSUME NEW w \in Workers, WriteData(w)  PROVE LocalStep
  <2>. DEFINE f == cfd[ptr[w]]  c == fdt[f]
  <2>1. /\ pc[w] = "write"
        /\ \E q \in {"rearm", "write"} : pc' = [pc EXCEPT ![w] = q]
        /\ UNCHANGED <<ptr, batch, newfd, fdt, reg, data, cfd, cache>>
    BY <1>23 DEF WriteData
  <2>2. c \in Conns
    BY <1>0, <1>23 DEF WriteData, IsOpen
  <2>3. PICK q : sock' = [sock EXCEPT ![c] = [@ EXCEPT !.out = q]]
    BY <1>23 DEF WriteData, AfterWrite
  <2>4. \A d \in Conns : sock'[d].rst = sock[d].rst /\ sock'[d].err = sock[d].err
    BY <1>0, <2>2, <2>3 DEF Sockets
  <2>5. SocketMoves
    <3>. HIDE DEF TypeOK
    <3>. QED  BY <1>0, <2>4 DEF SocketMoves, SocketInv
  <2>6. \A v \in Workers : LocalMove(v)
    BY <1>0, <2>1 DEF LocalMove
  <2>. QED  BY <2>1, <2>5, <2>6 DEF LocalStep
<1>24. ASSUME NEW w \in Workers, WriteAgain(w)  PROVE LocalStep
  BY <1>0, <1>24 DEF WriteAgain, LocalStep, LocalMove, SocketMoves, SocketInv
<1>25. ASSUME NEW w \in Workers, WriteError(w)  PROVE LocalStep
  <2>. DEFINE f == cfd[ptr[w]]  c == fdt[f]
  <2>1. /\ pc[w] = "write" /\ pc' = [pc EXCEPT ![w] = "rearm"]
        /\ UNCHANGED <<ptr, batch, newfd, fdt, reg, data, cfd, cache>>
    BY <1>25 DEF WriteError
  <2>2. c \in Conns /\ IsOpen(f)
    BY <1>0, <1>25, HandlerOpen DEF WriteError, HandlerPcs, IsOpen
  <2>3. /\ sock[c].err # "none"
        /\ sock' = [sock EXCEPT ![c] = ClearError(@)]
    BY <1>25, <2>2 DEF WriteError, WritesError, SockOf
  <2>4. sock'[c] = ClearError(sock[c]) /\ \A d \in Conns \ {c} : sock'[d] = sock[d]
    BY <1>0, <2>2, <2>3
  <2>5. sock[c].rst
    BY <1>0, <2>2, <2>3 DEF SocketInv
  <2>6. /\ ClearError(sock[c]).rst = sock[c].rst
        /\ ClearError(sock[c]).err = "none"
    BY <1>0, <2>2 DEF ClearError, Sockets
  <2>7. SocketMoves
    <3>. HIDE DEF TypeOK, c, f
    <3>. QED  BY <1>0, <2>4, <2>5, <2>6 DEF SocketMoves, SocketInv
  <2>8. \A v \in Workers : LocalMove(v)
    BY <1>0, <2>1 DEF LocalMove
  <2>. QED  BY <2>1, <2>7, <2>8 DEF LocalStep
<1>26. ASSUME NEW w \in Workers, WriteSigpipe(w)  PROVE LocalStep
  BY <1>0, <1>26 DEF WriteSigpipe, LocalStep, LocalMove, SocketMoves, SocketInv
<1>27. ASSUME NEW w \in Workers, RearmEpoll(w)  PROVE RearmStep(w)
  BY <1>0, <1>27 DEF RearmEpoll, RearmStep, Interest
<1>28. ASSUME NEW w \in Workers, Reset(w)  PROVE LocalStep
  BY <1>0, <1>28 DEF Reset, LocalStep, LocalMove, SocketMoves, SocketInv
<1>29. ASSUME NEW w \in Workers, Remove(w)  PROVE RemoveStep(w)
  <2>1. ptr[w] \in Cells /\ cfd[ptr[w]] \in FDs /\ data[cfd[ptr[w]]] = ptr[w]
    BY <1>0, <1>29, HandlerOpen DEF Remove, Live
  <2>. QED  BY <1>0, <1>29, <2>1 DEF Remove, RemoveStep
<1>30. ASSUME NEW w \in Workers, EpollDel(w)  PROVE DelStep(w)
  BY <1>0, <1>30 DEF EpollDel, DelStep, Inv, OwnershipInv, ClaimInv
<1>31. ASSUME NEW w \in Workers, CloseFd(w)  PROVE CloseStep(w)
  BY <1>0, <1>31 DEF CloseFd, CloseStep, Inv, OwnershipInv, ClaimInv, Claims, IsOpen
<1>32. ASSUME NEW w \in Workers, AssignFd(w)  PROVE AssignStep(w)
  BY <1>0, <1>32 DEF AssignFd, AssignStep
<1>33. CASE UNCHANGED vars
  BY <1>0, <1>33 DEF vars, LocalStep, LocalMove, SocketMoves, SocketInv
<1>. QED
  BY <1>1, <1>2, <1>3, <1>4, <1>5, <1>6, <1>7, <1>8, <1>9, <1>10, <1>11, <1>12,
     <1>13, <1>14, <1>15, <1>16, <1>17, <1>18, <1>19, <1>20, <1>21, <1>22, <1>23, <1>24,
     <1>25, <1>26, <1>27, <1>28, <1>29, <1>30, <1>31, <1>32, <1>33
  DEF Next, PeerStep, WorkerStep, Dispatch, AcceptConnections,
      HandleConnectionEvent, CloseConnection, OwnershipStep

-----------------------------------------------------------------------------
(* What the invariant says of one object.                                   *)

\* While an object has an event or a worker, its registration is not armed.
LEMMA HeldDisarmed ==
    ASSUME Inv, NEW w \in Workers, NEW p \in Cells,
           Working(w, p) \/ HasEvent(w, p),
           NEW f \in FDs, data[f] = p
    PROVE  reg[f].want = {}
BY DEF Inv, OwnershipInv, TokenInv, RegInv

\* A worker that works on an object, but for a pending reset(), is alone with it.
LEMMA SoleWorker ==
    ASSUME Inv, NEW w \in Workers, NEW p \in Cells, Working(w, p),
           NEW v \in Workers
    PROVE  /\ ~HasEvent(v, p)
           /\ v # w => ~Working(v, p) /\ ~Touches(v, p)
<1>1. ~HasEvent(v, p)
  BY DEF Inv, OwnershipInv, TokenInv
<1>2. \A u \in Workers : Working(u, p) => Touches(u, p)
  BY DEF Working, WorkingPcs, Touches, HandlerPcs
<1>3. Touches(v, p) => v = w
  BY <1>2 DEF Inv, OwnershipInv, ExclusiveAccess
<1>. QED  BY <1>1, <1>2, <1>3

\* A live object, and an object being closed, have a connection.
LEMMA HasConnection ==
    ASSUME Inv
    PROVE  /\ \A p : Live(p) => fdt[cfd[p]] \in Conns
           /\ \A w \in Workers :
                pc[w] \in {"del", "close"} =>
                    cfd[ptr[w]] \in FDs /\ fdt[cfd[ptr[w]]] \in Conns
<1>1. \A g \in FDs : fdt[g] # NoConn => fdt[g] \in Conns
  BY DEF Inv, TypeInv, TypeOK
<1>2. ASSUME NEW p, Live(p)  PROVE fdt[cfd[p]] \in Conns
  BY <1>1, <1>2, ConstantsAssumption DEF Inv, OwnershipInv, DataInv, Live
<1>3. ASSUME NEW w \in Workers, pc[w] \in {"del", "close"}
      PROVE  cfd[ptr[w]] \in FDs /\ fdt[cfd[ptr[w]]] \in Conns
  BY <1>1, <1>3 DEF Inv, OwnershipInv, ClaimInv, Claims
<1>. QED  BY <1>2, <1>3

\* After a local step a worker has what it had before, or nothing.
LEMMA LocalFrame ==
    ASSUME LocalStep, NEW v \in Workers, NEW p
    PROVE  /\ pc'[v] \in {"insert", "add", "reset"} \cup ClosePcs =>
                pc'[v] = pc[v] /\ ptr'[v] = ptr[v] /\ newfd'[v] = newfd[v]
           /\ pc'[v] \in {"read", "write", "rearm", "rearm_err"} =>
                /\ pc[v] \in {"read", "write", "rearm", "rearm_err"}
                /\ ptr'[v] = ptr[v]
           /\ batch'[v] \subseteq batch[v]
           /\ Working(v, p)' => Working(v, p)
           /\ Touches(v, p)' => Touches(v, p)
           /\ HasEvent(v, p)' => HasEvent(v, p)
<1>. USE DEF ClosePcs
<1>1. /\ pc'[v] \in {"insert", "add", "reset"} \cup ClosePcs =>
            pc'[v] = pc[v] /\ ptr'[v] = ptr[v] /\ newfd'[v] = newfd[v]
      /\ pc'[v] \in {"read", "write", "rearm", "rearm_err"} =>
            /\ pc[v] \in {"read", "write", "rearm", "rearm_err"}
            /\ ptr'[v] = ptr[v]
      /\ batch'[v] \subseteq batch[v]
  BY DEF LocalStep, LocalMove
<1>2. ASSUME Working(v, p)'  PROVE Working(v, p)
  <2>1. pc'[v] \in WorkingPcs /\ ptr'[v] = p
    BY <1>2 DEF Working
  <2>2. pc[v] \in WorkingPcs /\ ptr[v] = p
    BY <1>1, <2>1 DEF WorkingPcs
  <2>. QED  BY <2>2 DEF Working
<1>3. ASSUME Touches(v, p)'  PROVE Touches(v, p)
  <2>1. pc'[v] \in {"add"} \cup HandlerPcs \cup ClosePcs /\ ptr'[v] = p
    BY <1>3 DEF Touches
  <2>2. pc[v] \in {"add"} \cup HandlerPcs \cup ClosePcs /\ ptr[v] = p
    BY <1>1, <2>1 DEF HandlerPcs
  <2>. QED  BY <2>2 DEF Touches
<1>4. ASSUME HasEvent(v, p)'  PROVE HasEvent(v, p)
  BY <1>1, <1>4 DEF HasEvent
<1>. QED  BY <1>1, <1>2, <1>3, <1>4

\* The block a worker is about to be given is nobody's: a live object is mapped,
\* and a removed one is still in the cache of the worker that closes it.
LEMMA FreshBlock ==
    ASSUME Inv, NEW w \in Workers, pc[w] = "insert", NEW p \in Allocatable(w)
    PROVE  /\ p \in Cells /\ ~Live(p)
           /\ \A f \in FDs : reg[f].want # {} => reg[f].ptr # p
           /\ \A v \in Workers : ~Touches(v, p) /\ ~HasEvent(v, p)
<1>1. /\ p \in Cells /\ p # NoCell /\ \A f \in FDs : data[f] # p
      /\ cache[p] \in {NoWorker, w}
  BY ConstantsAssumption DEF Inv, Allocatable
<1>2. ~Live(p)
  BY <1>1 DEF Live
<1>3. \A f \in FDs : reg[f].want # {} => reg[f].ptr # p
  BY <1>1 DEF Inv, OwnershipInv, RegInv
<1>4. ASSUME NEW v \in Workers  PROVE ~HasEvent(v, p)
  BY <1>1, <1>2, ConstantsAssumption
  DEF Inv, OwnershipInv, EventInv, HasEvent
<1>5. ASSUME NEW v \in Workers, Touches(v, p)  PROVE FALSE
  <2>1. CASE pc[v] \in HandlerPcs \cup {"add", "remove"}
    BY <1>2, <1>5, <2>1 DEF Inv, OwnershipInv, HoldInv, Touches
  <2>2. CASE pc[v] \in {"del", "close", "assign"}
    <3>1. cache[p] = v
      BY <1>5, <2>2 DEF Inv, OwnershipInv, HoldInv, Touches
    <3>2. v # w
      BY <2>2
    <3>. QED  BY <1>1, <3>1, <3>2, ConstantsAssumption
  <2>. QED  BY <1>5, <2>1, <2>2 DEF Touches, ClosePcs
<1>. QED  BY <1>1, <1>2, <1>3, <1>4, <1>5

\* What epoll_wait() reports of a registration.
LEMMA ReportedEvents ==
    ASSUME Inv, NEW e \in ListenerEvents \cup ConnectionEvents,
           e.ptr # ServerData
    PROVE  \E f \in ReadyFds :
               /\ e = [ptr |-> reg[f].ptr, ev |-> ReadyEvents(f)]
               /\ e.ptr = reg[f].ptr /\ e.ev = ReadyEvents(f)
               /\ reg[f].want # {} /\ "RDHUP" \notin e.ev
               /\ "ERR" \in e.ev <=> SockOf(f).err # "none"
               /\ SockOf(f).rst => "HUP" \in e.ev
<1>1. e \in ConnectionEvents
  BY DEF ListenerEvents
<1>2. PICK f \in ReadyFds : e = [ptr |-> reg[f].ptr, ev |-> ReadyEvents(f)]
  BY <1>1 DEF ConnectionEvents
<1>3. f \in FDs /\ reg[f].want # {} /\ reg[f].on
  BY <1>2 DEF ReadyFds, ReadyEvents
<1>4. ReadyEvents(f) = PollMask(SockOf(f)) \cap (reg[f].want \cup {"ERR", "HUP"})
  BY <1>3 DEF ReadyEvents, SockOf
<1>5. reg[f].want \subseteq {"IN", "OUT"}
  BY <1>3 DEF Inv, OwnershipInv, RegInv
<1>6. /\ "ERR" \in PollMask(SockOf(f)) <=> SockOf(f).err # "none"
      /\ SockOf(f).rst => "HUP" \in PollMask(SockOf(f))
  BY DEF PollMask
<1>. QED  BY <1>2, <1>3, <1>4, <1>5, <1>6

-----------------------------------------------------------------------------
(* Each part is preserved by every effect.                                  *)

\* A mapped object and its descriptor keep to each other.
LEMMA DataNext ==
    ASSUME Inv, LocalStep \/ \E w \in Workers : OwnershipStep(w)
    PROVE  DataInv'
<1>. USE ConstantsAssumption
     DEF Inv, TypeInv, TypeOK, LocalsInv, OwnershipInv, DataInv, HoldInv, ClaimInv, Claims,
         Live, HandlerPcs, ClosePcs
<1>1. ASSUME LocalStep  PROVE DataInv'
  BY <1>1 DEF LocalStep, LocalMove
<1>2. ASSUME NEW w \in Workers, TakeStep(w)  PROVE DataInv'
  BY <1>2 DEF TakeStep
<1>3. ASSUME NEW w \in Workers, WaitStep(w)  PROVE DataInv'
  BY <1>3 DEF WaitStep
<1>4. ASSUME NEW w \in Workers, AcceptStep(w)  PROVE DataInv'
  <2>1. PICK c \in Conns, f \in FDs :
            /\ pc[w] = "accept" /\ fdt[f] = NoConn
            /\ fdt' = [fdt EXCEPT ![f] = c]
            /\ newfd' = [newfd EXCEPT ![w] = f]
            /\ pc' = [pc EXCEPT ![w] = "insert"]
            /\ UNCHANGED <<sock, reg, data, cfd, cache, batch, ptr>>
    BY <1>4 DEF AcceptStep
  <2>. QED  BY <2>1
<1>5. ASSUME NEW w \in Workers, InsertStep(w)  PROVE DataInv'
  BY <1>5 DEF InsertStep, Allocatable
<1>6. ASSUME NEW w \in Workers, AddStep(w)  PROVE DataInv'
  BY <1>6 DEF AddStep
<1>7. ASSUME NEW w \in Workers, RearmStep(w)  PROVE DataInv'
  BY <1>7 DEF RearmStep
<1>8. ASSUME NEW w \in Workers, RemoveStep(w)  PROVE DataInv'
  BY <1>8 DEF RemoveStep
<1>9. ASSUME NEW w \in Workers, DelStep(w)  PROVE DataInv'
  BY <1>9 DEF DelStep
<1>10. ASSUME NEW w \in Workers, CloseStep(w)  PROVE DataInv'
  BY <1>10 DEF CloseStep
<1>11. ASSUME NEW w \in Workers, AssignStep(w)  PROVE DataInv'
  BY <1>11 DEF AssignStep
<1>. QED
  BY <1>1, <1>2, <1>3, <1>4, <1>5, <1>6, <1>7, <1>8, <1>9, <1>10, <1>11 DEF OwnershipStep

\* Only the registration of a mapped object is armed.
LEMMA RegNext ==
    ASSUME Inv, LocalStep \/ \E w \in Workers : OwnershipStep(w)
    PROVE  RegInv'
<1>. USE ConstantsAssumption
     DEF Inv, TypeInv, TypeOK, LocalsInv, OwnershipInv, RegInv, DataInv, TokenInv,
         HoldInv, ClaimInv, Claims, Live, WorkingPcs, ClosePcs, Working, HandlerPcs
<1>1. ASSUME LocalStep  PROVE RegInv'
  BY <1>1 DEF LocalStep, LocalMove
<1>2. ASSUME NEW w \in Workers, TakeStep(w)  PROVE RegInv'
  BY <1>2 DEF TakeStep
<1>3. ASSUME NEW w \in Workers, WaitStep(w)  PROVE RegInv'
  BY <1>3 DEF WaitStep
<1>4. ASSUME NEW w \in Workers, AcceptStep(w)  PROVE RegInv'
  <2>1. UNCHANGED <<reg, data>>
    BY <1>4 DEF AcceptStep
  <2>2. ASSUME NEW g \in FDs, fdt[g] # NoConn  PROVE fdt'[g] # NoConn
    BY <1>4, <2>2 DEF AcceptStep
  <2>3. RegInv
    OBVIOUS
  <2>. HIDE DEF Inv, TypeInv, TypeOK, OwnershipInv
  <2>. QED  BY <2>1, <2>2, <2>3
<1>5. ASSUME NEW w \in Workers, InsertStep(w)  PROVE RegInv'
  BY <1>5 DEF InsertStep, Allocatable
<1>6. ASSUME NEW w \in Workers, AddStep(w)  PROVE RegInv'
  BY <1>6 DEF AddStep
<1>7. ASSUME NEW w \in Workers, RearmStep(w)  PROVE RegInv'
  <2>1. Live(ptr[w]) /\ UNCHANGED <<fdt, data>>
    BY <1>7 DEF RearmStep
  <2>2. CASE UNCHANGED reg
    BY <2>1, <2>2
  <2>3. ASSUME NEW m \in {{"IN"}, {"OUT"}},
               reg' = [reg EXCEPT ![cfd[ptr[w]]] =
                         [on |-> TRUE, want |-> m, ptr |-> ptr[w]]]
        PROVE  RegInv'
    BY <2>1, <2>3
  <2>. QED  BY <1>7, <2>2, <2>3 DEF RearmStep
<1>8. ASSUME NEW w \in Workers, RemoveStep(w)  PROVE RegInv'
  <2>1. Live(ptr[w]) /\ Working(w, ptr[w]) /\ RegInv
    BY <1>8 DEF RemoveStep
  <2>2. reg[cfd[ptr[w]]].want = {}
    <3>. HIDE DEF Inv, Working
    <3>. QED  BY <2>1, HeldDisarmed
  <2>3. \A g \in FDs : g # cfd[ptr[w]] => data'[g] = data[g]
    BY <1>8 DEF RemoveStep
  <2>4. UNCHANGED <<fdt, reg>>
    BY <1>8 DEF RemoveStep
  <2>. HIDE DEF Inv, TypeInv, TypeOK, OwnershipInv
  <2>. QED  BY <2>1, <2>2, <2>3, <2>4
<1>9. ASSUME NEW w \in Workers, DelStep(w)  PROVE RegInv'
  BY <1>9 DEF DelStep, NotRegistered
<1>10. ASSUME NEW w \in Workers, CloseStep(w)  PROVE RegInv'
  BY <1>10 DEF CloseStep, NotRegistered
<1>11. ASSUME NEW w \in Workers, AssignStep(w)  PROVE RegInv'
  BY <1>11 DEF AssignStep
<1>. QED
  BY <1>1, <1>2, <1>3, <1>4, <1>5, <1>6, <1>7, <1>8, <1>9, <1>10, <1>11 DEF OwnershipStep

\* Nobody takes an object, or its block, from a worker that holds it.
LEMMA HoldNext ==
    ASSUME Inv, LocalStep \/ \E w \in Workers : OwnershipStep(w)
    PROVE  HoldInv'
<1>. USE ConstantsAssumption
     DEF Inv, TypeInv, TypeOK, LocalsInv, OwnershipInv, DataInv, EventInv, HoldInv,
         ClaimInv, Claims, Live, HandlerPcs, ClosePcs, ExclusiveAccess, Touches
<1>1. ASSUME LocalStep  PROVE HoldInv'
  <2>1. UNCHANGED <<fdt, reg, data, cfd, cache>>
    BY <1>1 DEF LocalStep
  <2>2. ASSUME NEW v \in Workers
        PROVE  /\ pc'[v] \in HandlerPcs \cup {"add", "remove"} => Live(ptr'[v])
               /\ pc'[v] = "add" => data[newfd'[v]] = ptr'[v]
               /\ pc'[v] \in {"del", "close", "assign"} =>
                     cache[ptr'[v]] = v /\ \A f \in FDs : data[f] # ptr'[v]
    <3>1. CASE pc'[v] = pc[v] /\ ptr'[v] = ptr[v] /\ newfd'[v] = newfd[v]
      BY <2>2, <3>1
    <3>2. CASE pc'[v] \in {"loop", "accept"}
      BY <3>2
    <3>3. CASE /\ pc[v] \in {"read", "write"} /\ ptr'[v] = ptr[v]
               /\ pc'[v] \in {"write", "rearm", "rearm_err"}
      BY <2>2, <3>3
    <3>. QED  BY <1>1, <2>2, <3>1, <3>2, <3>3 DEF LocalStep, LocalMove
  <2>. QED  BY <2>1, <2>2
<1>2. ASSUME NEW w \in Workers, TakeStep(w)  PROVE HoldInv'
  BY <1>2 DEF TakeStep
<1>3. ASSUME NEW w \in Workers, WaitStep(w)  PROVE HoldInv'
  BY <1>3 DEF WaitStep
<1>4. ASSUME NEW w \in Workers, AcceptStep(w)  PROVE HoldInv'
  BY <1>4 DEF AcceptStep
<1>5. ASSUME NEW w \in Workers, InsertStep(w)  PROVE HoldInv'
  BY <1>5 DEF InsertStep, Allocatable
<1>6. ASSUME NEW w \in Workers, AddStep(w)  PROVE HoldInv'
  BY <1>6 DEF AddStep
<1>7. ASSUME NEW w \in Workers, RearmStep(w)  PROVE HoldInv'
  <2>1. UNCHANGED <<fdt, data, cfd, cache, newfd>>
    BY <1>7 DEF RearmStep
  <2>2. CASE pc[w] = "rearm"
    <3>1. /\ pc' = [pc EXCEPT ![w] = "loop"]
          /\ ptr' = [ptr EXCEPT ![w] = NoCell]
      BY <1>7, <2>2 DEF RearmStep
    <3>. QED  BY <2>1, <3>1
  <2>3. CASE pc[w] = "rearm_err"
    <3>1. pc' = [pc EXCEPT ![w] = "reset"] /\ UNCHANGED ptr
      BY <1>7, <2>3 DEF RearmStep
    <3>. QED  BY <2>1, <2>3, <3>1
  <2>. QED  BY <1>7, <2>2, <2>3 DEF RearmStep
<1>8. ASSUME NEW w \in Workers, RemoveStep(w)  PROVE HoldInv'
  <2>. DEFINE p == ptr[w]
  <2>1. /\ p \in Cells /\ Live(p) /\ Touches(w, p)
        /\ HoldInv /\ DataInv /\ ExclusiveAccess
    BY <1>8 DEF RemoveStep
  <2>2. /\ pc'[w] = "del" /\ cache'[p] = w
        /\ \A v \in Workers \ {w} : pc'[v] = pc[v]
        /\ \A q \in Cells \ {p} : cache'[q] = cache[q]
        /\ UNCHANGED <<cfd, ptr, newfd>>
    BY <1>8 DEF RemoveStep
  <2>3. /\ data'[cfd[p]] = NoCell
        /\ \A f \in FDs : f # cfd[p] => data'[f] = data[f]
    BY <1>8, <2>1 DEF RemoveStep
  <2>4. \A v \in Workers : pc[v] \in HandlerPcs \cup ClosePcs => ptr[v] \in Cells
    OBVIOUS
  <2>. HIDE DEF Inv, TypeInv, TypeOK, OwnershipInv, p
  <2>5. \A f \in FDs : data'[f] # p
    BY <2>1, <2>3
  <2>6. ASSUME NEW v \in Workers, v # w, Live(ptr[v]), ptr[v] # p
        PROVE  Live(ptr[v])'
    <3>1. ptr'[v] = ptr[v] /\ cfd' = cfd
      BY <2>2
    <3>2. cfd[ptr[v]] \in FDs /\ data[cfd[ptr[v]]] = ptr[v] /\ ptr[v] \in Cells
      BY <2>6
    <3>3. cfd[ptr[v]] # cfd[p]
      BY <2>1, <2>6, <3>2
    <3>4. data'[cfd[ptr[v]]] = ptr[v]
      BY <2>3, <3>2, <3>3
    <3>. QED  BY <3>1, <3>2, <3>4
  <2>7. ASSUME NEW v \in Workers, v # w
        PROVE  ptr[v] = p => pc[v] \notin {"add"} \cup HandlerPcs \cup ClosePcs
    BY <2>1, <2>7 DEF p
  <2>8. ASSUME NEW v \in Workers, v # w
        PROVE  /\ pc'[v] \in HandlerPcs \cup {"add", "remove"} => Live(ptr[v])'
               /\ pc'[v] = "add" => data'[newfd[v]] = ptr[v]
               /\ pc'[v] \in {"del", "close", "assign"} =>
                     cache'[ptr[v]] = v /\ \A f \in FDs : data'[f] # ptr[v]
    <3>1. /\ pc[v] \in HandlerPcs \cup {"add", "remove"} => Live(ptr[v])
          /\ pc[v] = "add" => data[newfd[v]] = ptr[v]
          /\ pc[v] \in {"del", "close", "assign"} =>
                cache[ptr[v]] = v /\ \A f \in FDs : data[f] # ptr[v]
      BY <2>1
    <3>. HIDE DEF Live, HoldInv
    <3>2. pc'[v] \in HandlerPcs \cup {"add", "remove"} => Live(ptr[v])'
      BY <2>2, <2>6, <2>7, <2>8, <3>1
    <3>3. ASSUME pc'[v] = "add"  PROVE data'[newfd[v]] = ptr[v]
      <4>1. Live(ptr[v]) /\ data[newfd[v]] = ptr[v] /\ ptr[v] # p
        BY <2>2, <2>7, <2>8, <3>1, <3>3
      <4>2. newfd[v] \in FDs
        BY <2>2, <2>8, <3>3 DEF Inv, TypeInv
      <4>. QED  BY <2>1, <2>3, <4>1, <4>2 DEF Live
    <3>4. ASSUME pc'[v] \in {"del", "close", "assign"}
          PROVE  cache'[ptr[v]] = v /\ \A f \in FDs : data'[f] # ptr[v]
      BY <2>1, <2>2, <2>3, <2>4, <2>7, <2>8, <3>1, <3>4
    <3>. QED  BY <3>2, <3>3, <3>4
  <2>9. pc'[w] = "del" /\ UNCHANGED <<ptr, newfd>>
    BY <2>2
  <2>. QED
    <3>. HIDE DEF Live
    <3>. QED  BY <2>2, <2>5, <2>8, <2>9 DEF p
<1>9. ASSUME NEW w \in Workers, DelStep(w)  PROVE HoldInv'
  BY <1>9 DEF DelStep
<1>10. ASSUME NEW w \in Workers, CloseStep(w)  PROVE HoldInv'
  BY <1>10 DEF CloseStep
<1>11. ASSUME NEW w \in Workers, AssignStep(w)  PROVE HoldInv'
  BY <1>11 DEF AssignStep
<1>. QED
  BY <1>1, <1>2, <1>3, <1>4, <1>5, <1>6, <1>7, <1>8, <1>9, <1>10, <1>11 DEF OwnershipStep

\* A descriptor outside data_ has one worker at most.
LEMMA ClaimNext ==
    ASSUME Inv, LocalStep \/ \E w \in Workers : OwnershipStep(w)
    PROVE  ClaimInv'
<1>. USE ConstantsAssumption
     DEF Inv, TypeInv, TypeOK, LocalsInv, OwnershipInv, DataInv, HoldInv, ClaimInv, Claims,
         Live, HandlerPcs, ClosePcs, ExclusiveAccess, Touches
<1>1. ASSUME LocalStep  PROVE ClaimInv'
  <2>1. UNCHANGED <<fdt, data, cfd>>
    BY <1>1 DEF LocalStep
  <2>2. ASSUME NEW v \in Workers
        PROVE  /\ pc'[v] \in {"del", "close"} => cfd[ptr'[v]] \in FDs
               /\ \A f : Claims(v, f)' => Claims(v, f)
    BY <1>1, <2>1, <2>2 DEF LocalStep, LocalMove
  <2>. HIDE DEF Claims
  <2>. QED  BY <2>1, <2>2
<1>2. ASSUME NEW w \in Workers, TakeStep(w)  PROVE ClaimInv'
  <2>1. UNCHANGED <<fdt, data, cfd, newfd>> /\ ClaimInv
    BY <1>2 DEF TakeStep
  <2>2. ASSUME NEW v \in Workers, pc'[v] \in {"insert", "del", "close"}
        PROVE  pc'[v] = pc[v] /\ ptr'[v] = ptr[v]
    BY <1>2, <2>2 DEF TakeStep
  <2>. HIDE DEF Inv, TypeInv, TypeOK, OwnershipInv
  <2>. QED  BY <2>1, <2>2
<1>3. ASSUME NEW w \in Workers, WaitStep(w)  PROVE ClaimInv'
  BY <1>3 DEF WaitStep
<1>4. ASSUME NEW w \in Workers, AcceptStep(w)  PROVE ClaimInv'
  BY <1>4 DEF AcceptStep
<1>5. ASSUME NEW w \in Workers, InsertStep(w)  PROVE ClaimInv'
  BY <1>5 DEF InsertStep, Allocatable
<1>6. ASSUME NEW w \in Workers, AddStep(w)  PROVE ClaimInv'
  BY <1>6 DEF AddStep
<1>7. ASSUME NEW w \in Workers, RearmStep(w)  PROVE ClaimInv'
  <2>1. UNCHANGED <<fdt, data, cfd, newfd>> /\ ClaimInv
    BY <1>7 DEF RearmStep
  <2>2. \A v \in Workers : pc'[v] \in {"insert", "del", "close"} =>
            pc'[v] = pc[v] /\ ptr'[v] = ptr[v]
    <3>1. \A v \in Workers \ {w} : pc'[v] = pc[v] /\ ptr'[v] = ptr[v]
      BY <1>7 DEF RearmStep
    <3>2. pc'[w] \in {"loop", "reset"}
      BY <1>7 DEF RearmStep
    <3>. QED  BY <3>1, <3>2
  <2>. HIDE DEF Inv, TypeInv, TypeOK, OwnershipInv
  <2>. QED  BY <2>1, <2>2
<1>8. ASSUME NEW w \in Workers, RemoveStep(w)  PROVE ClaimInv'
  BY <1>8 DEF RemoveStep
<1>9. ASSUME NEW w \in Workers, DelStep(w)  PROVE ClaimInv'
  BY <1>9 DEF DelStep
<1>10. ASSUME NEW w \in Workers, CloseStep(w)  PROVE ClaimInv'
  BY <1>10 DEF CloseStep
<1>11. ASSUME NEW w \in Workers, AssignStep(w)  PROVE ClaimInv'
  BY <1>11 DEF AssignStep
<1>. QED
  BY <1>1, <1>2, <1>3, <1>4, <1>5, <1>6, <1>7, <1>8, <1>9, <1>10, <1>11 DEF OwnershipStep

\* Only a reset gives a socket an error.
LEMMA SocketNext ==
    ASSUME Inv, LocalStep \/ \E w \in Workers : OwnershipStep(w)
    PROVE  SocketInv'
<1>. USE ConstantsAssumption
     DEF Inv, TypeInv, TypeOK, LocalsInv, OwnershipInv, SocketInv
<1>1. ASSUME LocalStep  PROVE SocketInv'
  BY <1>1 DEF LocalStep, LocalMove, SocketMoves
<1>2. ASSUME NEW w \in Workers, TakeStep(w)  PROVE SocketInv'
  BY <1>2 DEF TakeStep
<1>3. ASSUME NEW w \in Workers, WaitStep(w)  PROVE SocketInv'
  BY <1>3 DEF WaitStep
<1>4. ASSUME NEW w \in Workers, AcceptStep(w)  PROVE SocketInv'
  BY <1>4 DEF AcceptStep
<1>5. ASSUME NEW w \in Workers, InsertStep(w)  PROVE SocketInv'
  BY <1>5 DEF InsertStep
<1>6. ASSUME NEW w \in Workers, AddStep(w)  PROVE SocketInv'
  BY <1>6 DEF AddStep
<1>7. ASSUME NEW w \in Workers, RearmStep(w)  PROVE SocketInv'
  BY <1>7 DEF RearmStep
<1>8. ASSUME NEW w \in Workers, RemoveStep(w)  PROVE SocketInv'
  BY <1>8 DEF RemoveStep
<1>9. ASSUME NEW w \in Workers, DelStep(w)  PROVE SocketInv'
  BY <1>9 DEF DelStep
<1>10. ASSUME NEW w \in Workers, CloseStep(w)  PROVE SocketInv'
  BY <1>10 DEF CloseStep
<1>11. ASSUME NEW w \in Workers, AssignStep(w)  PROVE SocketInv'
  BY <1>11 DEF AssignStep
<1>. QED
  BY <1>1, <1>2, <1>3, <1>4, <1>5, <1>6, <1>7, <1>8, <1>9, <1>10, <1>11 DEF OwnershipStep

\* An object is armed, in one event, or in the hands of one worker.
LEMMA TokenNext ==
    ASSUME Inv, LocalStep \/ \E w \in Workers : OwnershipStep(w)
    PROVE  TokenInv'
<1>. USE DEF TokenInv
<1>0. TokenInv
  BY DEF Inv, OwnershipInv
<1>1. ASSUME LocalStep  PROVE TokenInv'
  <2>1. UNCHANGED reg
    BY <1>1 DEF LocalStep
  <2>2. ASSUME NEW v \in Workers, NEW q
        PROVE  /\ Working(v, q)' => Working(v, q)
               /\ HasEvent(v, q)' => HasEvent(v, q)
               /\ batch'[v] \subseteq batch[v]
    BY <1>1, LocalFrame
  <2>. QED  BY <1>0, <2>1, <2>2
<1>2. ASSUME NEW w \in Workers, TakeStep(w)  PROVE TokenInv'
  BY <1>0, <1>2
  DEF TakeStep, Inv, TypeInv, TypeOK, Working, WorkingPcs, ClosePcs, HasEvent
<1>3. ASSUME NEW w \in Workers, WaitStep(w)  PROVE TokenInv'
  <2>. DEFINE new == ListenerEvents \cup ConnectionEvents
  <2>1. /\ \A p : \A v \in Workers : Working(v, p)' <=> Working(v, p)
        /\ \A p : \A v \in Workers \ {w} : HasEvent(v, p)' <=> HasEvent(v, p)
        /\ \A p : HasEvent(w, p)' <=> \E e \in new : e.ptr = p
        /\ batch'[w] = new /\ \A v \in Workers \ {w} : batch'[v] = batch[v]
    BY <1>3 DEF WaitStep, Inv, TypeInv, TypeOK, Working, HasEvent
  <2>2. /\ \A f \in FDs : reg'[f].ptr = reg[f].ptr
        /\ \A f \in FDs : reg'[f].want # {} => f \notin ReadyFds /\ reg[f].want # {}
    BY <1>3 DEF WaitStep, Inv, TypeInv, TypeOK, Registrations
  <2>3. \A f, g \in FDs :
            reg[f].want # {} /\ reg[g].want # {} /\ reg[f].ptr = reg[g].ptr => f = g
    BY ConstantsAssumption DEF Inv, OwnershipInv, RegInv, DataInv
  <2>4. ASSUME NEW e \in new, e.ptr \in Cells
        PROVE  /\ \A v \in Workers : ~Working(v, e.ptr) /\ ~HasEvent(v, e.ptr)
               /\ \A f \in FDs : reg'[f].ptr = e.ptr => reg'[f].want = {}
               /\ \A d \in new : d.ptr = e.ptr => d = e
    <3>1. PICK f \in ReadyFds : /\ e = [ptr |-> reg[f].ptr, ev |-> ReadyEvents(f)]
                                /\ reg[f].want # {}
      BY <2>4, ReportedEvents, ConstantsAssumption
    <3>2. f \in FDs /\ e.ptr = reg[f].ptr
      BY <3>1 DEF ReadyFds
    <3>3. \A v \in Workers : ~Working(v, e.ptr) /\ ~HasEvent(v, e.ptr)
      BY <1>0, <2>4, <3>1, <3>2
    <3>4. \A g \in FDs : reg'[g].ptr = e.ptr => reg'[g].want = {}
      BY <2>2, <2>3, <3>1, <3>2
    <3>5. ASSUME NEW d \in new, d.ptr = e.ptr  PROVE d = e
      <4>1. PICK g \in ReadyFds : /\ d = [ptr |-> reg[g].ptr, ev |-> ReadyEvents(g)]
                                  /\ reg[g].want # {}
        BY <2>4, <3>5, ReportedEvents, ConstantsAssumption
      <4>. QED  BY <2>3, <3>1, <3>2, <3>5, <4>1 DEF ReadyFds
    <3>. QED  BY <3>3, <3>4, <3>5
  <2>. HIDE DEF new
  <2>. QED  BY <1>0, <2>1, <2>2, <2>4
<1>4. ASSUME NEW w \in Workers, AcceptStep(w)  PROVE TokenInv'
  BY <1>0, <1>4
  DEF AcceptStep, Inv, TypeInv, TypeOK, Working, WorkingPcs, ClosePcs, HasEvent
<1>5. ASSUME NEW w \in Workers, InsertStep(w)  PROVE TokenInv'
  <2>1. PICK p \in Allocatable(w) :
            /\ pc[w] = "insert"
            /\ ptr' = [ptr EXCEPT ![w] = p] /\ pc' = [pc EXCEPT ![w] = "add"]
            /\ UNCHANGED <<reg, batch>>
    BY <1>5 DEF InsertStep
  <2>2. /\ p \in Cells
        /\ \A f \in FDs : reg[f].want # {} => reg[f].ptr # p
        /\ \A v \in Workers : ~Touches(v, p) /\ ~HasEvent(v, p)
    BY <2>1, FreshBlock
  <2>3. \A q : \A v \in Workers : Working(v, q)' => q = p \/ Working(v, q)
    BY <2>1 DEF Inv, TypeInv, TypeOK, Working
  <2>4. \A q : \A v \in Workers : HasEvent(v, q)' <=> HasEvent(v, q)
    BY <2>1 DEF HasEvent
  <2>. QED  BY <1>0, <2>1, <2>2, <2>3, <2>4
<1>6. ASSUME NEW w \in Workers, AddStep(w)  PROVE TokenInv'
  <2>1. Working(w, ptr[w]) /\ ptr[w] \in Cells
    BY <1>6 DEF AddStep, Working, WorkingPcs, Inv, OwnershipInv, HoldInv, Live
  <2>2. /\ \A q : \A v \in Workers : Working(v, q)' => v # w /\ Working(v, q)
        /\ \A q : \A v \in Workers : HasEvent(v, q)' <=> HasEvent(v, q)
        /\ UNCHANGED batch
    BY <1>6 DEF AddStep, Inv, TypeInv, TypeOK, Working, WorkingPcs, ClosePcs, HasEvent
  <2>3. \A f \in FDs : reg'[f] = reg[f] \/ reg'[f].ptr = ptr[w]
    BY <1>6 DEF AddStep, Inv, TypeInv, TypeOK
  <2>. QED  BY <1>0, <2>1, <2>2, <2>3, SoleWorker
<1>7. ASSUME NEW w \in Workers, RearmStep(w)  PROVE TokenInv'
  <2>1. Working(w, ptr[w]) /\ ptr[w] \in Cells
    BY <1>7
    DEF RearmStep, Working, WorkingPcs, HandlerPcs, Inv, OwnershipInv, HoldInv, Live
  <2>2. /\ \A q : \A v \in Workers : Working(v, q)' => v # w /\ Working(v, q)
        /\ \A q : \A v \in Workers : HasEvent(v, q)' <=> HasEvent(v, q)
        /\ UNCHANGED batch
    BY <1>7 DEF RearmStep, Inv, TypeInv, TypeOK, Working, WorkingPcs, ClosePcs, HasEvent
  <2>3. \A f \in FDs : reg'[f] = reg[f] \/ reg'[f].ptr = ptr[w]
    BY <1>7 DEF RearmStep, Inv, TypeInv, TypeOK
  <2>. QED  BY <1>0, <2>1, <2>2, <2>3, SoleWorker
<1>. USE <1>0 DEF Inv, TypeInv, TypeOK, Working, WorkingPcs, ClosePcs, HasEvent
<1>8. ASSUME NEW w \in Workers, RemoveStep(w)  PROVE TokenInv'
  BY <1>8 DEF RemoveStep
<1>9. ASSUME NEW w \in Workers, DelStep(w)  PROVE TokenInv'
  BY <1>9 DEF DelStep, NotRegistered
<1>10. ASSUME NEW w \in Workers, CloseStep(w)  PROVE TokenInv'
  BY <1>10 DEF CloseStep, NotRegistered
<1>11. ASSUME NEW w \in Workers, AssignStep(w)  PROVE TokenInv'
  BY <1>11 DEF AssignStep
<1>. QED
  BY <1>1, <1>2, <1>3, <1>4, <1>5, <1>6, <1>7, <1>8, <1>9, <1>10, <1>11
  DEF OwnershipStep

\* An event outlives neither its object nor the reset it reports.
LEMMA EventNext ==
    ASSUME Inv, LocalStep \/ \E w \in Workers : OwnershipStep(w)
    PROVE  EventInv'
<1>. USE DEF EventInv, Live, SockOf
<1>0. EventInv
  BY DEF Inv, OwnershipInv
<1>1. ASSUME LocalStep  PROVE EventInv'
  <2>1. UNCHANGED <<fdt, data, cfd>> /\ \A v \in Workers : batch'[v] \subseteq batch[v]
    BY <1>1 DEF LocalStep, LocalMove
  <2>2. \A p : Live(p) => fdt[cfd[p]] \in Conns
    BY HasConnection
  <2>3. \A c \in Conns : sock[c].rst => sock'[c].rst
    BY <1>1 DEF LocalStep, SocketMoves
  <2>. QED  BY <1>0, <2>1, <2>2, <2>3
<1>2. ASSUME NEW w \in Workers, TakeStep(w)  PROVE EventInv'
  BY <1>0, <1>2 DEF TakeStep, Inv, TypeInv, TypeOK
<1>3. ASSUME NEW w \in Workers, WaitStep(w)  PROVE EventInv'
  <2>. DEFINE new == ListenerEvents \cup ConnectionEvents
  <2>1. /\ batch'[w] = new /\ \A v \in Workers \ {w} : batch'[v] = batch[v]
        /\ UNCHANGED <<sock, fdt, data, cfd>>
    BY <1>3 DEF WaitStep, Inv, TypeInv, TypeOK
  <2>2. ASSUME NEW e \in new, e.ptr # ServerData
        PROVE  /\ Live(e.ptr) /\ "RDHUP" \notin e.ev
               /\ "ERR" \in e.ev => SockOf(cfd[e.ptr]).rst
    <3>1. PICK f \in ReadyFds : /\ e.ptr = reg[f].ptr
                                /\ reg[f].want # {} /\ "RDHUP" \notin e.ev
                                /\ "ERR" \in e.ev => SockOf(f).err # "none"
      BY <2>2, ReportedEvents
    <3>2. f \in FDs
      BY DEF ReadyFds
    <3>3. e.ptr = reg[f].ptr
      BY <3>1
    <3>4. reg[f].ptr \in Cells /\ data[f] = reg[f].ptr
      BY <3>1, <3>2 DEF Inv, OwnershipInv, RegInv
    <3>5. cfd[e.ptr] = f
      BY <3>2, <3>3, <3>4, ConstantsAssumption DEF Inv, OwnershipInv, DataInv
    <3>6. Live(e.ptr)
      BY <3>2, <3>3, <3>4, <3>5
    <3>7. fdt[f] \in Conns
      BY <3>5, <3>6, HasConnection
    <3>8. SockOf(f).err # "none" => SockOf(f).rst
      BY <3>7 DEF Inv, OwnershipInv, SocketInv
    <3>. QED  BY <3>1, <3>5, <3>6, <3>8
  <2>. HIDE DEF new
  <2>. QED  BY <1>0, <2>1, <2>2
<1>4. ASSUME NEW w \in Workers, AcceptStep(w)  PROVE EventInv'
  <2>1. PICK c \in Conns, f \in FDs :
            /\ fdt[f] = NoConn /\ fdt' = [fdt EXCEPT ![f] = c]
            /\ UNCHANGED <<sock, data, cfd, batch>>
    BY <1>4 DEF AcceptStep
  <2>2. \A p : Live(p) => fdt'[cfd[p]] = fdt[cfd[p]]
    BY <2>1, HasConnection, ConstantsAssumption DEF Inv, TypeInv, TypeOK
  <2>. QED  BY <1>0, <2>1, <2>2
<1>5. ASSUME NEW w \in Workers, InsertStep(w)  PROVE EventInv'
  <2>1. PICK p \in Allocatable(w) :
            /\ pc[w] = "insert" /\ data[newfd[w]] = NoCell
            /\ data' = [data EXCEPT ![newfd[w]] = p]
            /\ cfd' = [cfd EXCEPT ![p] = newfd[w]]
            /\ UNCHANGED <<sock, fdt, batch>>
    BY <1>5 DEF InsertStep
  <2>2. \A q : Live(q) => q # p /\ cfd[q] # newfd[w]
    BY <2>1, FreshBlock, ConstantsAssumption
  <2>3. \A q : Live(q) => Live(q)' /\ cfd'[q] = cfd[q]
    BY <2>1, <2>2 DEF Inv, TypeInv, TypeOK
  <2>. QED  BY <1>0, <2>1, <2>3
<1>6. ASSUME NEW w \in Workers, AddStep(w)  PROVE EventInv'
  BY <1>0, <1>6 DEF AddStep
<1>7. ASSUME NEW w \in Workers, RearmStep(w)  PROVE EventInv'
  BY <1>0, <1>7 DEF RearmStep
<1>8. ASSUME NEW w \in Workers, RemoveStep(w)  PROVE EventInv'
  <2>1. Live(ptr[w]) /\ Working(w, ptr[w])
    BY <1>8
    DEF RemoveStep, Inv, OwnershipInv, HoldInv, Working, WorkingPcs, ClosePcs
  <2>2. \A v \in Workers : ~HasEvent(v, ptr[w])
    BY <2>1, SoleWorker
  <2>3. \A q : Live(q) /\ q # ptr[w] => Live(q)'
    BY <1>8, <2>1 DEF RemoveStep, Inv, TypeInv, TypeOK
  <2>. QED  BY <1>0, <1>8, <2>2, <2>3 DEF RemoveStep, HasEvent
<1>9. ASSUME NEW w \in Workers, DelStep(w)  PROVE EventInv'
  BY <1>0, <1>9 DEF DelStep
<1>10. ASSUME NEW w \in Workers, CloseStep(w)  PROVE EventInv'
  <2>1. cfd[ptr[w]] \in FDs /\ data[cfd[ptr[w]]] = NoCell
    BY <1>10 DEF CloseStep, Inv, OwnershipInv, ClaimInv, Claims
  <2>2. \A q : Live(q) => fdt'[cfd[q]] = fdt[cfd[q]]
    BY <1>10, <2>1, ConstantsAssumption DEF CloseStep, Inv, TypeInv, TypeOK
  <2>. QED  BY <1>0, <1>10, <2>2 DEF CloseStep
<1>11. ASSUME NEW w \in Workers, AssignStep(w)  PROVE EventInv'
  <2>1. \A q : Live(q) => q # ptr[w]
    BY <1>11 DEF AssignStep, Inv, OwnershipInv, HoldInv
  <2>2. \A q : Live(q) => Live(q)' /\ cfd'[q] = cfd[q]
    BY <1>11, <2>1 DEF AssignStep, Inv, TypeInv, TypeOK
  <2>. QED  BY <1>0, <1>11, <2>2 DEF AssignStep
<1>. QED
  BY <1>1, <1>2, <1>3, <1>4, <1>5, <1>6, <1>7, <1>8, <1>9, <1>10, <1>11
  DEF OwnershipStep

\* A worker that closes has an open descriptor.
LEMMA CloserOpen ==
    ASSUME Inv, NEW v \in Workers, pc[v] \in {"remove", "del", "close"}
    PROVE  cfd[ptr[v]] \in FDs /\ fdt[cfd[ptr[v]]] \in Conns
<1>1. CASE pc[v] = "remove"
  BY <1>1, HasConnection DEF Inv, OwnershipInv, HoldInv, Live
<1>2. CASE pc[v] \in {"del", "close"}
  BY <1>2, HasConnection
<1>. QED  BY <1>1, <1>2

\* A worker closes reset connections.
LEMMA CloseNext ==
    ASSUME Inv, LocalStep \/ \E w \in Workers : OwnershipStep(w)
    PROVE  CloseInv'
<1>. USE DEF CloseInv, SockOf
<1>. DEFINE Closers == {"remove", "del", "close"}
<1>0. CloseInv
  BY DEF Inv, OwnershipInv
<1>1. ASSUME LocalStep  PROVE CloseInv'
  <2>1. UNCHANGED <<fdt, cfd>> /\ \A c \in Conns : sock[c].rst => sock'[c].rst
    BY <1>1 DEF LocalStep, SocketMoves
  <2>2. ASSUME NEW v \in Workers, pc'[v] \in Closers
        PROVE  pc'[v] = pc[v] /\ ptr'[v] = ptr[v]
    BY <1>1, <2>2 DEF LocalStep, LocalMove
  <2>. QED  BY <1>0, <2>1, <2>2, CloserOpen
<1>2. ASSUME NEW w \in Workers, TakeStep(w)  PROVE CloseInv'
  <2>1. EventInv
    BY DEF Inv, OwnershipInv
  <2>2. PICK e \in batch[w] :
            /\ ptr' = [ptr EXCEPT ![w] = e.ptr]
            /\ \/ pc' = [pc EXCEPT ![w] = "remove"] /\ "ERR" \in e.ev
               \/ pc' = [pc EXCEPT ![w] = "read"]
               \/ pc' = [pc EXCEPT ![w] = "write"]
            /\ e.ptr \in Cells /\ UNCHANGED <<sock, fdt, cfd>>
    BY <1>2 DEF TakeStep
  <2>3. "ERR" \in e.ev => SockOf(cfd[e.ptr]).rst
    BY <2>1, <2>2, ConstantsAssumption DEF EventInv
  <2>4. pc'[w] \in Closers => "ERR" \in e.ev
    BY <2>2 DEF Inv, TypeInv, TypeOK
  <2>5. ASSUME NEW v \in Workers \ {w}  PROVE pc'[v] = pc[v] /\ ptr'[v] = ptr[v]
    <3>1. CASE pc' = [pc EXCEPT ![w] = "remove"]
      BY <2>2, <3>1 DEF Inv, TypeInv, TypeOK
    <3>2. CASE pc' = [pc EXCEPT ![w] = "read"]
      BY <2>2, <3>2 DEF Inv, TypeInv, TypeOK
    <3>3. CASE pc' = [pc EXCEPT ![w] = "write"]
      BY <2>2, <3>3 DEF Inv, TypeInv, TypeOK
    <3>. QED  BY <2>2, <3>1, <3>2, <3>3
  <2>6. ptr'[w] = e.ptr
    BY <2>2 DEF Inv, TypeInv, TypeOK
  <2>. QED  BY <1>0, <2>2, <2>3, <2>4, <2>5, <2>6
<1>3. ASSUME NEW w \in Workers, WaitStep(w)  PROVE CloseInv'
  BY <1>0, <1>3 DEF WaitStep
<1>4. ASSUME NEW w \in Workers, AcceptStep(w)  PROVE CloseInv'
  <2>1. PICK c \in Conns, f \in FDs :
            /\ fdt[f] = NoConn /\ fdt' = [fdt EXCEPT ![f] = c]
            /\ pc' = [pc EXCEPT ![w] = "insert"]
            /\ UNCHANGED <<sock, cfd, ptr>>
    BY <1>4 DEF AcceptStep
  <2>2. \A v \in Workers : pc'[v] \in Closers => pc'[v] = pc[v]
    BY <2>1 DEF Inv, TypeInv, TypeOK
  <2>3. \A v \in Workers :
            pc[v] \in Closers => fdt'[cfd[ptr[v]]] = fdt[cfd[ptr[v]]]
    BY <2>1, CloserOpen, ConstantsAssumption DEF Inv, TypeInv, TypeOK
  <2>. QED  BY <1>0, <2>1, <2>2, <2>3
<1>5. ASSUME NEW w \in Workers, InsertStep(w)  PROVE CloseInv'
  <2>1. PICK p \in Allocatable(w) :
            /\ pc[w] = "insert"
            /\ cfd' = [cfd EXCEPT ![p] = newfd[w]]
            /\ ptr' = [ptr EXCEPT ![w] = p] /\ pc' = [pc EXCEPT ![w] = "add"]
            /\ UNCHANGED <<sock, fdt>>
    BY <1>5 DEF InsertStep
  <2>2. \A v \in Workers : pc'[v] \in Closers =>
            v # w /\ pc'[v] = pc[v] /\ ptr'[v] = ptr[v]
    BY <2>1 DEF Inv, TypeInv, TypeOK
  <2>3. \A v \in Workers : pc[v] \in Closers => ptr[v] # p
    BY <2>1, FreshBlock DEF Touches, ClosePcs
  <2>4. \A q : q # p => cfd'[q] = cfd[q]
    BY <2>1 DEF Inv, TypeInv, TypeOK
  <2>. QED  BY <1>0, <2>1, <2>2, <2>3, <2>4
<1>6. ASSUME NEW w \in Workers, AddStep(w)  PROVE CloseInv'
  BY <1>0, <1>6 DEF AddStep, Inv, TypeInv, TypeOK
<1>7. ASSUME NEW w \in Workers, RearmStep(w)  PROVE CloseInv'
  <2>1. \A v \in Workers : pc'[v] \in Closers => pc'[v] = pc[v] /\ ptr'[v] = ptr[v]
    BY <1>7 DEF RearmStep, Inv, TypeInv, TypeOK
  <2>. QED  BY <1>0, <1>7, <2>1 DEF RearmStep
<1>8. ASSUME NEW w \in Workers, RemoveStep(w)  PROVE CloseInv'
  BY <1>0, <1>8 DEF RemoveStep, Inv, TypeInv, TypeOK
<1>9. ASSUME NEW w \in Workers, DelStep(w)  PROVE CloseInv'
  BY <1>0, <1>9 DEF DelStep, Inv, TypeInv, TypeOK
<1>10. ASSUME NEW w \in Workers, CloseStep(w)  PROVE CloseInv'
  <2>. DEFINE f == cfd[ptr[w]]
  <2>1. \A v \in Workers : pc'[v] \in Closers =>
            v # w /\ pc'[v] = pc[v]
    BY <1>10 DEF CloseStep, Inv, TypeInv, TypeOK
  <2>2. f \in FDs /\ Claims(w, f) /\ data[f] = NoCell
    BY <1>10 DEF CloseStep, Inv, OwnershipInv, ClaimInv, Claims
  <2>3. ASSUME NEW v \in Workers \ {w}, pc[v] \in Closers  PROVE cfd[ptr[v]] # f
    <3>1. CASE pc[v] = "remove"
      BY <2>2, <3>1, ConstantsAssumption DEF Inv, OwnershipInv, HoldInv, Live
    <3>2. CASE pc[v] \in {"del", "close"}
      <4>1. \A u \in Workers : Claims(u, f) => u = w
        BY <2>2 DEF Inv, OwnershipInv, ClaimInv
      <4>. QED  BY <3>2, <4>1 DEF Claims
    <3>. QED  BY <2>3, <3>1, <3>2
  <2>4. \A g : g # f => fdt'[g] = fdt[g]
    BY <1>10 DEF CloseStep, Inv, TypeInv, TypeOK
  <2>5. UNCHANGED <<sock, cfd, ptr>>
    BY <1>10 DEF CloseStep
  <2>. HIDE DEF f
  <2>. QED  BY <1>0, <2>1, <2>3, <2>4, <2>5
<1>11. ASSUME NEW w \in Workers, AssignStep(w)  PROVE CloseInv'
  <2>1. \A v \in Workers : pc'[v] \in Closers =>
            v # w /\ pc'[v] = pc[v] /\ ptr'[v] = ptr[v]
    BY <1>11 DEF AssignStep, Inv, TypeInv, TypeOK
  <2>2. Working(w, ptr[w]) /\ ptr[w] \in Cells
    BY <1>11
    DEF AssignStep, Working, WorkingPcs, ClosePcs, Inv, TypeInv, LocalsInv
  <2>3. \A v \in Workers \ {w} : pc[v] \in Closers => ptr[v] # ptr[w]
    BY <2>2, SoleWorker DEF Working, WorkingPcs, ClosePcs
  <2>4. \A q : q # ptr[w] => cfd'[q] = cfd[q]
    BY <1>11 DEF AssignStep, Inv, TypeInv, TypeOK
  <2>5. UNCHANGED <<sock, fdt>>
    BY <1>11 DEF AssignStep
  <2>. QED  BY <1>0, <2>1, <2>3, <2>4, <2>5
<1>. QED
  BY <1>1, <1>2, <1>3, <1>4, <1>5, <1>6, <1>7, <1>8, <1>9, <1>10, <1>11
  DEF OwnershipStep

\* Nobody joins a worker that uses an object.
LEMMA ExclusiveNext ==
    ASSUME Inv, LocalStep \/ \E w \in Workers : OwnershipStep(w)
    PROVE  ExclusiveAccess'
<1>. USE DEF ExclusiveAccess
<1>0. ExclusiveAccess
  BY DEF Inv, OwnershipInv
<1>1. ASSUME LocalStep  PROVE ExclusiveAccess'
  <2>1. ASSUME NEW v \in Workers, NEW p  PROVE Touches(v, p)' => Touches(v, p)
    BY <1>1, LocalFrame
  <2>. QED  BY <1>0, <2>1
<1>2. ASSUME NEW w \in Workers, TakeStep(w)  PROVE ExclusiveAccess'
  <2>1. PICK e \in batch[w] :
            /\ ptr' = [ptr EXCEPT ![w] = e.ptr]
            /\ \/ pc' = [pc EXCEPT ![w] = "remove"] /\ "ERR" \in e.ev
               \/ pc' = [pc EXCEPT ![w] = "read"] /\ "HUP" \notin e.ev
               \/ pc' = [pc EXCEPT ![w] = "write"] /\ "HUP" \notin e.ev
            /\ e.ptr \in Cells
    BY <1>2 DEF TakeStep
  <2>2. ASSUME NEW v \in Workers \ {w}  PROVE pc'[v] = pc[v] /\ ptr'[v] = ptr[v]
    <3>1. CASE pc' = [pc EXCEPT ![w] = "remove"]
      BY <2>1, <3>1 DEF Inv, TypeInv, TypeOK
    <3>2. CASE pc' = [pc EXCEPT ![w] = "read"]
      BY <2>1, <3>2 DEF Inv, TypeInv, TypeOK
    <3>3. CASE pc' = [pc EXCEPT ![w] = "write"]
      BY <2>1, <3>3 DEF Inv, TypeInv, TypeOK
    <3>. QED  BY <2>1, <3>1, <3>2, <3>3
  <2>3. ptr'[w] = e.ptr
    BY <2>1 DEF Inv, TypeInv, TypeOK
  <2>4. ASSUME NEW v \in Workers, Touches(v, e.ptr)  PROVE FALSE
    <3>1. ~Working(v, e.ptr)
      BY <2>1 DEF Inv, OwnershipInv, TokenInv, HasEvent
    <3>2. pc[v] = "reset" /\ ptr[v] = e.ptr
      BY <2>4, <3>1 DEF Touches, Working, WorkingPcs, HandlerPcs
    <3>3. "HUP" \in e.ev /\ "ERR" \notin e.ev
      BY <3>2 DEF Inv, OwnershipInv, ResetInv
    <3>. QED  BY <2>1, <3>3
  <2>. QED  BY <1>0, <2>2, <2>3, <2>4 DEF Touches
<1>5. ASSUME NEW w \in Workers, InsertStep(w)  PROVE ExclusiveAccess'
  <2>1. PICK p \in Allocatable(w) :
            /\ pc[w] = "insert"
            /\ ptr' = [ptr EXCEPT ![w] = p] /\ pc' = [pc EXCEPT ![w] = "add"]
    BY <1>5 DEF InsertStep
  <2>2. \A v \in Workers : ~Touches(v, p)
    BY <2>1, FreshBlock
  <2>3. \A v \in Workers \ {w} : pc'[v] = pc[v] /\ ptr'[v] = ptr[v]
    BY <2>1
  <2>4. ptr'[w] = p
    BY <2>1 DEF Inv, TypeInv, TypeOK
  <2>. QED  BY <1>0, <2>2, <2>3, <2>4 DEF Touches
<1>. USE <1>0 DEF Inv, TypeInv, TypeOK, Touches, HandlerPcs, ClosePcs
<1>3. ASSUME NEW w \in Workers, WaitStep(w)  PROVE ExclusiveAccess'
  BY <1>3 DEF WaitStep
<1>4. ASSUME NEW w \in Workers, AcceptStep(w)  PROVE ExclusiveAccess'
  BY <1>4 DEF AcceptStep
<1>6. ASSUME NEW w \in Workers, AddStep(w)  PROVE ExclusiveAccess'
  BY <1>6 DEF AddStep
<1>7. ASSUME NEW w \in Workers, RearmStep(w)  PROVE ExclusiveAccess'
  <2>1. CASE pc' = [pc EXCEPT ![w] = "loop"]
    <3>1. pc'[w] = "loop" /\ ptr' = [ptr EXCEPT ![w] = NoCell]
      BY <1>7, <2>1 DEF RearmStep
    <3>. QED  BY <2>1, <3>1
  <2>2. CASE /\ pc[w] = "rearm_err" /\ pc' = [pc EXCEPT ![w] = "reset"]
             /\ UNCHANGED ptr
    BY <2>2
  <2>. QED  BY <1>7, <2>1, <2>2 DEF RearmStep
<1>8. ASSUME NEW w \in Workers, RemoveStep(w)  PROVE ExclusiveAccess'
  BY <1>8 DEF RemoveStep
<1>9. ASSUME NEW w \in Workers, DelStep(w)  PROVE ExclusiveAccess'
  BY <1>9 DEF DelStep
<1>10. ASSUME NEW w \in Workers, CloseStep(w)  PROVE ExclusiveAccess'
  BY <1>10 DEF CloseStep
<1>11. ASSUME NEW w \in Workers, AssignStep(w)  PROVE ExclusiveAccess'
  BY <1>11 DEF AssignStep
<1>. QED
  BY <1>1, <1>2, <1>3, <1>4, <1>5, <1>6, <1>7, <1>8, <1>9, <1>10, <1>11
  DEF OwnershipStep

\* A worker that is about to reset its object, and the events that may meet it.
LEMMA ResetNext ==
    ASSUME Inv, LocalStep \/ \E w \in Workers : OwnershipStep(w)
    PROVE  ResetInv'
<1>. USE DEF ResetInv, SockOf
<1>. DEFINE Resetters == {"rearm_err", "reset"}
<1>0. ResetInv
  BY DEF Inv, OwnershipInv
<1>a. ASSUME NEW v \in Workers, pc[v] \in Resetters
      PROVE  ptr[v] \in Cells /\ Live(ptr[v]) /\ fdt[cfd[ptr[v]]] \in Conns
  BY <1>a, HandlerOpen, HasConnection DEF HandlerPcs
<1>1. ASSUME LocalStep  PROVE ResetInv'
  <2>1. UNCHANGED <<fdt, cfd>> /\ SocketMoves
    BY <1>1 DEF LocalStep
  <2>2. ASSUME NEW v \in Workers, pc'[v] = "rearm_err"
        PROVE  /\ SockOf(cfd[ptr[v]])'.rst
               /\ SockOf(cfd[ptr[v]])'.err = "none"
    <3>1. CASE pc'[v] = pc[v] /\ ptr'[v] = ptr[v]
      BY <1>0, <1>a, <2>1, <2>2, <3>1 DEF SocketMoves
    <3>2. CASE pc'[v] # pc[v]
      BY <1>1, <2>1, <2>2, <3>2 DEF LocalStep, LocalMove
    <3>3. ptr'[v] = ptr[v]
      BY <1>1, <2>2 DEF LocalStep, LocalMove
    <3>. QED  BY <3>1, <3>2, <3>3
  <2>3. ASSUME NEW v \in Workers, pc'[v] = "reset"
        PROVE  pc[v] = "reset" /\ ptr'[v] = ptr[v]
    BY <2>3, <1>1 DEF LocalStep, LocalMove
  <2>4. \A v \in Workers : batch'[v] \subseteq batch[v]
    BY <1>1 DEF LocalStep, LocalMove
  <2>5. ASSUME NEW v \in Workers, pc'[v] \in Resetters
        PROVE  /\ SockOf(cfd[ptr[v]])'.rst
               /\ SockOf(cfd[ptr[v]])'.err = "none"
    BY <1>0, <1>a, <2>1, <2>2, <2>3, <2>5 DEF SocketMoves
  <2>6. ASSUME NEW v \in Workers, pc'[v] = "reset", NEW u \in Workers,
               NEW e \in batch'[u], e.ptr = ptr'[v]
        PROVE  "HUP" \in e.ev /\ "ERR" \notin e.ev
    BY <1>0, <2>3, <2>4, <2>6
  <2>. QED  BY <2>1, <2>2, <2>5, <2>6
<1>b. ASSUME NEW v \in Workers, pc'[v] \in Resetters,
             pc'[v] = pc[v], ptr'[v] = ptr[v],
             fdt'[cfd'[ptr[v]]] = fdt[cfd[ptr[v]]], UNCHANGED sock
      PROVE  SockOf(cfd[ptr[v]])'.rst /\ SockOf(cfd[ptr[v]])'.err = "none"
  BY <1>0, <1>b
<1>2. ASSUME NEW w \in Workers, TakeStep(w)  PROVE ResetInv'
  <2>1. PICK e \in batch[w] :
            /\ ptr' = [ptr EXCEPT ![w] = e.ptr]
            /\ \/ pc' = [pc EXCEPT ![w] = "remove"]
               \/ pc' = [pc EXCEPT ![w] = "read"]
               \/ pc' = [pc EXCEPT ![w] = "write"]
            /\ batch' = [batch EXCEPT ![w] = @ \ {e}]
            /\ UNCHANGED <<sock, fdt, cfd>>
    BY <1>2 DEF TakeStep
  <2>2. ASSUME NEW v \in Workers, pc'[v] \in Resetters
        PROVE  pc'[v] = pc[v] /\ ptr'[v] = ptr[v]
    <3>1. CASE v = w
      BY <2>1, <2>2, <3>1 DEF Inv, TypeInv, TypeOK
    <3>2. CASE v # w
      BY <2>1, <3>2 DEF Inv, TypeInv, TypeOK
    <3>. QED  BY <3>1, <3>2
  <2>3. \A v \in Workers : batch'[v] \subseteq batch[v]
    BY <2>1 DEF Inv, TypeInv, TypeOK
  <2>. QED  BY <1>0, <2>1, <2>2, <2>3
<1>3. ASSUME NEW w \in Workers, WaitStep(w)  PROVE ResetInv'
  <2>1. UNCHANGED <<sock, fdt, cfd, pc, ptr>>
    BY <1>3 DEF WaitStep
  <2>2. ASSUME NEW v \in Workers, pc[v] = "reset",
               NEW e \in ListenerEvents \cup ConnectionEvents, e.ptr = ptr[v]
        PROVE  "HUP" \in e.ev /\ "ERR" \notin e.ev
    <3>1. ptr[v] \in Cells /\ Live(ptr[v])
      BY <1>a, <2>2
    <3>2. PICK f \in ReadyFds :
              /\ e.ptr = reg[f].ptr /\ reg[f].want # {}
              /\ "ERR" \in e.ev <=> SockOf(f).err # "none"
              /\ SockOf(f).rst => "HUP" \in e.ev
      BY <2>2, <3>1, ReportedEvents, ConstantsAssumption
    <3>3. f \in FDs /\ data[f] = ptr[v]
      BY <2>2, <3>2 DEF Inv, OwnershipInv, RegInv, ReadyFds
    <3>4. cfd[ptr[v]] = f
      BY <3>1, <3>3, ConstantsAssumption DEF Inv, OwnershipInv, DataInv
    <3>5. SockOf(f).rst /\ SockOf(f).err = "none"
      BY <1>0, <2>2, <3>4
    <3>. QED  BY <3>2, <3>5
  <2>3. \A u \in Workers : \/ batch'[u] = batch[u]
                           \/ batch'[u] = ListenerEvents \cup ConnectionEvents
    BY <1>3 DEF WaitStep, Inv, TypeInv, TypeOK
  <2>4. ASSUME NEW v \in Workers, pc'[v] = "reset", NEW u \in Workers,
               NEW e \in batch'[u], e.ptr = ptr'[v]
        PROVE  "HUP" \in e.ev /\ "ERR" \notin e.ev
    BY <1>0, <2>1, <2>2, <2>3, <2>4
  <2>. QED  BY <1>0, <2>1, <2>4
<1>4. ASSUME NEW w \in Workers, AcceptStep(w)  PROVE ResetInv'
  <2>1. PICK c \in Conns, f \in FDs :
            /\ fdt[f] = NoConn /\ fdt' = [fdt EXCEPT ![f] = c]
            /\ pc' = [pc EXCEPT ![w] = "insert"]
            /\ UNCHANGED <<sock, cfd, ptr, batch>>
    BY <1>4 DEF AcceptStep
  <2>2. \A v \in Workers : pc'[v] \in Resetters => pc'[v] = pc[v]
    BY <2>1 DEF Inv, TypeInv, TypeOK
  <2>3. \A v \in Workers :
            pc[v] \in Resetters => fdt'[cfd[ptr[v]]] = fdt[cfd[ptr[v]]]
    BY <2>1, <1>a, ConstantsAssumption DEF Inv, TypeInv, TypeOK
  <2>. QED  BY <1>0, <2>1, <2>2, <2>3
<1>5. ASSUME NEW w \in Workers, InsertStep(w)  PROVE ResetInv'
  <2>1. PICK p \in Allocatable(w) :
            /\ pc[w] = "insert"
            /\ cfd' = [cfd EXCEPT ![p] = newfd[w]]
            /\ ptr' = [ptr EXCEPT ![w] = p] /\ pc' = [pc EXCEPT ![w] = "add"]
            /\ UNCHANGED <<sock, fdt, batch>>
    BY <1>5 DEF InsertStep
  <2>2. \A v \in Workers : pc'[v] \in Resetters =>
            pc'[v] = pc[v] /\ ptr'[v] = ptr[v]
    BY <2>1 DEF Inv, TypeInv, TypeOK
  <2>3. \A v \in Workers : pc[v] \in Resetters => ptr[v] # p
    BY <2>1, <1>a, FreshBlock
  <2>4. \A q : q # p => cfd'[q] = cfd[q]
    BY <2>1 DEF Inv, TypeInv, TypeOK
  <2>. QED  BY <1>0, <2>1, <2>2, <2>3, <2>4
<1>6. ASSUME NEW w \in Workers, AddStep(w)  PROVE ResetInv'
  BY <1>0, <1>6 DEF AddStep, Inv, TypeInv, TypeOK
<1>7. ASSUME NEW w \in Workers, RearmStep(w)  PROVE ResetInv'
  <2>1. UNCHANGED <<sock, fdt, cfd, batch>>
    BY <1>7 DEF RearmStep
  <2>2. CASE pc' = [pc EXCEPT ![w] = "loop"]
    <3>1. \A v \in Workers : pc'[v] \in Resetters =>
              pc'[v] = pc[v] /\ ptr'[v] = ptr[v]
      BY <1>7, <2>2 DEF RearmStep, Inv, TypeInv, TypeOK
    <3>. QED  BY <1>0, <2>1, <3>1
  <2>3. CASE /\ pc[w] = "rearm_err" /\ pc' = [pc EXCEPT ![w] = "reset"]
             /\ UNCHANGED ptr
    <3>1. Working(w, ptr[w]) /\ ptr[w] \in Cells
      BY <1>a, <2>3 DEF Working, WorkingPcs
    <3>2. \A u \in Workers : ~HasEvent(u, ptr[w])
      BY <3>1, SoleWorker
    <3>3. \A v \in Workers : pc'[v] \in Resetters =>
              pc[v] \in Resetters /\ (pc'[v] = "reset" => v = w \/ pc[v] = "reset")
      BY <2>3 DEF Inv, TypeInv, TypeOK
    <3>. QED  BY <1>0, <2>1, <2>3, <3>2, <3>3 DEF HasEvent
  <2>. QED  BY <1>7, <2>2, <2>3 DEF RearmStep
<1>8. ASSUME NEW w \in Workers, RemoveStep(w)  PROVE ResetInv'
  BY <1>0, <1>8 DEF RemoveStep, Inv, TypeInv, TypeOK
<1>9. ASSUME NEW w \in Workers, DelStep(w)  PROVE ResetInv'
  BY <1>0, <1>9 DEF DelStep, Inv, TypeInv, TypeOK
<1>10. ASSUME NEW w \in Workers, CloseStep(w)  PROVE ResetInv'
  <2>. DEFINE f == cfd[ptr[w]]
  <2>1. \A v \in Workers : pc'[v] \in Resetters => pc'[v] = pc[v]
    BY <1>10 DEF CloseStep, Inv, TypeInv, TypeOK
  <2>2. data[f] = NoCell
    BY <1>10 DEF CloseStep, Inv, OwnershipInv, ClaimInv, Claims
  <2>3. \A v \in Workers : pc[v] \in Resetters => cfd[ptr[v]] # f
    BY <1>a, <2>2, ConstantsAssumption DEF Live
  <2>4. \A g : g # f => fdt'[g] = fdt[g]
    BY <1>10 DEF CloseStep, Inv, TypeInv, TypeOK
  <2>5. UNCHANGED <<sock, cfd, ptr, batch>>
    BY <1>10 DEF CloseStep
  <2>. HIDE DEF f
  <2>. QED  BY <1>0, <2>1, <2>3, <2>4, <2>5
<1>11. ASSUME NEW w \in Workers, AssignStep(w)  PROVE ResetInv'
  <2>1. \A v \in Workers : pc'[v] \in Resetters =>
            v # w /\ pc'[v] = pc[v] /\ ptr'[v] = ptr[v]
    BY <1>11 DEF AssignStep, Inv, TypeInv, TypeOK
  <2>2. \A v \in Workers : pc[v] \in Resetters => ptr[v] # ptr[w]
    <3>1. pc[w] = "assign" /\ \A g \in FDs : data[g] # ptr[w]
      BY <1>11 DEF AssignStep, Inv, OwnershipInv, HoldInv
    <3>. QED  BY <1>a, <3>1 DEF Live
  <2>3. \A q : q # ptr[w] => cfd'[q] = cfd[q]
    BY <1>11 DEF AssignStep, Inv, TypeInv, TypeOK
  <2>4. UNCHANGED <<sock, fdt, batch>>
    BY <1>11 DEF AssignStep
  <2>. QED  BY <1>0, <2>1, <2>2, <2>3, <2>4
<1>. QED
  BY <1>1, <1>2, <1>3, <1>4, <1>5, <1>6, <1>7, <1>8, <1>9, <1>10, <1>11
  DEF OwnershipStep

-----------------------------------------------------------------------------
(* The invariant, and what follows from it.                                 *)

\* When no connection exists, nothing is owned.
LEMMA OwnershipInit == Init => OwnershipInv
BY ConstantsAssumption
   DEF Init, OwnershipInv, SocketInv, DataInv, RegInv, TokenInv, EventInv,
       HoldInv, ClaimInv, Claims, CloseInv, ResetInv, ExclusiveAccess, Touches,
       Working, WorkingPcs, HandlerPcs, ClosePcs, HasEvent, NotRegistered,
       FreshSocket

\* Every step of a worker or of a peer keeps the invariant.
LEMMA InvNext == Inv /\ [Next]_vars => Inv'
<1>. SUFFICES ASSUME Inv, [Next]_vars  PROVE Inv'
  OBVIOUS
<1>1. LocalStep \/ \E w \in Workers : OwnershipStep(w)
  BY Effects
<1>2. TypeInv'
  BY TypeNext DEF Inv
<1>3. SocketInv' /\ DataInv' /\ RegInv' /\ TokenInv' /\ EventInv'
  BY <1>1, SocketNext, DataNext, RegNext, TokenNext, EventNext
<1>4. HoldInv' /\ ClaimInv' /\ CloseInv' /\ ResetInv' /\ ExclusiveAccess'
  BY <1>1, HoldNext, ClaimNext, CloseNext, ResetNext, ExclusiveNext
<1>. QED  BY <1>2, <1>3, <1>4 DEF Inv, OwnershipInv

\* All the parts hold together in every reachable state.
LEMMA InvHolds ==
    ASSUME ~SharedHeap
    PROVE  Spec => []Inv
<1>1. Init => Inv
  BY OwnershipInit, TypeInit DEF Inv
<1>. QED  BY <1>1, InvNext, PTL DEF Spec

\* Who holds what (lines 217-241, 296-381): with such an allocator the parts of
\* OwnershipInv hold in every state, an armed registration, an event and a worker
\* excluding each other for every object.
THEOREM ObjectsAreOwned ==
    ASSUME ~SharedHeap
    PROVE  Spec => []OwnershipInv
<1>1. Inv => OwnershipInv
  BY DEF Inv
<1>. QED  BY <1>1, InvHolds, PTL

\* Lines 145-146 and 296-381: if the allocator keeps freed blocks with the thread
\* that freed them, no two workers ever use one ConnectionData at a time, for any
\* number of threads, connections and descriptors.
THEOREM ExclusiveObjects ==
    ASSUME ~SharedHeap
    PROVE  Spec => []ExclusiveAccess
<1>1. Inv => ExclusiveAccess
  BY DEF Inv, OwnershipInv
<1>. QED  BY <1>1, InvHolds, PTL

\* Lines 217-241 and 372-381: every pointer epoll hands out, and every one a
\* worker has been handed, is to the object that data_ maps its descriptor to.
THEOREM NoDangling ==
    ASSUME ~SharedHeap
    PROVE  Spec => []NoDanglingEvent
<1>1. Inv => NoDanglingEvent
  <2>. SUFFICES ASSUME Inv  PROVE NoDanglingEvent
    OBVIOUS
  <2>1. ASSUME NEW f \in FDs, reg[f].want # {}
        PROVE  reg[f].ptr \in Cells /\ data[f] = reg[f].ptr /\ cfd[reg[f].ptr] = f
    BY <2>1, ConstantsAssumption DEF Inv, OwnershipInv, RegInv, DataInv
  <2>2. ASSUME NEW w \in Workers, NEW e \in batch[w], e.ptr # ServerData
        PROVE  e.ptr \in Cells /\ \E f \in FDs : data[f] = e.ptr /\ cfd[e.ptr] = f
    BY <2>2 DEF Inv, OwnershipInv, EventInv, Live
  <2>. QED  BY <2>1, <2>2 DEF NoDanglingEvent
<1>. QED  BY <1>1, InvHolds, PTL

\* Lines 372-381: closeConnection() only ever closes a descriptor whose connection
\* was reset, never a number that has been recycled meanwhile.
THEOREM ClosesOnlyResetConnections ==
    ASSUME ~SharedHeap
    PROVE  Spec => ClosesOnlyReset
<1>. DEFINE Closing ==
        \A c \in Conns : st[c] = "open" /\ st'[c] = "closed" => sock[c].rst
<1>1. Inv /\ [Next]_vars => [Closing]_vars
  <2>. SUFFICES ASSUME Inv, Next  PROVE Closing
    OBVIOUS
  <2>1. ASSUME NEW c \in Conns, PeerStep(c)  PROVE Closing
    BY <2>1 DEF PeerStep, Connect, PeerSend, PeerRead, PeerFin, PeerReset,
                Inv, TypeInv, TypeOK
  <2>2. ASSUME NEW w \in Workers, EpollWait(w) \/ EpollWaitFails(w)
        PROVE  Closing
    BY <2>2 DEF EpollWait, EpollWaitFails, kernelVars
  <2>3. ASSUME NEW w \in Workers, Dispatch(w)  PROVE Closing
    BY <2>3 DEF Dispatch, DispatchListener, DispatchClose, DispatchHangup,
                DispatchHandler, DispatchNull, kernelVars
  <2>4. ASSUME NEW w \in Workers, AcceptConnections(w)  PROVE Closing
    BY <2>4 DEF AcceptConnections, AcceptNone, AcceptConn, InsertNew,
                InsertCollides, EpollAdd, EpollAddFails, kernelVars,
                Inv, TypeInv, TypeOK
  <2>5. ASSUME NEW w \in Workers, HandleConnectionEvent(w)  PROVE Closing
    BY <2>5 DEF HandleConnectionEvent, ReadData, ReadEof, ReadAgain, ReadError,
                WriteData, WriteAgain, WriteError, WriteSigpipe, RearmEpoll,
                Reset, kernelVars
  <2>6. ASSUME NEW w \in Workers, Remove(w) \/ EpollDel(w) \/ AssignFd(w)
        PROVE  Closing
    BY <2>6 DEF Remove, EpollDel, AssignFd, kernelVars
  <2>7. ASSUME NEW w \in Workers, CloseFd(w)  PROVE Closing
    <3>1. pc[w] = "close" /\ SockOf(cfd[ptr[w]]).rst
      BY <2>7 DEF CloseFd, At, Inv, OwnershipInv, CloseInv
    <3>2. \A c \in Conns : c # fdt[cfd[ptr[w]]] => st'[c] = st[c]
      BY <2>7 DEF CloseFd, Inv, TypeInv, TypeOK
    <3>. QED  BY <3>1, <3>2 DEF SockOf
  <2>. QED
    BY <2>1, <2>2, <2>3, <2>4, <2>5, <2>6, <2>7
    DEF Next, WorkerStep, CloseConnection
<1>. QED  BY <1>1, InvHolds, PTL DEF Spec, ClosesOnlyReset

=============================================================================
