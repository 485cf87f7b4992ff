------------------------ MODULE MultiWorkerServerEcho ------------------------
(***************************************************************************)
(* What clients see of MultiWorkerServer, for every number of workers,        *)
(* connections, descriptors and bytes, when the allocator keeps freed blocks *)
(* with the thread that freed them: the echo is exact, no connection loses    *)
(* its events, and the server implements the echo service.                   *)
(***************************************************************************)
EXTENDS MultiWorkerServerProofs

-----------------------------------------------------------------------------
(* The bytes of a connection.                                               *)

\* Buffer b, of which the first i bytes are written, has what was read of c.
BufFlow(c, b, i, s) ==
    /\ Runs(b, c, 0) /\ i <= Len(b)
    /\ Runs(s.rq, c, Len(b)) /\ s.sent = Len(b) + Len(s.rq)
    /\ Len(s.out) = i

\* A connection that has been reset and read to its end.
Dead(s) == s.rst /\ s.rq = << >>

\* A descriptor is that of an open connection, and the only one.
OpenInv ==
    /\ \A f \in FDs : fdt[f] # NoConn => st[fdt[f]] = "open"
    /\ \A f, g \in FDs : fdt[f] = fdt[g] /\ fdt[f] # NoConn => f = g

\* No byte of a connection is read before its object is made.
NewInv ==
    /\ \A c \in Conns : st[c] \in {"idle", "queued"} => BufFlow(c, << >>, 0, sock[c])
    /\ \A w \in Workers :
        pc[w] = "insert" => BufFlow(fdt[newfd[w]], << >>, 0, SockOf(newfd[w]))

\* An object's buffer is that of its connection, until reset() forgets it.
DataFlow ==
    \A f \in FDs : data[f] # NoCell =>
        \/ BufFlow(fdt[f], buf[data[f]], wix[data[f]], SockOf(f))
        \/ Dead(SockOf(f))

\* read() failed, so that the queue is empty.
ErrorInv ==
    \A w \in Workers :
        pc[w] \in {"rearm_err", "reset"} => SockOf(cfd[ptr[w]]).rq = << >>

OutInv == \A c \in Conns : Runs(sock[c].out, c, 0)

FlowInv == OpenInv /\ NewInv /\ DataFlow /\ ErrorInv /\ OutInv /\ ReadsOneBuffer

-----------------------------------------------------------------------------
(* A handler is only called when there is something to do.                  *)

Unwritten(p) == wix[p] < Len(buf[p])

\* There is something to read, or the connection is ended, or something to write.
Something(p) ==
    LET s == SockOf(cfd[p]) IN s.rq # << >> \/ s.fin \/ s.rst \/ Unwritten(p)

WorkInv ==
    /\ \A w \in Workers :
        /\ pc[w] = "read" => Something(ptr[w])
        /\ pc[w] = "write" => Unwritten(ptr[w])
        /\ pc[w] = "rearm" /\ ~arm[w] =>
              Unwritten(ptr[w]) \/ SockOf(cfd[ptr[w]]).rst
        /\ \A e \in batch[w] : e.ptr # ServerData => Something(e.ptr)
    /\ \A f \in FDs : "OUT" \in reg[f].want => Unwritten(reg[f].ptr) \/ SockOf(f).rst

\* A worker that reads or writes has not taken the socket's error yet.
ResetUnseen(s) == s.rst => s.err # "none"

SignalInv ==
    /\ \A c \in Conns : sock[c].err = "EPIPE" => sock[c].fin /\ sock[c].rst
    /\ \A w \in Workers :
        /\ pc[w] \in {"read", "write"} => ResetUnseen(SockOf(cfd[ptr[w]]))
        /\ \A e \in batch[w] :
            e.ptr # ServerData /\ "HUP" \notin e.ev => ResetUnseen(SockOf(cfd[e.ptr]))
    /\ SigpipeNeedsFin

-----------------------------------------------------------------------------
(* A registration that is not armed has somebody to arm it.                 *)

LostInv ==
    /\ \A f \in FDs : reg[f].on =>
        (reg[f].ptr \in Cells /\ data[f] = reg[f].ptr) \/ SockOf(f).rst
    /\ \A w \in Workers :
        /\ pc[w] \in {"insert", "add"} => ~reg[newfd[w]].on
        /\ \A e \in batch[w] :
            e.ptr # ServerData /\ "HUP" \in e.ev => SockOf(cfd[e.ptr]).rst
    /\ NoLostConnection

EchoInv == FlowInv /\ WorkInv /\ SignalInv /\ LostInv

-----------------------------------------------------------------------------
(* What a step does to the bytes, and to a worker.                          *)

\* The steps that change a socket, a buffer or a table; the others move workers and
\* registrations alone.
LEMMA ByteSteps ==
    ASSUME Inv, [Next]_vars
    PROVE  \/ \E c \in Conns : PeerStep(c)
           \/ \E w \in Workers :
                \/ ReadData(w) \/ ReadError(w) \/ WriteData(w) \/ WriteError(w) \/ Reset(w)
                \/ AcceptConn(w) \/ InsertNew(w) \/ Remove(w) \/ CloseFd(w)
           \/ UNCHANGED <<st, sock, fdt, data, buf, wix>>
<1> USE DEF kernelVars, cellVars, heapVars, workerVars
<1>1. CASE UNCHANGED vars
  BY <1>1 DEF vars
<1>2. ASSUME NEW w \in Workers, EpollWait(w) \/ EpollWaitFails(w) \/ Dispatch(w)
      PROVE  UNCHANGED <<st, sock, fdt, data, buf, wix>>
  BY <1>2 DEF EpollWait, EpollWaitFails, Dispatch, DispatchListener, DispatchClose,
              DispatchHangup, DispatchHandler, DispatchNull
<1>3. ASSUME NEW w \in Workers, InsertCollides(w) PROVE FALSE
  BY <1>3 DEF InsertCollides, At, Inv, OwnershipInv, ClaimInv, Claims, TypeInv, LocalsInv
<1>4. ASSUME NEW w \in Workers,
             \/ AcceptNone(w) \/ EpollAdd(w) \/ EpollAddFails(w)
             \/ ReadEof(w) \/ ReadAgain(w) \/ WriteAgain(w) \/ WriteSigpipe(w) \/ RearmEpoll(w)
             \/ EpollDel(w) \/ AssignFd(w)
      PROVE  UNCHANGED <<st, sock, fdt, data, buf, wix>>
  BY <1>4 DEF AcceptNone, EpollAdd, EpollAddFails, ReadEof, ReadAgain, WriteAgain, WriteSigpipe,
              RearmEpoll, EpollDel, AssignFd
<1> QED  BY <1>1, <1>2, <1>3, <1>4
         DEF Next, WorkerStep, AcceptConnections, HandleConnectionEvent, CloseConnection

\* A live object has a descriptor and a connection.
LEMMA LiveObject ==
    ASSUME Inv, NEW p, Live(p)
    PROVE  p \in Cells /\ cfd[p] \in FDs /\ \E c \in Conns : c = fdt[cfd[p]]
BY HasConnection DEF Live

\* A live object keeps its descriptor, and the descriptor its connection.
LEMMA LiveKeeps ==
    ASSUME Inv, [Next]_vars, NEW p, Live(p)
    PROVE  cfd'[p] = cfd[p] /\ fdt'[cfd[p]] = fdt[cfd[p]]
<1> USE ConstantsAssumption DEF Inv, TypeInv, TypeOK
<1>1. p \in Cells /\ cfd[p] \in FDs /\ data[cfd[p]] = p /\ fdt[cfd[p]] # NoConn
  BY DEF Live, OwnershipInv, DataInv
<1>2. LocalStep \/ \E w \in Workers : OwnershipStep(w)
  BY Effects
<1>3. ASSUME NEW w \in Workers, InsertStep(w) PROVE cfd'[p] = cfd[p] /\ UNCHANGED fdt
  BY <1>1, <1>3, FreshBlock DEF InsertStep
<1>4. ASSUME NEW w \in Workers, AssignStep(w) PROVE cfd'[p] = cfd[p] /\ UNCHANGED fdt
  <2>1. \A f \in FDs : data[f] # ptr[w]
    BY <1>4 DEF AssignStep, OwnershipInv, HoldInv
  <2> QED  BY <1>1, <1>4, <2>1 DEF AssignStep
<1>5. ASSUME NEW w \in Workers, AcceptStep(w) PROVE UNCHANGED cfd /\ fdt'[cfd[p]] = fdt[cfd[p]]
  BY <1>1, <1>5 DEF AcceptStep
<1>6. ASSUME NEW w \in Workers, CloseStep(w) PROVE UNCHANGED cfd /\ fdt'[cfd[p]] = fdt[cfd[p]]
  <2>1. data[cfd[ptr[w]]] = NoCell
    BY <1>6 DEF CloseStep, OwnershipInv, ClaimInv, Claims
  <2> QED  BY <1>1, <1>6, <2>1 DEF CloseStep
<1>7. ASSUME NEW w \in Workers,
             \/ TakeStep(w) \/ WaitStep(w) \/ AddStep(w) \/ RearmStep(w)
             \/ RemoveStep(w) \/ DelStep(w)
      PROVE  UNCHANGED <<cfd, fdt>>
  BY <1>7 DEF TakeStep, WaitStep, AddStep, RearmStep, RemoveStep, DelStep
<1>8. CASE LocalStep
  BY <1>8 DEF LocalStep
<1> QED  BY <1>2, <1>3, <1>4, <1>5, <1>6, <1>7, <1>8 DEF OwnershipStep

\* What the peer of connection c may do to its socket.
PeerMoves(c) ==
    /\ ~sock[c].rst
    /\ sock'[c] \in {RecvByte(sock[c], c), RecvFin(sock[c]), RecvRst(sock[c]), PeerConsume(sock[c])}

SameBlock(p) == buf'[p] = buf[p] /\ wix'[p] = wix[p]

\* What the worker at object p may do to it and to its connection c.
Reads(p, c) ==
    /\ ReadsData(sock[c], ReadCount(p))
    /\ sock'[c] = AfterRead(sock[c], ReadCount(p))
    /\ buf'[p] = buf[p] \o ReadBytes(sock[c], ReadCount(p)) /\ wix'[p] = wix[p]

Writes(p, c) ==
    /\ WritesData(sock[c], Len(Pending(p)))
    /\ sock'[c] = AfterWrite(sock[c], Pending(p))
    /\ buf'[p] = buf[p] /\ wix'[p] = wix[p] + WriteLen(sock[c], Len(Pending(p)))

Clears(p, c) ==
    /\ sock[c].err # "none" /\ sock'[c] = ClearError(sock[c]) /\ SameBlock(p)

Forgets(p, c) == sock'[c] = sock[c] /\ buf'[p] = << >> /\ wix'[p] = 0

\* Worker w handles its object p.
Handles(w, p, c) ==
    /\ ptr[w] = p
    /\ \/ pc[w] = "read" /\ UNCHANGED <<pc, ptr>> /\ Reads(p, c)
       \/ pc[w] = "read" /\ pc'[w] = "rearm_err" /\ sock[c].rq = << >> /\ Clears(p, c)
       \/ pc[w] = "write" /\ pc'[w] = "write" /\ Writes(p, c) /\ wix'[p] < Len(buf'[p])
       \/ pc[w] = "write" /\ pc'[w] = "rearm" /\ arm'[w] /\ Writes(p, c)
       \/ pc[w] = "write" /\ pc'[w] = "rearm" /\ arm'[w] /\ Clears(p, c)
       \/ pc[w] = "reset" /\ pc'[w] = "loop" /\ Forgets(p, c)

LEMMA HandlerSteps ==
    ASSUME Inv, NEW w \in Workers,
           ReadData(w) \/ ReadError(w) \/ WriteData(w) \/ WriteError(w) \/ Reset(w),
           NEW c \in Conns, c = fdt[cfd[ptr[w]]]
    PROVE  /\ Handles(w, ptr[w], c)
           /\ \A d \in Conns : d # c => sock'[d] = sock[d]
           /\ \A p \in Cells : p # ptr[w] => SameBlock(p)
           /\ UNCHANGED <<st, fdt, data, cfd>>
<1> USE DEF Inv, TypeInv, TypeOK, At, SameBlock, heapVars, kernelVars, workerVars, cellVars
<1> DEFINE p == ptr[w]
           b == Pending(p)
<1>1. p \in Cells /\ IsOpen(cfd[p]) /\ SockOf(cfd[p]) = sock[c]
  BY HandlerOpen DEF ReadData, ReadError, WriteData, WriteError, Reset, HandlerPcs, SockOf
<1>2. CASE ReadData(w)
  BY <1>1, <1>2 DEF ReadData, Handles, Reads
<1>3. CASE ReadError(w)
  BY <1>1, <1>3 DEF ReadError, ReadsError, Handles, Clears
<1>4. CASE WriteData(w)
  <2> DEFINE n == WriteLen(sock[c], Len(b))
  <2>1. /\ pc[w] = "write" /\ WritesData(sock[c], Len(b))
        /\ sock' = [sock EXCEPT ![c] = AfterWrite(sock[c], b)]
        /\ wix' = [wix EXCEPT ![p] = wix[p] + n]
        /\ arm' = [arm EXCEPT ![w] = TRUE]
        /\ pc' = [pc EXCEPT ![w] = IF wix[p] + n >= Len(buf[p]) THEN "rearm" ELSE "write"]
        /\ UNCHANGED <<st, fdt, data, cfd, buf, ptr>>
    BY <1>1, <1>4 DEF WriteData
  <2>2. n \in Int /\ wix[p] \in Nat /\ Len(buf[p]) \in Nat
    <3>1. n \in Int
      BY SndBufAssumption, PendingTypes, <1>1 DEF WriteLen, Smaller, SendRoom, Sockets
    <3>2. wix[p] \in Nat /\ Len(buf[p]) \in Nat
      BY <1>1
    <3> QED  BY <3>1, <3>2
  <2> HIDE DEF n
  <2>3. /\ sock'[c] = AfterWrite(sock[c], b) /\ wix'[p] = wix[p] + n /\ buf'[p] = buf[p]
        /\ \A d \in Conns : d # c => sock'[d] = sock[d]
        /\ \A q \in Cells : q # p => SameBlock(q)
    BY <1>1, <2>1
  <2>4. /\ arm'[w]
        /\ pc'[w] = "rearm" \/ (pc'[w] = "write" /\ wix'[p] < Len(buf'[p]))
    <3>1. CASE wix[p] + n >= Len(buf[p])
      BY <2>1, <3>1
    <3>2. CASE ~(wix[p] + n >= Len(buf[p]))
      <4>1. pc'[w] = "write" /\ arm'[w]
        BY <2>1, <3>2
      <4>2. wix'[p] < Len(buf'[p])
        BY <2>2, <2>3, <3>2
      <4> QED  BY <4>1, <4>2
    <3> QED  BY <3>1, <3>2
  <2>5. Writes(p, c)
    BY <2>1, <2>3 DEF Writes, n
  <2> QED  BY <2>1, <2>3, <2>4, <2>5 DEF Handles
<1>5. CASE WriteError(w)
  BY <1>1, <1>5 DEF WriteError, WritesError, Handles, Clears
<1>6. CASE Reset(w)
  BY <1>1, <1>6 DEF Reset, Handles, Forgets
<1> QED  BY <1>2, <1>3, <1>4, <1>5, <1>6

\* What a step does to a live object p and its connection c.
LEMMA ObjectStep ==
    ASSUME Inv, OpenInv, [Next]_vars, NEW p \in Cells, Live(p),
           NEW c \in Conns, c = fdt[cfd[p]]
    PROVE  /\ cfd'[p] = cfd[p] /\ fdt'[cfd[p]] = c
           /\ \/ sock'[c] = sock[c] /\ SameBlock(p)
              \/ PeerMoves(c) /\ SameBlock(p)
              \/ \E w \in Workers : Handles(w, p, c)
<1> USE DEF Inv, TypeInv, TypeOK, SameBlock
<1>1. cfd'[p] = cfd[p] /\ fdt'[cfd[p]] = c
  BY LiveKeeps
<1>2. ASSUME NEW d \in Conns, PeerStep(d)
      PROVE  (sock'[c] = sock[c] \/ PeerMoves(c)) /\ SameBlock(p)
  BY <1>2 DEF PeerStep, Connect, PeerSend, PeerRead, PeerFin, PeerReset, PeerMoves, cellVars
<1>3. ASSUME NEW w \in Workers,
             ReadData(w) \/ ReadError(w) \/ WriteData(w) \/ WriteError(w) \/ Reset(w)
      PROVE  (sock'[c] = sock[c] /\ SameBlock(p)) \/ Handles(w, p, c)
  <2>1. ptr[w] \in Cells /\ Live(ptr[w]) /\ IsOpen(cfd[ptr[w]])
    BY <1>3, HandlerOpen DEF ReadData, ReadError, WriteData, WriteError, Reset, At, HandlerPcs
  <2>2. PICK d \in Conns : d = fdt[cfd[ptr[w]]]
    BY <2>1 DEF IsOpen
  <2>3. ptr[w] # p => d # c
    BY <2>1, <2>2, ConstantsAssumption DEF OpenInv, Live, IsOpen
  <2>4. /\ Handles(w, ptr[w], d)
        /\ \A e \in Conns : e # d => sock'[e] = sock[e]
        /\ \A q \in Cells : q # ptr[w] => SameBlock(q)
    BY <1>3, <2>2, HandlerSteps
  <2>5. CASE ptr[w] = p
    BY <2>2, <2>4, <2>5
  <2>6. CASE ptr[w] # p
    BY <2>3, <2>4, <2>6
  <2> QED  BY <2>5, <2>6
<1>4. ASSUME NEW w \in Workers, InsertNew(w) PROVE sock'[c] = sock[c] /\ SameBlock(p)
  <2>1. PICK q \in Allocatable(w) : Construct(q, newfd[w])
    BY <1>4 DEF InsertNew
  <2>2. q # p
    BY <1>4, <2>1, FreshBlock DEF InsertNew, At
  <2> QED  BY <1>4, <2>1, <2>2 DEF InsertNew, Construct, kernelVars
<1>5. ASSUME NEW w \in Workers, AcceptConn(w) \/ Remove(w) \/ CloseFd(w)
      PROVE  sock'[c] = sock[c] /\ SameBlock(p)
  BY <1>5 DEF AcceptConn, Remove, CloseFd, kernelVars, cellVars
<1>6. ASSUME UNCHANGED <<st, sock, fdt, data, buf, wix>>
      PROVE  sock'[c] = sock[c] /\ SameBlock(p)
  BY <1>6
<1> QED  BY <1>1, <1>2, <1>3, <1>4, <1>5, <1>6, ByteSteps

\* Which steps bring worker v where it is after the step.
Moves(v) ==
    /\ pc'[v] = "insert" =>
          \/ pc[v] = "insert" /\ newfd'[v] = newfd[v]
          \/ AcceptConn(v)
    /\ pc'[v] = "add" =>
          \/ pc[v] = "add" /\ newfd'[v] = newfd[v] /\ ptr'[v] = ptr[v]
          \/ InsertNew(v)
    /\ pc'[v] = "read" =>
          \/ pc[v] = "read" /\ ptr'[v] = ptr[v]
          \/ DispatchHandler(v)
    /\ pc'[v] = "write" =>
          \/ pc[v] = "write" /\ ptr'[v] = ptr[v]
          \/ ReadAgain(v) /\ ptr'[v] = ptr[v]
          \/ DispatchHandler(v)
    /\ pc'[v] = "rearm" =>
          \/ pc[v] = "rearm" /\ ptr'[v] = ptr[v] /\ arm'[v] = arm[v]
          \/ WriteAgain(v) /\ ptr'[v] = ptr[v]
          \/ pc[v] = "write" /\ ptr'[v] = ptr[v] /\ arm'[v]
    /\ pc'[v] = "rearm_err" =>
          \/ pc[v] = "rearm_err" /\ ptr'[v] = ptr[v]
          \/ ReadError(v) /\ ptr'[v] = ptr[v]
    /\ pc'[v] = "reset" => pc[v] \in {"rearm_err", "reset"} /\ ptr'[v] = ptr[v]
    /\ batch'[v] \subseteq batch[v] \/ EpollWait(v)

LEMMA WorkerMoves ==
    ASSUME Inv, [Next]_vars, NEW v \in Workers
    PROVE  Moves(v)
<1> USE DEF Inv, TypeInv, TypeOK, Moves, At, kernelVars, cellVars, heapVars, workerVars
<1>1. CASE UNCHANGED vars
  BY <1>1 DEF vars
<1>2. ASSUME NEW c \in Conns, PeerStep(c) PROVE Moves(v)
  BY <1>2 DEF PeerStep, Connect, PeerSend, PeerRead, PeerFin, PeerReset
<1>3. ASSUME NEW w \in Workers, EpollWait(w) \/ EpollWaitFails(w) PROVE Moves(v)
  BY <1>3 DEF EpollWait, EpollWaitFails
<1>4. ASSUME NEW w \in Workers,
             DispatchListener(w) \/ DispatchHangup(w) \/ DispatchHandler(w) \/ DispatchNull(w)
      PROVE  Moves(v)
  <2>1. CASE DispatchListener(w)
    BY <2>1 DEF DispatchListener
  <2>2. CASE DispatchHangup(w)
    BY <2>2 DEF DispatchHangup
  <2>3. CASE DispatchNull(w)
    BY <2>3 DEF DispatchNull
  <2>4. CASE DispatchHandler(w)
    <3>1. PICK e \in batch[w], call \in {"read", "write"} :
            /\ batch' = [batch EXCEPT ![w] = @ \ {e}]
            /\ pc' = [pc EXCEPT ![w] = call] /\ ptr' = [ptr EXCEPT ![w] = e.ptr]
      BY <2>4 DEF DispatchHandler
    <3>2. UNCHANGED <<newfd, arm>>
      BY <2>4 DEF DispatchHandler
    <3> QED  BY <2>4, <3>1, <3>2
  <2> QED  BY <1>4, <2>1, <2>2, <2>3, <2>4
<1>5. ASSUME NEW w \in Workers, DispatchClose(w) PROVE Moves(v)
  <2>1. PICK e \in batch[w] :
            /\ batch' = [batch EXCEPT ![w] = @ \ {e}]
            /\ \/ UNCHANGED <<pc, ptr>>
               \/ pc' = [pc EXCEPT ![w] = "remove"] /\ ptr' = [ptr EXCEPT ![w] = e.ptr]
    BY <1>5 DEF DispatchClose
  <2>2. UNCHANGED <<newfd, arm>>
    BY <1>5 DEF DispatchClose
  <2> QED  BY <2>1, <2>2
<1>6. ASSUME NEW w \in Workers, AcceptNone(w) \/ AcceptConn(w) \/ InsertNew(w) PROVE Moves(v)
  <2>1. CASE AcceptNone(w) \/ AcceptConn(w)
    BY <2>1 DEF AcceptNone, AcceptConn
  <2>2. CASE InsertNew(w)
    BY <2>2 DEF InsertNew
  <2> QED  BY <1>6, <2>1, <2>2
<1>7. ASSUME NEW w \in Workers, InsertCollides(w) PROVE FALSE
  BY <1>7 DEF InsertCollides, OwnershipInv, ClaimInv, Claims, LocalsInv
<1>8. ASSUME NEW w \in Workers, EpollAdd(w) \/ EpollAddFails(w) PROVE Moves(v)
  BY <1>8 DEF EpollAdd, EpollAddFails
<1>9. ASSUME NEW w \in Workers, ReadData(w) \/ ReadEof(w) \/ ReadAgain(w) \/ ReadError(w)
      PROVE  Moves(v)
  BY <1>9 DEF ReadData, ReadEof, ReadAgain, ReadError
<1>10. ASSUME NEW w \in Workers, WriteData(w) PROVE Moves(v)
  <2>1. /\ pc[w] = "write" /\ UNCHANGED <<ptr, batch, newfd>>
        /\ arm' = [arm EXCEPT ![w] = TRUE]
        /\ \/ pc' = [pc EXCEPT ![w] = "rearm"]
           \/ pc' = [pc EXCEPT ![w] = "write"]
    BY <1>10 DEF WriteData
  <2> QED  BY <2>1
<1>11. ASSUME NEW w \in Workers, WriteAgain(w) \/ WriteError(w) \/ WriteSigpipe(w) PROVE Moves(v)
  BY <1>11 DEF WriteAgain, WriteError, WriteSigpipe
<1>12. ASSUME NEW w \in Workers, RearmEpoll(w) PROVE Moves(v)
  <2>1. /\ UNCHANGED <<batch, newfd, arm>>
        /\ \/ pc' = [pc EXCEPT ![w] = "loop"] /\ ptr' = [ptr EXCEPT ![w] = NoCell]
           \/ pc[w] = "rearm_err" /\ pc' = [pc EXCEPT ![w] = "reset"] /\ UNCHANGED ptr
    BY <1>12 DEF RearmEpoll
  <2> QED  BY <2>1
<1>13. ASSUME NEW w \in Workers,
              Reset(w) \/ Remove(w) \/ EpollDel(w) \/ CloseFd(w) \/ AssignFd(w)
       PROVE  Moves(v)
  BY <1>13 DEF Reset, Remove, EpollDel, CloseFd, AssignFd
<1> QED
  BY <1>1, <1>2, <1>3, <1>4, <1>5, <1>6, <1>7, <1>8, <1>9, <1>10, <1>11, <1>12, <1>13
  DEF Next, WorkerStep, Dispatch, AcceptConnections, HandleConnectionEvent, CloseConnection

-----------------------------------------------------------------------------
(* Bytes through a buffer that is filled once and written from the front.     *)

\* Peers add to the queue.
LEMMA BufferWaits ==
    ASSUME NEW c \in Conns, NEW s \in Sockets, NEW b \in Seq(Bytes), NEW i \in Nat,
           BufFlow(c, b, i, s),
           NEW t \in {RecvByte(s, c), RecvFin(s), RecvRst(s), PeerConsume(s)}
    PROVE  BufFlow(c, b, i, t)
<1>1. /\ s.rq \in Seq(Bytes) /\ s.sent \in Nat /\ Len(b) \in Nat
      /\ Runs(s.rq, c, Len(b)) /\ s.sent = Len(b) + Len(s.rq)
  BY DEF Sockets, BufFlow
<1>2. CASE t = RecvByte(s, c)
  <2> DEFINE q == s.rq
  <2>1. Byte(c, s.sent + 1) \in Bytes /\ Byte(c, s.sent + 1) = Byte(c, Len(b) + Len(q) + 1)
    BY <1>1 DEF Bytes, Byte
  <2>2. /\ Runs(Append(q, Byte(c, s.sent + 1)), c, Len(b))
        /\ Len(Append(q, Byte(c, s.sent + 1))) = Len(q) + 1
    BY <1>1, <2>1, RunsAppend
  <2>3. t.sent = s.sent + 1 /\ t.rq = Append(q, Byte(c, s.sent + 1)) /\ t.out = s.out
    BY <1>2, ReceivedFields
  <2>4. t.sent = Len(b) + Len(t.rq)
    <3>1. Len(q) \in Nat /\ Len(t.rq) = Len(q) + 1
      BY <1>1, <2>2, <2>3
    <3> QED  BY <1>1, <2>3, <3>1
  <2> QED  BY <2>2, <2>3, <2>4 DEF BufFlow
<1>3. CASE t \in {RecvFin(s), RecvRst(s), PeerConsume(s)}
  <2>1. t.sent = s.sent /\ t.rq = s.rq /\ t.out = s.out
    BY <1>3 DEF RecvFin, RecvRst, PeerConsume, Sockets
  <2> QED  BY <2>1 DEF BufFlow
<1> QED  BY <1>2, <1>3

\* The front of the queue is added to the buffer.
LEMMA BufferFills ==
    ASSUME NEW c \in Conns, NEW s \in Sockets, NEW b \in Seq(Bytes), NEW i \in Nat,
           BufFlow(c, b, i, s), NEW n \in Nat
    PROVE  BufFlow(c, b \o ReadBytes(s, n), i, AfterRead(s, n))
<1> DEFINE q == s.rq
           m == ReadLen(s, n)
           got == SubSeq(q, 1, m)
           left == SubSeq(q, m + 1, Len(q))
<1>1. /\ q \in Seq(Bytes) /\ s.sent \in Nat /\ Len(b) \in Nat /\ Len(q) \in Nat
      /\ Runs(b, c, 0) /\ i <= Len(b) /\ Runs(q, c, Len(b)) /\ s.sent = Len(b) + Len(q)
      /\ Len(s.out) = i
  BY DEF Sockets, BufFlow
<1>2. m \in 0 .. Len(q)
  BY <1>1 DEF ReadLen, Smaller
<1>3. /\ AfterRead(s, n).sent = s.sent /\ AfterRead(s, n).out = s.out
      /\ AfterRead(s, n).rq = left /\ ReadBytes(s, n) = got
  BY DEF AfterRead, ReadBytes, Sockets
<1> HIDE DEF m, q
<1>4. Runs(got, c, Len(b)) /\ got \in Seq(Bytes) /\ Len(got) = m
  BY <1>1, <1>2, RunsSplit
<1>5. Runs(left, c, Len(b) + m)
  BY <1>1, <1>2, RunsSplit
<1>6. Len(left) = Len(q) - m
  BY <1>1, <1>2, RunsSplit
<1> HIDE DEF got, left
<1>7. Runs(b \o got, c, 0) /\ Len(b \o got) = Len(b) + Len(got)
  BY <1>1, <1>4, RunsConcat
<1>8. /\ i <= Len(b \o got) /\ Runs(left, c, Len(b \o got))
      /\ s.sent = Len(b \o got) + Len(left)
  BY <1>1, <1>2, <1>4, <1>5, <1>6, <1>7
<1> QED  BY <1>1, <1>3, <1>7, <1>8 DEF BufFlow

\* Part of what is left of the buffer is written.
LEMMA BufferEmpties ==
    ASSUME NEW c \in Conns, NEW s \in Sockets, NEW b \in Seq(Bytes), NEW i \in Nat,
           BufFlow(c, b, i, s), Runs(s.out, c, 0),
           SubSeq(b, i + 1, Len(b)) # << >>, SendRoom(s) > 0
    PROVE  LET rest == SubSeq(b, i + 1, Len(b))
               n == WriteLen(s, Len(rest)) IN
           /\ n \in 1 .. Len(b) - i /\ n \in 1 .. s.sent - Len(s.out)
           /\ BufFlow(c, b, i + n, AfterWrite(s, rest))
           /\ Runs(AfterWrite(s, rest).out, c, 0)
           /\ AfterWrite(s, rest).out = s.out \o [k \in 1 .. n |-> Byte(c, Len(s.out) + k)]
<1> DEFINE rest == SubSeq(b, i + 1, Len(b))
           n == WriteLen(s, Len(rest))
           t == AfterWrite(s, rest)
<1>1. /\ s.rq \in Seq(Bytes) /\ s.sent \in Nat /\ s.out \in Seq(Bytes)
      /\ Len(b) \in Nat /\ Len(s.rq) \in Nat /\ i \in 0 .. Len(b) /\ Len(s.out) = i
      /\ Runs(b, c, 0) /\ Runs(s.rq, c, Len(b)) /\ s.sent = Len(b) + Len(s.rq)
  BY DEF Sockets, BufFlow
<1>2. rest \in Seq(Bytes)
  BY <1>1, ElementOfSeq, SubSeqProperties
<1>3. Runs(rest, c, 0 + i)
  BY <1>1, RunsSplit
<1>4. Len(rest) = Len(b) - i
  BY <1>1, RunsSplit
<1>5. SendRoom(s) \in Int
  BY SndBufAssumption DEF SendRoom, Sockets
<1> HIDE DEF rest
<1>6. Len(rest) \in Nat \ {0} /\ n \in 1 .. Len(rest)
  BY <1>2, <1>5, EmptySeq DEF WriteLen, Smaller, rest
<1>7. SockFlow(c, s, rest)
  <2>1. 0 + i = Len(s.out) /\ Len(s.out) + Len(rest) = Len(b)
        /\ s.sent = Len(s.out) + Len(rest) + Len(s.rq)
    BY <1>1, <1>4
  <2> QED  BY <1>1, <1>3, <2>1 DEF SockFlow, Flow
<1>8. rest # << >>
  BY DEF rest
<1>9. /\ n \in 1 .. s.sent - Len(s.out)
      /\ t.out = s.out \o [k \in 1 .. n |-> Byte(c, Len(s.out) + k)]
      /\ SockFlow(c, t, SubSeq(rest, n + 1, Len(rest)))
  BY <1>2, <1>7, <1>8, WriteFlows
<1>10. t.sent = s.sent /\ t.rq = s.rq /\ t.out \in Seq(Bytes)
  BY <1>2, <1>6, WriteTypes DEF AfterWrite, Sockets
<1> HIDE DEF n, t
<1>11. /\ Runs(t.out, c, 0)
       /\ t.sent = Len(t.out) + Len(SubSeq(rest, n + 1, Len(rest))) + Len(t.rq)
  BY <1>9 DEF SockFlow, Flow
<1>12. Len(SubSeq(rest, n + 1, Len(rest))) = Len(rest) - n
  BY <1>2, <1>3, <1>6, RunsSplit
<1>13. Len(t.out) = i + n /\ n \in 1 .. Len(b) - i /\ i + n <= Len(b)
  <2> DEFINE o == Len(t.out)
             u == Len(SubSeq(rest, n + 1, Len(rest)))
             q == Len(s.rq)
             l == Len(b)
             r == Len(rest)
  <2>1. o \in Nat /\ q \in Nat /\ l \in Nat /\ i \in 0 .. l
    BY <1>1, <1>10
  <2>2. r = l - i /\ n \in 1 .. r /\ u = r - n
    BY <1>4, <1>6, <1>12
  <2>3. l + q = o + u + q
    <3>1. t.sent = l + q /\ t.rq = s.rq /\ t.sent = o + u + Len(t.rq)
      BY <1>1, <1>10, <1>11
    <3> QED  BY <3>1
  <2> HIDE DEF o, u, q, l, r
  <2>4. o = i + n /\ n \in 1 .. l - i /\ i + n <= l
    BY <2>1, <2>2, <2>3
  <2> QED  BY <2>4 DEF o, l
<1>14. BufFlow(c, b, i + n, t)
  BY <1>1, <1>10, <1>13 DEF BufFlow
<1> QED  BY <1>9, <1>11, <1>13, <1>14 DEF n, t, rest

-----------------------------------------------------------------------------
(* The bytes of every connection.                                           *)

LEMMA OpenNext ==
    ASSUME Inv, OpenInv, [Next]_vars
    PROVE  OpenInv'
<1> USE ConstantsAssumption DEF Inv, TypeInv, TypeOK, OpenInv, kernelVars
<1>1. ASSUME NEW c \in Conns, PeerStep(c) PROVE OpenInv'
  BY <1>1 DEF PeerStep, Connect, PeerSend, PeerRead, PeerFin, PeerReset
<1>2. ASSUME NEW w \in Workers,
             \/ ReadData(w) \/ ReadError(w) \/ WriteData(w) \/ WriteError(w)
             \/ Reset(w) \/ InsertNew(w) \/ Remove(w)
      PROVE  UNCHANGED <<st, fdt>>
  BY <1>2 DEF ReadData, ReadError, WriteData, WriteError, Reset, InsertNew, Remove
<1>3. ASSUME NEW w \in Workers, AcceptConn(w) PROVE OpenInv'
  <2>1. PICK c \in Conns, f \in FDs :
          /\ st[c] = "queued" /\ st' = [st EXCEPT ![c] = "open"]
          /\ fdt' = [fdt EXCEPT ![f] = c]
    BY <1>3 DEF AcceptConn
  <2> QED  BY <2>1
<1>4. ASSUME NEW w \in Workers, CloseFd(w) PROVE OpenInv'
  <2>1. CASE IsOpen(cfd[ptr[w]])
    <3>1. PICK f \in FDs :
            /\ fdt[f] # NoConn
            /\ st' = [st EXCEPT ![fdt[f]] = "closed"] /\ fdt' = [fdt EXCEPT ![f] = NoConn]
      BY <1>4, <2>1 DEF CloseFd, IsOpen
    <3>2. \A g \in FDs : fdt'[g] # NoConn => fdt'[g] = fdt[g] /\ fdt[g] # fdt[f]
      BY <3>1
    <3>3. \A g \in FDs : fdt'[g] # NoConn => fdt[g] \in Conns /\ st'[fdt[g]] = st[fdt[g]]
      BY <3>1, <3>2
    <3> QED  BY <3>2, <3>3
  <2>2. CASE ~IsOpen(cfd[ptr[w]])
    BY <1>4, <2>2 DEF CloseFd
  <2> QED  BY <2>1, <2>2
<1> QED  BY <1>1, <1>2, <1>3, <1>4, ByteSteps

\* The socket of a connection is changed by its peer, or by the worker at its object.
LEMMA SocketSteps ==
    ASSUME Inv, [Next]_vars, NEW c \in Conns
    PROVE  \/ sock'[c] = sock[c]
           \/ PeerMoves(c)
           \/ \E w \in Workers :
                /\ ptr[w] \in Cells /\ Live(ptr[w]) /\ c = fdt[cfd[ptr[w]]]
                /\ Handles(w, ptr[w], c)
<1> USE DEF Inv, TypeInv, TypeOK
<1>1. ASSUME NEW d \in Conns, PeerStep(d) PROVE sock'[c] = sock[c] \/ PeerMoves(c)
  BY <1>1 DEF PeerStep, Connect, PeerSend, PeerRead, PeerFin, PeerReset, PeerMoves
<1>2. ASSUME NEW w \in Workers,
             ReadData(w) \/ ReadError(w) \/ WriteData(w) \/ WriteError(w) \/ Reset(w)
      PROVE  \/ sock'[c] = sock[c]
             \/ /\ ptr[w] \in Cells /\ Live(ptr[w]) /\ c = fdt[cfd[ptr[w]]]
                /\ Handles(w, ptr[w], c)
  <2>1. ptr[w] \in Cells /\ Live(ptr[w]) /\ IsOpen(cfd[ptr[w]])
    BY <1>2, HandlerOpen DEF ReadData, ReadError, WriteData, WriteError, Reset, At, HandlerPcs
  <2>2. PICK d \in Conns : d = fdt[cfd[ptr[w]]]
    BY <2>1 DEF IsOpen
  <2>3. Handles(w, ptr[w], d) /\ \A e \in Conns : e # d => sock'[e] = sock[e]
    BY <1>2, <2>2, HandlerSteps
  <2> QED  BY <2>1, <2>2, <2>3
<1>3. ASSUME NEW w \in Workers, AcceptConn(w) \/ InsertNew(w) \/ Remove(w) \/ CloseFd(w)
      PROVE  sock' = sock
  BY <1>3 DEF AcceptConn, InsertNew, Remove, CloseFd, kernelVars
<1> QED  BY <1>1, <1>2, <1>3, ByteSteps

\* A socket keeps its type, whoever moves it.
LEMMA SocketTypes ==
    ASSUME Inv, [Next]_vars
    PROVE  sock \in [Conns -> Sockets] /\ sock' \in [Conns -> Sockets]
BY TypeNext DEF Inv, TypeInv, TypeOK

LEMMA PeerWaits ==
    ASSUME NEW c \in Conns, sock[c] \in Sockets, NEW b \in Seq(Bytes), NEW i \in Nat,
           BufFlow(c, b, i, sock[c]), PeerMoves(c)
    PROVE  BufFlow(c, b, i, sock'[c])
<1>1. PICK t \in {RecvByte(sock[c], c), RecvFin(sock[c]), RecvRst(sock[c]), PeerConsume(sock[c])} :
        t = sock'[c]
  BY DEF PeerMoves
<1>2. BufFlow(c, b, i, t)
  BY BufferWaits
<1> QED  BY <1>1, <1>2

\* The connections no object has yet.
LEMMA NewNext ==
    ASSUME Inv, OpenInv, NewInv, [Next]_vars
    PROVE  NewInv'
<1> USE ConstantsAssumption DEF Inv, TypeInv, TypeOK, NewInv
<1>1. sock \in [Conns -> Sockets] /\ << >> \in Seq(Bytes)
  BY EmptySeq
\* Nobody handles a connection that is on its way to an object.
<1>2. ASSUME NEW c \in Conns, BufFlow(c, << >>, 0, sock[c]),
             \A p \in Cells : Live(p) => fdt[cfd[p]] # c
      PROVE  BufFlow(c, << >>, 0, sock'[c])
  <2>1. sock'[c] = sock[c] \/ PeerMoves(c)
    BY <1>2, SocketSteps
  <2>2. 0 \in Nat /\ sock[c] \in Sockets
    BY <1>1
  <2>3. PeerMoves(c) => BufFlow(c, << >>, 0, sock'[c])
    BY <1>1, <1>2, <2>2, PeerWaits
  <2> QED  BY <1>2, <2>1, <2>3
<1>3. ASSUME NEW c \in Conns, st'[c] \in {"idle", "queued"}
      PROVE  BufFlow(c, << >>, 0, sock'[c])
  <2>1. st[c] \in {"idle", "queued"}
    <3>1. ASSUME NEW d \in Conns, PeerStep(d) PROVE st[c] \in {"idle", "queued"}
      BY <1>3, <3>1 DEF PeerStep, Connect, PeerSend, PeerRead, PeerFin, PeerReset
    <3>2. ASSUME NEW w \in Workers,
                 \/ ReadData(w) \/ ReadError(w) \/ WriteData(w) \/ WriteError(w)
                 \/ Reset(w) \/ InsertNew(w) \/ Remove(w)
          PROVE  UNCHANGED st
      BY <3>2 DEF ReadData, ReadError, WriteData, WriteError, Reset, InsertNew, Remove, kernelVars
    <3>3. ASSUME NEW w \in Workers, AcceptConn(w) \/ CloseFd(w)
          PROVE  st[c] \in {"idle", "queued"}
      BY <1>3, <3>3 DEF AcceptConn, CloseFd
    <3> QED  BY <1>3, <3>1, <3>2, <3>3, ByteSteps
  <2>2. \A p \in Cells : Live(p) => fdt[cfd[p]] # c
    BY <2>1 DEF OpenInv, Live, OwnershipInv, DataInv
  <2> QED  BY <1>2, <2>1, <2>2
<1>4. ASSUME NEW w \in Workers, pc'[w] = "insert"
      PROVE  BufFlow(fdt'[newfd'[w]], << >>, 0, sock'[fdt'[newfd'[w]]])
  <2>1. CASE pc[w] = "insert" /\ newfd'[w] = newfd[w]
    <3>1. /\ newfd[w] \in FDs /\ fdt[newfd[w]] \in Conns /\ data[newfd[w]] = NoCell
      BY <2>1 DEF LocalsInv, OwnershipInv, ClaimInv, Claims
    <3>2. fdt'[newfd[w]] = fdt[newfd[w]]
      <4>1. ASSUME NEW v \in Workers, CloseFd(v) PROVE cfd[ptr[v]] # newfd[w]
        <5>1. Claims(w, newfd[w]) /\ (cfd[ptr[v]] = newfd[w] => Claims(v, newfd[w]))
          BY <2>1, <4>1 DEF Claims, CloseFd, At
        <5>2. v # w
          BY <2>1, <4>1 DEF CloseFd, At
        <5> QED  BY <3>1, <5>1, <5>2 DEF OwnershipInv, ClaimInv
      <4>2. ASSUME NEW v \in Workers, CloseFd(v) PROVE fdt'[newfd[w]] = fdt[newfd[w]]
        BY <3>1, <4>1, <4>2 DEF CloseFd
      <4>3. ASSUME NEW v \in Workers, AcceptConn(v) PROVE fdt'[newfd[w]] = fdt[newfd[w]]
        BY <3>1, <4>3 DEF AcceptConn, IsLowestFree, FreeFds
      <4>4. ASSUME NEW c \in Conns, PeerStep(c) PROVE UNCHANGED fdt
        BY <4>4 DEF PeerStep, Connect, PeerSend, PeerRead, PeerFin, PeerReset
      <4>5. ASSUME NEW v \in Workers,
                   \/ ReadData(v) \/ ReadError(v) \/ WriteData(v) \/ WriteError(v)
                   \/ Reset(v) \/ InsertNew(v) \/ Remove(v)
            PROVE  UNCHANGED fdt
        BY <4>5 DEF ReadData, ReadError, WriteData, WriteError, Reset, InsertNew, Remove, kernelVars
      <4> QED  BY <4>2, <4>3, <4>4, <4>5, ByteSteps
    <3>3. \A p \in Cells : Live(p) => fdt[cfd[p]] # fdt[newfd[w]]
      <4>1. ASSUME NEW p \in Cells, Live(p) PROVE cfd[p] \in FDs /\ cfd[p] # newfd[w]
        BY <3>1, <4>1 DEF Live
      <4> QED  BY <3>1, <4>1 DEF OpenInv
    <3>4. BufFlow(fdt[newfd[w]], << >>, 0, sock[fdt[newfd[w]]])
      BY <2>1 DEF SockOf
    <3> QED  BY <1>2, <2>1, <3>1, <3>2, <3>3, <3>4
  <2>2. CASE AcceptConn(w)
    <3>1. PICK c \in Conns, f \in FDs :
            /\ st[c] = "queued" /\ fdt' = [fdt EXCEPT ![f] = c]
            /\ newfd' = [newfd EXCEPT ![w] = f] /\ UNCHANGED sock
      BY <2>2 DEF AcceptConn
    <3> QED  BY <3>1
  <2> QED  BY <1>4, <2>1, <2>2, WorkerMoves DEF Moves
<1> QED  BY <1>3, <1>4 DEF SockOf

\* The buffer of a live object is that of its connection.
LEMMA LiveFlow ==
    ASSUME Inv, DataFlow, NEW p \in Cells, Live(p), NEW c \in Conns, c = fdt[cfd[p]]
    PROVE  /\ BufFlow(c, buf[p], wix[p], sock[c]) \/ Dead(sock[c])
           /\ buf[p] \in Seq(Bytes) /\ wix[p] \in Nat /\ sock[c] \in Sockets
<1>1. PICK f \in FDs : f = cfd[p] /\ data[f] = p /\ fdt[f] = c
  BY DEF Live
<1>2. BufFlow(fdt[f], buf[data[f]], wix[data[f]], SockOf(f)) \/ Dead(SockOf(f))
  BY <1>1, ConstantsAssumption DEF DataFlow
<1>3. SockOf(f) = sock[c]
  BY <1>1 DEF SockOf
<1>4. buf[p] \in Seq(Bytes) /\ wix[p] \in Nat /\ sock[c] \in Sockets
  BY DEF Inv, TypeInv, TypeOK
<1> QED  BY <1>1, <1>2, <1>3, <1>4

\* An object that reads or writes its connection is not dead, and what write() takes
\* goes on where the echo ended.
LEMMA HandlerFlow ==
    ASSUME Inv, DataFlow, ErrorInv, OutInv, NEW p \in Cells, Live(p),
           NEW c \in Conns, c = fdt[cfd[p]], NEW w \in Workers, Handles(w, p, c)
    PROVE  /\ BufFlow(c, buf'[p], wix'[p], sock'[c]) \/ Dead(sock'[c])
           /\ Runs(sock'[c].out, c, 0)
<1> DEFINE s == sock[c]
           b == buf[p]
           i == wix[p]
<1>1. BufFlow(c, b, i, s) \/ Dead(s)
  BY LiveFlow
<1>2. b \in Seq(Bytes) /\ i \in Nat /\ s \in Sockets /\ Runs(s.out, c, 0)
  BY LiveFlow DEF OutInv
<1> HIDE DEF s, b, i
<1>3. CASE Reads(p, c)
  <2>1. /\ s.rq # << >> /\ buf'[p] = b \o ReadBytes(s, ReadCount(p)) /\ wix'[p] = i
        /\ sock'[c] = AfterRead(s, ReadCount(p))
    BY <1>3 DEF Reads, ReadsData, s, b, i
  <2>2. ReadCount(p) \in Nat
    BY ConstantsAssumption DEF ReadCount, Inv, TypeInv, TypeOK, OverrunAtMostOne
  <2>3. BufFlow(c, b, i, s)
    BY <1>1, <2>1 DEF Dead
  <2>4. BufFlow(c, b \o ReadBytes(s, ReadCount(p)), i, AfterRead(s, ReadCount(p)))
    BY <1>2, <2>2, <2>3, BufferFills
  <2>5. AfterRead(s, ReadCount(p)).out = s.out
    BY <1>2 DEF AfterRead, Sockets
  <2> QED  BY <1>2, <2>1, <2>4, <2>5
<1>4. CASE Writes(p, c)
  <2> DEFINE n == WriteLen(s, Len(Pending(p)))
  <2>1. /\ ~s.rst /\ SendRoom(s) > 0 /\ Len(Pending(p)) # 0
        /\ Pending(p) = SubSeq(b, i + 1, Len(b))
        /\ buf'[p] = b /\ wix'[p] = i + n /\ sock'[c] = AfterWrite(s, Pending(p))
    <3>1. /\ ~s.rst /\ SendRoom(s) > 0 /\ Len(Pending(p)) # 0
          /\ buf'[p] = b /\ wix'[p] = i + n /\ sock'[c] = AfterWrite(s, Pending(p))
      BY <1>4 DEF Writes, WritesData, s, b, i
    <3>2. Pending(p) = SubSeq(b, i + 1, Len(b))
      BY DEF Pending, b, i
    <3> QED  BY <3>1, <3>2
  <2>2. BufFlow(c, b, i, s) /\ SubSeq(b, i + 1, Len(b)) # << >>
    BY <1>1, <2>1, EmptySeq DEF Dead
  <2> DEFINE rest == SubSeq(b, i + 1, Len(b))
  <2>3. /\ BufFlow(c, b, i + WriteLen(s, Len(rest)), AfterWrite(s, rest))
        /\ Runs(AfterWrite(s, rest).out, c, 0)
    BY <1>2, <2>1, <2>2, BufferEmpties
  <2> HIDE DEF rest
  <2>4. Pending(p) = rest
    BY <2>1 DEF rest
  <2> QED  BY <2>1, <2>3, <2>4
<1>5. CASE Clears(p, c)
  <2>1. /\ buf'[p] = b /\ wix'[p] = i /\ sock'[c] = ClearError(s)
    BY <1>5 DEF Clears, SameBlock, s, b, i
  <2>2. /\ ClearError(s).rq = s.rq /\ ClearError(s).sent = s.sent
        /\ ClearError(s).out = s.out /\ ClearError(s).rst = s.rst
    BY <1>2 DEF ClearError, Sockets
  <2> QED  BY <1>1, <1>2, <2>1, <2>2 DEF BufFlow, Dead
<1>6. CASE pc[w] = "reset" /\ Forgets(p, c)
  <2>1. s.rst /\ s.rq = << >> /\ sock'[c] = s
    BY <1>6 DEF Inv, OwnershipInv, ResetInv, ErrorInv, Handles, Forgets, SockOf, s
  <2> QED  BY <1>2, <2>1 DEF Dead
<1> QED  BY <1>3, <1>4, <1>5, <1>6 DEF Handles

\* data_ gets a new object only from insert().
LEMMA MappedSteps ==
    ASSUME Inv, [Next]_vars, NEW f \in FDs
    PROVE  data'[f] \in {NoCell, data[f]} \/ \E w \in Workers : InsertNew(w) /\ newfd[w] = f
<1> USE DEF Inv, TypeInv, TypeOK
<1>1. ASSUME NEW c \in Conns, PeerStep(c) PROVE UNCHANGED data
  BY <1>1 DEF PeerStep, Connect, PeerSend, PeerRead, PeerFin, PeerReset, heapVars
<1>2. ASSUME NEW w \in Workers,
             \/ ReadData(w) \/ ReadError(w) \/ WriteData(w) \/ WriteError(w)
             \/ Reset(w) \/ AcceptConn(w) \/ CloseFd(w)
      PROVE  UNCHANGED data
  BY <1>2 DEF ReadData, ReadError, WriteData, WriteError, Reset, AcceptConn, CloseFd, heapVars
<1>3. ASSUME NEW w \in Workers, Remove(w) PROVE data'[f] \in {NoCell, data[f]}
  BY <1>3 DEF Remove
<1>4. ASSUME NEW w \in Workers, InsertNew(w) PROVE data'[f] = data[f] \/ newfd[w] = f
  BY <1>4 DEF InsertNew
<1> QED  BY <1>1, <1>2, <1>3, <1>4, ByteSteps

LEMMA DataFlowNext ==
    ASSUME Inv, FlowInv, [Next]_vars
    PROVE  DataFlow'
<1> USE ConstantsAssumption DEF Inv, TypeInv, TypeOK, FlowInv
<1> SUFFICES ASSUME NEW f \in FDs, data'[f] # NoCell
             PROVE  \/ BufFlow(fdt'[f], buf'[data'[f]], wix'[data'[f]], sock'[fdt'[f]])
                    \/ Dead(sock'[fdt'[f]])
  BY DEF DataFlow, SockOf
<1>1. CASE data'[f] = data[f]
  <2>1. PICK p \in Cells, c \in Conns :
          data[f] = p /\ cfd[p] = f /\ fdt[f] = c /\ Live(p)
    <3>1. data[f] \in Cells /\ cfd[data[f]] = f /\ fdt[f] \in Conns
      BY <1>1 DEF OwnershipInv, DataInv
    <3> QED  BY <3>1 DEF Live
  <2>2. BufFlow(c, buf[p], wix[p], sock[c]) \/ Dead(sock[c])
    BY <2>1, LiveFlow
  <2>3. fdt'[f] = c /\ (\/ sock'[c] = sock[c] /\ SameBlock(p)
                        \/ PeerMoves(c) /\ SameBlock(p)
                        \/ \E w \in Workers : Handles(w, p, c))
    <3>1. c = fdt[cfd[p]]
      BY <2>1
    <3>2. /\ fdt'[cfd[p]] = c
          /\ \/ sock'[c] = sock[c] /\ SameBlock(p)
             \/ PeerMoves(c) /\ SameBlock(p)
             \/ \E w \in Workers : Handles(w, p, c)
      BY <2>1, <3>1, ObjectStep
    <3> QED  BY <2>1, <3>2
  <2>4. BufFlow(c, buf'[p], wix'[p], sock'[c]) \/ Dead(sock'[c])
    <3>1. CASE sock'[c] = sock[c] /\ SameBlock(p)
      BY <2>2, <3>1 DEF SameBlock
    <3>2. CASE PeerMoves(c) /\ SameBlock(p)
      <4>1. BufFlow(c, buf[p], wix[p], sock[c])
        BY <2>2, <3>2 DEF PeerMoves, Dead
      <4>2. BufFlow(c, buf[p], wix[p], sock'[c])
        BY <3>2, <4>1, PeerWaits
      <4> QED  BY <3>2, <4>2 DEF SameBlock
    <3>3. ASSUME NEW w \in Workers, Handles(w, p, c)
          PROVE  BufFlow(c, buf'[p], wix'[p], sock'[c]) \/ Dead(sock'[c])
      BY <2>1, <3>3, HandlerFlow
    <3> QED  BY <2>3, <3>1, <3>2, <3>3
  <2> QED  BY <1>1, <2>1, <2>3, <2>4
<1>2. ASSUME NEW w \in Workers, InsertNew(w), newfd[w] = f
      PROVE  BufFlow(fdt'[f], buf'[data'[f]], wix'[data'[f]], sock'[fdt'[f]])
  <2>1. PICK p \in Cells :
          /\ data' = [data EXCEPT ![f] = p] /\ UNCHANGED <<fdt, sock>>
          /\ buf' = [buf EXCEPT ![p] = << >>] /\ wix' = [wix EXCEPT ![p] = 0]
    BY <1>2 DEF InsertNew, Construct, Allocatable, kernelVars
  <2>2. BufFlow(fdt[f], << >>, 0, sock[fdt[f]])
    BY <1>2 DEF InsertNew, At, NewInv, SockOf
  <2>3. data'[f] = p /\ buf'[p] = << >> /\ wix'[p] = 0
    BY <2>1
  <2> QED  BY <2>1, <2>2, <2>3
<1> QED  BY <1>1, <1>2, MappedSteps

\* A connection that is reset and empty stays so: nobody reads it or adds to it.
LEMMA DeadStays ==
    ASSUME Inv, OpenInv, [Next]_vars, NEW p \in Cells, Live(p),
           NEW c \in Conns, c = fdt[cfd[p]], Dead(sock[c])
    PROVE  cfd'[p] = cfd[p] /\ fdt'[cfd[p]] = c /\ Dead(sock'[c])
<1>1. /\ cfd'[p] = cfd[p] /\ fdt'[cfd[p]] = c
      /\ \/ sock'[c] = sock[c] /\ SameBlock(p)
         \/ PeerMoves(c) /\ SameBlock(p)
         \/ \E w \in Workers : Handles(w, p, c)
  BY ObjectStep
<1>2. sock[c] \in Sockets /\ sock[c].rst /\ sock[c].rq = << >>
  BY DEF Inv, TypeInv, TypeOK, Dead
<1>3. ~PeerMoves(c)
  BY <1>2 DEF PeerMoves
<1>4. ASSUME NEW w \in Workers, Handles(w, p, c) PROVE Dead(sock'[c])
  <2>1. ~Reads(p, c) /\ ~Writes(p, c)
    BY <1>2 DEF Reads, ReadsData, Writes, WritesData
  <2>2. ClearError(sock[c]).rst = sock[c].rst /\ ClearError(sock[c]).rq = sock[c].rq
    BY <1>2 DEF ClearError, Sockets
  <2> QED  BY <1>2, <1>4, <2>1, <2>2 DEF Handles, Clears, Forgets, Dead
<1> QED  BY <1>1, <1>3, <1>4

LEMMA ErrorNext ==
    ASSUME Inv, OpenInv, ErrorInv, [Next]_vars
    PROVE  ErrorInv'
<1> USE DEF Inv, TypeInv, TypeOK
<1> SUFFICES ASSUME NEW w \in Workers, pc'[w] \in {"rearm_err", "reset"}
             PROVE  sock'[fdt'[cfd'[ptr'[w]]]].rq = << >>
  BY DEF ErrorInv, SockOf
<1>1. CASE pc[w] \in {"rearm_err", "reset"} /\ ptr'[w] = ptr[w]
  <2>0. Live(ptr[w])
    BY <1>1, HandlerOpen DEF HandlerPcs
  <2>1. PICK p \in Cells, c \in Conns : p = ptr[w] /\ Live(p) /\ c = fdt[cfd[p]]
    BY <2>0, LiveObject
  <2>2. Dead(sock[c])
    BY <1>1, <2>1 DEF OwnershipInv, ResetInv, ErrorInv, SockOf, Dead
  <2>3. cfd'[p] = cfd[p] /\ fdt'[cfd[p]] = c /\ Dead(sock'[c])
    BY <2>1, <2>2, DeadStays
  <2> QED  BY <1>1, <2>1, <2>3 DEF Dead
<1>2. CASE ReadError(w) /\ ptr'[w] = ptr[w]
  <2>0. Live(ptr[w])
    BY <1>2, HandlerOpen DEF HandlerPcs, ReadError, At
  <2>1. PICK p \in Cells, c \in Conns : p = ptr[w] /\ Live(p) /\ c = fdt[cfd[p]]
    BY <2>0, LiveObject
  <2>2. Handles(w, p, c) /\ cfd' = cfd /\ fdt' = fdt
    BY <1>2, <2>1, HandlerSteps
  <2>3. pc[w] = "read" /\ pc'[w] = "rearm_err"
    BY <1>2 DEF ReadError, At
  <2>4. sock[c].rq = << >> /\ sock'[c] = ClearError(sock[c])
    BY <2>2, <2>3 DEF Handles, Clears
  <2>5. sock'[c].rq = << >>
    BY <2>4 DEF ClearError, Sockets
  <2> QED  BY <1>2, <2>1, <2>2, <2>5
<1> QED  BY <1>1, <1>2, WorkerMoves DEF Moves

LEMMA OutNext ==
    ASSUME Inv, DataFlow, ErrorInv, OutInv, [Next]_vars
    PROVE  OutInv'
<1> SUFFICES ASSUME NEW c \in Conns PROVE Runs(sock'[c].out, c, 0)
  BY DEF OutInv
<1>1. sock[c] \in Sockets /\ Runs(sock[c].out, c, 0)
  BY DEF Inv, TypeInv, TypeOK, OutInv
<1>2. CASE PeerMoves(c)
  <2>1. sock'[c].out = sock[c].out
    BY <1>1, <1>2 DEF PeerMoves, RecvByte, RecvFin, RecvRst, PeerConsume, Sockets
  <2> QED  BY <1>1, <2>1
<1>3. ASSUME NEW w \in Workers, ptr[w] \in Cells, Live(ptr[w]), c = fdt[cfd[ptr[w]]],
             Handles(w, ptr[w], c)
      PROVE  Runs(sock'[c].out, c, 0)
  <2>1. PICK p \in Cells : p = ptr[w] /\ Live(p) /\ c = fdt[cfd[p]] /\ Handles(w, p, c)
    BY <1>3
  <2> QED  BY <2>1, HandlerFlow
<1> QED  BY <1>1, <1>2, <1>3, SocketSteps

\* What has been read of a connection is in its object's buffer.
LEMMA ReadsNext ==
    ASSUME Inv, DataFlow, ErrorInv, OutInv, ReadsOneBuffer, [Next]_vars
    PROVE  ReadsOneBuffer'
<1> USE ConstantsAssumption
<1> SUFFICES ASSUME NEW c \in Conns
             PROVE  sock'[c].sent - Len(sock'[c].rq) <= BufSize + 1
  BY DEF ReadsOneBuffer
<1>1. sock[c] \in Sockets /\ sock'[c] \in Sockets /\ sock[c].sent - Len(sock[c].rq) <= BufSize + 1
  BY SocketTypes DEF ReadsOneBuffer
<1>2. CASE sock'[c].sent = sock[c].sent /\ sock'[c].rq = sock[c].rq
  BY <1>1, <1>2
<1>3. CASE PeerMoves(c)
  <2>1. CASE sock'[c] = RecvByte(sock[c], c)
    <3> DEFINE q == sock[c].rq
               x == Byte(c, sock[c].sent + 1)
    <3>1. /\ sock'[c].sent = sock[c].sent + 1 /\ sock'[c].rq = Append(q, x)
      BY <1>1, <2>1, ReceivedFields
    <3>2. q \in Seq(Bytes) /\ x \in Bytes /\ sock[c].sent \in Nat
      BY <1>1 DEF Bytes, Byte, Sockets
    <3> HIDE DEF q, x
    <3>3. Len(Append(q, x)) = Len(q) + 1 /\ Len(q) \in Nat
      BY <3>2
    <3>4. sock[c].sent - Len(q) <= BufSize + 1
      BY <1>1 DEF q
    <3> QED  BY <3>1, <3>2, <3>3, <3>4
  <2>2. CASE sock'[c] \in {RecvFin(sock[c]), RecvRst(sock[c]), PeerConsume(sock[c])}
    <3>1. \A s \in Sockets : \A t \in {RecvFin(s), RecvRst(s), PeerConsume(s)} :
            t.sent = s.sent /\ t.rq = s.rq
      <4>1. \A s \in Sockets : RecvFin(s).sent = s.sent /\ RecvFin(s).rq = s.rq
        BY DEF RecvFin, Sockets
      <4>2. \A s \in Sockets : RecvRst(s).sent = s.sent /\ RecvRst(s).rq = s.rq
        BY DEF RecvRst, Sockets
      <4>3. \A s \in Sockets : PeerConsume(s).sent = s.sent /\ PeerConsume(s).rq = s.rq
        BY DEF PeerConsume, Sockets
      <4> QED  BY <4>1, <4>2, <4>3
    <3>2. sock'[c].sent = sock[c].sent /\ sock'[c].rq = sock[c].rq
      BY <1>1, <2>2, <3>1
    <3> QED  BY <1>2, <3>2
  <2> QED  BY <1>3, <2>1, <2>2 DEF PeerMoves
<1>4. ASSUME NEW w \in Workers, NEW p \in Cells, Live(p), c = fdt[cfd[p]], Handles(w, p, c)
      PROVE  sock'[c].sent - Len(sock'[c].rq) <= BufSize + 1
  <2>1. CASE Reads(p, c)
    <3>1. BufFlow(c, buf'[p], wix'[p], sock'[c]) \/ Dead(sock'[c])
      BY <1>4, HandlerFlow
    <3>2. Len(buf'[p]) <= BufSize + 1 /\ buf'[p] \in Seq(Bytes)
      BY TypeNext DEF Inv, TypeInv, TypeOK, OverrunAtMostOne
    <3>3. ~Dead(sock[c])
      BY <2>1 DEF Reads, ReadsData, Dead
    <3>4. BufFlow(c, buf[p], wix[p], sock[c])
      BY <1>4, <3>3, LiveFlow
    <3>5. ReadCount(p) \in Nat /\ buf[p] \in Seq(Bytes) /\ wix[p] \in Nat
      BY DEF ReadCount, Inv, TypeInv, TypeOK, OverrunAtMostOne
    <3>6. BufFlow(c, buf'[p], wix[p], sock'[c])
      BY <1>1, <2>1, <3>4, <3>5, BufferFills DEF Reads
    <3>7. sock'[c].sent = Len(buf'[p]) + Len(sock'[c].rq) /\ Len(sock'[c].rq) \in Nat
      BY <1>1, <3>6 DEF BufFlow, Sockets
    <3> QED  BY <3>2, <3>7
  <2>2. CASE ~Reads(p, c)
    <3>1. sock'[c].sent = sock[c].sent /\ sock'[c].rq = sock[c].rq
      <4>1. Writes(p, c) \/ Clears(p, c) \/ Forgets(p, c)
        BY <1>4, <2>2 DEF Handles
      <4>2. CASE Writes(p, c)
        BY <1>1, <4>2 DEF Writes, AfterWrite, Sockets
      <4>3. CASE Clears(p, c) \/ Forgets(p, c)
        BY <1>1, <4>3 DEF Clears, Forgets, ClearError, Sockets
      <4> QED  BY <4>1, <4>2, <4>3
    <3> QED  BY <1>2, <3>1
  <2> QED  BY <2>1, <2>2
<1> QED  BY <1>2, <1>3, <1>4, SocketSteps

LEMMA FlowNext ==
    ASSUME Inv, FlowInv, [Next]_vars
    PROVE  FlowInv'
BY OpenNext, NewNext, DataFlowNext, ErrorNext, OutNext, ReadsNext DEF FlowInv

-----------------------------------------------------------------------------
(* What others may do to an object that is armed, reported or worked on.     *)

\* The peer's move adds data, ends the connection, or frees room in it.
LEMMA PeerKeeps ==
    ASSUME NEW c \in Conns, sock[c] \in Sockets, PeerMoves(c)
    PROVE  /\ sock[c].rq # << >> => sock'[c].rq # << >>
           /\ sock[c].fin => sock'[c].fin
           /\ ~sock[c].rst /\ ResetUnseen(sock'[c])
           /\ sock'[c].err = "EPIPE" => sock[c].err = "EPIPE" \/ (sock'[c].fin /\ sock'[c].rst)
<1>1. ~sock[c].rst
  BY DEF PeerMoves
<1>2. CASE sock'[c] = RecvByte(sock[c], c)
  <2> DEFINE q == sock[c].rq
             x == Byte(c, sock[c].sent + 1)
  <2>1. sock'[c].rq = Append(q, x)
    BY <1>2, ReceivedFields
  <2>2. q \in Seq(Bytes) /\ x \in Bytes
    BY DEF Sockets, Bytes, Byte
  <2> HIDE DEF q, x
  <2>3. Append(q, x) # << >>
    <3>1. Len(Append(q, x)) = Len(q) + 1 /\ Len(q) \in Nat
      BY <2>2
    <3>2. Len(Append(q, x)) # 0
      BY <3>1
    <3>3. Len(<< >>) = 0
      OBVIOUS
    <3> QED  BY <3>2, <3>3, Zenon
  <2>4. /\ sock'[c].fin = sock[c].fin /\ sock'[c].rst = sock[c].rst
        /\ sock'[c].err = sock[c].err
    BY <1>2 DEF RecvByte, Sockets
  <2> QED  BY <1>1, <2>1, <2>3, <2>4 DEF ResetUnseen
<1>3. CASE sock'[c] = RecvFin(sock[c]) \/ sock'[c] = PeerConsume(sock[c])
  BY <1>1, <1>3 DEF RecvFin, PeerConsume, Sockets, ResetUnseen
<1>4. CASE sock'[c] = RecvRst(sock[c])
  BY <1>1, <1>4 DEF RecvRst, Sockets, ResetUnseen
<1> QED  BY <1>2, <1>3, <1>4 DEF PeerMoves

\* An object nobody works on is left alone, but for the reset() of a dead one.
LEMMA IdleKeeps ==
    ASSUME Inv, OpenInv, [Next]_vars, NEW p \in Cells, Live(p),
           NEW c \in Conns, c = fdt[cfd[p]], \A w \in Workers : ~Working(w, p)
    PROVE  /\ cfd'[p] = cfd[p] /\ fdt'[cfd[p]] = c
           /\ \/ SameBlock(p) /\ (sock'[c] = sock[c] \/ PeerMoves(c))
              \/ sock'[c] = sock[c] /\ sock[c].rst
<1>1. /\ cfd'[p] = cfd[p] /\ fdt'[cfd[p]] = c
      /\ \/ sock'[c] = sock[c] /\ SameBlock(p)
         \/ PeerMoves(c) /\ SameBlock(p)
         \/ \E w \in Workers : Handles(w, p, c)
  BY ObjectStep
<1>2. ASSUME NEW w \in Workers, Handles(w, p, c) PROVE sock'[c] = sock[c] /\ sock[c].rst
  <2>1. ptr[w] = p /\ pc[w] = "reset" /\ Forgets(p, c)
    BY <1>2 DEF Handles, Working, WorkingPcs
  <2>2. sock[c].rst
    BY <2>1 DEF Inv, OwnershipInv, ResetInv, SockOf
  <2> QED  BY <2>1, <2>2 DEF Forgets
<1> QED  BY <1>1, <1>2

\* An object somebody works on is left to that worker and the peer.
LEMMA WorkerKeeps ==
    ASSUME Inv, OpenInv, [Next]_vars, NEW p \in Cells, Live(p),
           NEW c \in Conns, c = fdt[cfd[p]], NEW w \in Workers, Working(w, p)
    PROVE  /\ cfd'[p] = cfd[p] /\ fdt'[cfd[p]] = c
           /\ \/ SameBlock(p) /\ (sock'[c] = sock[c] \/ PeerMoves(c))
              \/ Handles(w, p, c)
<1>1. /\ cfd'[p] = cfd[p] /\ fdt'[cfd[p]] = c
      /\ \/ sock'[c] = sock[c] /\ SameBlock(p)
         \/ PeerMoves(c) /\ SameBlock(p)
         \/ \E v \in Workers : Handles(v, p, c)
  BY ObjectStep
<1>2. ASSUME NEW v \in Workers, Handles(v, p, c) PROVE v = w
  <2>1. Touches(v, p)
    BY <1>2 DEF Handles, Touches, HandlerPcs
  <2> QED  BY <2>1, SoleWorker
<1> QED  BY <1>1, <1>2

\* Who changes a registration, and how.
LEMMA RegSteps ==
    ASSUME Inv, [Next]_vars, NEW f \in FDs
    PROVE  \/ reg'[f] = reg[f] \/ reg'[f] = NotRegistered
           \/ \E w \in Workers : EpollWait(w) /\ f \in ReadyFds /\ reg'[f] = AfterDelivery(reg[f])
           \/ \E w \in Workers :
                EpollAdd(w) /\ f = newfd[w] /\ reg'[f] = [on |-> TRUE, want |-> {"IN"}, ptr |-> ptr[w]]
           \/ \E w \in Workers :
                /\ RearmEpoll(w) /\ f = cfd[ptr[w]] /\ reg[f].on
                /\ reg'[f] = [on |-> TRUE, want |-> Interest(arm[w]), ptr |-> ptr[w]]
<1> USE DEF Inv, TypeInv, TypeOK, kernelVars
<1>1. CASE UNCHANGED vars
  BY <1>1 DEF vars
<1>2. ASSUME NEW c \in Conns, PeerStep(c) PROVE UNCHANGED reg
  BY <1>2 DEF PeerStep, Connect, PeerSend, PeerRead, PeerFin, PeerReset
<1>3. ASSUME NEW w \in Workers, EpollWait(w)
      PROVE  \/ reg'[f] = reg[f]
             \/ EpollWait(w) /\ f \in ReadyFds /\ reg'[f] = AfterDelivery(reg[f])
  BY <1>3 DEF EpollWait
<1>4. ASSUME NEW w \in Workers, EpollWaitFails(w) \/ Dispatch(w) PROVE UNCHANGED reg
  BY <1>4 DEF EpollWaitFails, Dispatch, DispatchListener, DispatchClose, DispatchHangup,
              DispatchHandler, DispatchNull
<1>5. ASSUME NEW w \in Workers,
             AcceptNone(w) \/ AcceptConn(w) \/ InsertNew(w) \/ InsertCollides(w) \/ EpollAddFails(w)
      PROVE  UNCHANGED reg
  BY <1>5 DEF AcceptNone, AcceptConn, InsertNew, InsertCollides, EpollAddFails
<1>6. ASSUME NEW w \in Workers, EpollAdd(w)
      PROVE  \/ reg'[f] = reg[f]
             \/ f = newfd[w] /\ reg'[f] = [on |-> TRUE, want |-> {"IN"}, ptr |-> ptr[w]]
  BY <1>6 DEF EpollAdd
<1>7. ASSUME NEW w \in Workers,
             \/ ReadData(w) \/ ReadEof(w) \/ ReadAgain(w) \/ ReadError(w) \/ WriteData(w)
             \/ WriteAgain(w) \/ WriteError(w) \/ WriteSigpipe(w) \/ Reset(w)
      PROVE  UNCHANGED reg
  BY <1>7 DEF ReadData, ReadEof, ReadAgain, ReadError, WriteData, WriteAgain, WriteError,
              WriteSigpipe, Reset
<1>8. ASSUME NEW w \in Workers, RearmEpoll(w)
      PROVE  \/ reg'[f] = reg[f]
             \/ /\ f = cfd[ptr[w]] /\ reg[f].on
                /\ reg'[f] = [on |-> TRUE, want |-> Interest(arm[w]), ptr |-> ptr[w]]
  <2>1. CASE IsOpen(cfd[ptr[w]]) /\ reg[cfd[ptr[w]]].on
    <3>1. reg' = [reg EXCEPT ![cfd[ptr[w]]] = [on |-> TRUE, want |-> Interest(arm[w]), ptr |-> ptr[w]]]
      BY <1>8, <2>1 DEF RearmEpoll
    <3> QED  BY <2>1, <3>1
  <2>2. CASE ~(IsOpen(cfd[ptr[w]]) /\ reg[cfd[ptr[w]]].on)
    <3>1. UNCHANGED reg
      BY <1>8, <2>2 DEF RearmEpoll
    <3> QED  BY <3>1
  <2> QED  BY <2>1, <2>2
<1>9. ASSUME NEW w \in Workers, Remove(w) \/ EpollDel(w) \/ CloseFd(w) \/ AssignFd(w)
      PROVE  reg'[f] = reg[f] \/ reg'[f] = NotRegistered
  BY <1>9 DEF Remove, EpollDel, CloseFd, AssignFd
<1> QED  BY <1>1, <1>2, <1>3, <1>4, <1>5, <1>6, <1>7, <1>8, <1>9
         DEF Next, WorkerStep, AcceptConnections, HandleConnectionEvent, CloseConnection

-----------------------------------------------------------------------------
(* No handler is called for nothing.                                        *)

\* There is still something to do for an object after the others' steps.
LEMMA SomethingStays ==
    ASSUME Inv, OpenInv, [Next]_vars, NEW p \in Cells, Live(p),
           \A w \in Workers : ~Working(w, p), Something(p)
    PROVE  Something(p)'
<1>1. PICK c \in Conns : c = fdt[cfd[p]]
  BY LiveObject
<1>2. /\ cfd'[p] = cfd[p] /\ fdt'[cfd[p]] = c
      /\ \/ SameBlock(p) /\ (sock'[c] = sock[c] \/ PeerMoves(c))
         \/ sock'[c] = sock[c] /\ sock[c].rst
  BY <1>1, IdleKeeps
<1>3. sock[c] \in Sockets
  BY DEF Inv, TypeInv, TypeOK
<1>4. /\ sock[c].rq # << >> => sock'[c].rq # << >> \/ sock'[c].rst
      /\ sock[c].fin => sock'[c].fin
      /\ sock[c].rst => sock'[c].rst
  BY <1>2, <1>3, PeerKeeps
<1>5. Unwritten(p) => Unwritten(p)' \/ sock'[c].rst
  BY <1>2 DEF Unwritten, SameBlock
<1>6. sock[c].rq # << >> \/ sock[c].fin \/ sock[c].rst \/ Unwritten(p)
  BY <1>1 DEF Something, SockOf
<1>7. sock'[c].rq # << >> \/ sock'[c].fin \/ sock'[c].rst \/ Unwritten(p)'
  BY <1>4, <1>5, <1>6
<1> QED  BY <1>2, <1>7 DEF Something, SockOf

\* What a worker still has to write stays, until it writes.
LEMMA UnwrittenStays ==
    ASSUME Inv, OpenInv, [Next]_vars, NEW p \in Cells, Live(p), NEW w \in Workers,
           Working(w, p), pc[w] \notin {"read", "write"},
           Unwritten(p) \/ SockOf(cfd[p]).rst
    PROVE  Unwritten(p)' \/ (SockOf(cfd[p]).rst)'
<1>1. PICK c \in Conns : c = fdt[cfd[p]]
  BY LiveObject
<1>2. /\ cfd'[p] = cfd[p] /\ fdt'[cfd[p]] = c
      /\ \/ SameBlock(p) /\ (sock'[c] = sock[c] \/ PeerMoves(c))
         \/ Handles(w, p, c)
  BY <1>1, WorkerKeeps
<1>3. ~Handles(w, p, c)
  BY DEF Handles, Working, WorkingPcs, ClosePcs
<1>4. sock[c] \in Sockets
  BY DEF Inv, TypeInv, TypeOK
<1>5. sock[c].rst => sock'[c].rst
  BY <1>2, <1>3, <1>4, PeerKeeps
<1>6. Unwritten(p) => Unwritten(p)'
  BY <1>2, <1>3 DEF Unwritten, SameBlock
<1> QED  BY <1>1, <1>2, <1>5, <1>6 DEF SockOf

\* The event of a worker is that of a live object nobody works on.
LEMMA EventObject ==
    ASSUME Inv, NEW w \in Workers, NEW e \in batch[w], e.ptr # ServerData
    PROVE  e.ptr \in Cells /\ Live(e.ptr) /\ \A v \in Workers : ~Working(v, e.ptr)
<1>1. Live(e.ptr) /\ e.ptr \in Cells
  BY DEF Inv, OwnershipInv, EventInv, Live
<1>2. HasEvent(w, e.ptr)
  BY DEF HasEvent
<1> QED  BY <1>1, <1>2, SoleWorker

\* So is an armed registration.
LEMMA ArmedObject ==
    ASSUME Inv, NEW f \in FDs, reg[f].want # {}
    PROVE  /\ reg[f].ptr \in Cells /\ Live(reg[f].ptr) /\ cfd[reg[f].ptr] = f
           /\ \A v \in Workers : ~Working(v, reg[f].ptr)
<1>1. reg[f].ptr \in Cells /\ data[f] = reg[f].ptr
  BY DEF Inv, OwnershipInv, RegInv
<1>2. cfd[reg[f].ptr] = f
  BY <1>1, ConstantsAssumption DEF Inv, OwnershipInv, DataInv
<1>3. \A v \in Workers : ~Working(v, reg[f].ptr)
  BY <1>1 DEF Inv, OwnershipInv, TokenInv
<1> QED  BY <1>1, <1>2, <1>3 DEF Live

\* What epoll_wait() reports is worth a call.
LEMMA ReportedWork ==
    ASSUME Inv, WorkInv, NEW e \in ListenerEvents \cup ConnectionEvents, e.ptr # ServerData
    PROVE  Something(e.ptr)
<1>1. PICK f \in ReadyFds :
        /\ e.ptr = reg[f].ptr /\ e.ev = ReadyEvents(f)
        /\ reg[f].want # {} /\ "RDHUP" \notin e.ev
        /\ "ERR" \in e.ev <=> SockOf(f).err # "none"
  BY ReportedEvents
<1>2. f \in FDs /\ ReadyEvents(f) # {}
  BY <1>1 DEF ReadyFds
<1>3. reg[f].ptr \in Cells /\ cfd[reg[f].ptr] = f /\ fdt[f] \in Conns
  BY <1>1, <1>2, ArmedObject, HasConnection
<1>4. PICK a \in ReadyEvents(f) : TRUE
  BY <1>2
<1>5. a \in PollMask(SockOf(f)) /\ a \in reg[f].want \cup {"ERR", "HUP"}
  BY <1>4 DEF ReadyEvents, SockOf
<1>6. a \in {"IN", "OUT", "ERR", "HUP"}
  BY <1>1, <1>4, <1>5 DEF PollMask
<1>7. CASE a = "IN"
  BY <1>1, <1>3, <1>5, <1>7 DEF PollMask, Something
<1>8. CASE a = "OUT"
  BY <1>1, <1>2, <1>3, <1>5, <1>8 DEF WorkInv, Something
<1>9. CASE a = "ERR"
  <2>1. SockOf(f).err # "none"
    BY <1>1, <1>4, <1>9
  <2>2. SockOf(f).rst
    BY <1>3, <2>1 DEF SockOf, Inv, OwnershipInv, SocketInv
  <2> QED  BY <1>1, <1>3, <2>2 DEF Something
<1>10. CASE a = "HUP"
  BY <1>1, <1>3, <1>5, <1>10 DEF PollMask, Something
<1> QED  BY <1>6, <1>7, <1>8, <1>9, <1>10

LEMMA WorkNext ==
    ASSUME Inv, FlowInv, WorkInv, WriteModeIsTransient, [Next]_vars
    PROVE  WorkInv'
<1>0. ASSUME NEW p \in Cells, NEW c \in Conns, Live(p), c = fdt[cfd[p]],
             \A w \in Workers : ~Working(w, p)
      PROVE  /\ fdt'[cfd[p]] = c
             /\ \/ SameBlock(p) /\ (sock'[c] = sock[c] \/ PeerMoves(c))
                \/ sock'[c] = sock[c] /\ sock[c].rst
  BY <1>0, IdleKeeps DEF FlowInv
<1> USE DEF Inv, TypeInv, TypeOK, FlowInv
<1>1. ASSUME NEW w \in Workers, DispatchHandler(w), pc'[w] \in {"read", "write"}
      PROVE  pc'[w] = "read" /\ Something(ptr[w])'
  <2>1. PICK e \in batch[w] :
          /\ e.ptr \in Cells /\ e.ptr # ServerData
          /\ ptr' = [ptr EXCEPT ![w] = e.ptr]
          /\ pc' = [pc EXCEPT ![w] = IF rfw[e.ptr] THEN "write" ELSE "read"]
          /\ UNCHANGED <<sock, fdt, cfd, buf, wix>>
    BY <1>1, ConstantsAssumption DEF DispatchHandler, kernelVars, cellVars
  <2>2. Something(e.ptr)
    BY <2>1 DEF WorkInv
  <2>3. Something(ptr[w])'
    BY <2>1, <2>2 DEF Something, Unwritten, SockOf
  <2>4. ~rfw[e.ptr]
    BY <2>1, EventObject DEF WriteModeIsTransient, Touches, Working, WorkingPcs
  <2>5. pc' = [pc EXCEPT ![w] = "read"]
    BY <2>1, <2>4
  <2> QED  BY <2>3, <2>5
<1>2. ASSUME NEW w \in Workers, pc[w] = pc'[w], pc[w] \in {"read", "write"}, ptr'[w] = ptr[w]
      PROVE  /\ pc[w] = "read" => Something(ptr[w])'
             /\ pc[w] = "write" => Unwritten(ptr[w])'
  <2>1. PICK p \in Cells : p = ptr[w] /\ Live(p)
    BY <1>2, HandlerOpen DEF HandlerPcs
  <2>2. PICK c \in Conns : c = fdt[cfd[p]]
    BY <2>1, LiveObject
  <2>3. /\ cfd'[p] = cfd[p] /\ fdt'[cfd[p]] = c
        /\ \/ SameBlock(p) /\ (sock'[c] = sock[c] \/ PeerMoves(c))
           \/ Handles(w, p, c)
    <3>1. Working(w, p)
      BY <1>2, <2>1 DEF Working, WorkingPcs
    <3> QED  BY <2>1, <2>2, <3>1, WorkerKeeps
  <2>4. sock[c] \in Sockets
    OBVIOUS
  <2>5. CASE SameBlock(p) /\ (sock'[c] = sock[c] \/ PeerMoves(c))
    <3>1. /\ sock[c].rq # << >> => sock'[c].rq # << >>
          /\ sock[c].fin => sock'[c].fin
          /\ sock[c].rst => sock'[c].rst
      BY <2>4, <2>5, PeerKeeps
    <3>2. Unwritten(p) => Unwritten(p)'
      BY <2>5 DEF SameBlock, Unwritten
    <3>3. pc[w] = "read" =>
            sock[c].rq # << >> \/ sock[c].fin \/ sock[c].rst \/ Unwritten(p)
      BY <2>1, <2>2 DEF WorkInv, Something, SockOf
    <3>4. pc[w] = "write" => Unwritten(p)
      BY <2>1 DEF WorkInv
    <3>5. pc[w] = "read" =>
            sock'[c].rq # << >> \/ sock'[c].fin \/ sock'[c].rst \/ Unwritten(p)'
      BY <3>1, <3>2, <3>3
    <3>6. ptr'[w] = p /\ cfd'[ptr'[w]] = cfd[p] /\ fdt'[cfd'[ptr'[w]]] = c
      BY <1>2, <2>1, <2>3
    <3>7. Unwritten(p)' => Unwritten(ptr[w])'
      BY <3>6 DEF Unwritten
    <3>8. pc[w] = "read" => Something(ptr[w])'
      BY <3>5, <3>6, <3>7 DEF Something, SockOf
    <3> QED  BY <3>2, <3>4, <3>7, <3>8
  <2>6. CASE Handles(w, p, c)
    <3>1. CASE pc[w] = "read"
      <4>1. Reads(p, c)
        BY <1>2, <2>6, <3>1 DEF Handles
      <4> DEFINE b == buf[p]
                 q == sock[c].rq
                 m == ReadCount(p)
                 x == ReadBytes(sock[c], m)
      <4>2. m # 0 /\ q # << >> /\ buf'[p] = b \o x /\ wix'[p] = wix[p]
        BY <4>1 DEF Reads, ReadsData
      <4>3. x \in Seq(Bytes) /\ Len(x) \in Nat \ {0}
        <5>1. m \in Nat \ {0}
          BY <4>2, ConstantsAssumption DEF ReadCount, OverrunAtMostOne
        <5>2. ReadsData(sock[c], m)
          BY <4>2 DEF ReadsData
        <5>3. x \in Seq(Bytes)
          BY <2>4, <5>1, ReadTypes
        <5>4. x # << >>
          BY <2>4, <5>1, <5>2, ReadSome
        <5> HIDE DEF x
        <5> QED  BY <5>3, <5>4, EmptySeq
      <4>4. b \in Seq(Bytes) /\ wix[p] \in Nat /\ Len(b) \in Nat
        OBVIOUS
      <4>5. wix[p] <= Len(b)
        <5>1. ~Dead(sock[c])
          BY <4>2 DEF Dead
        <5> QED  BY <2>1, <2>2, <5>1, LiveFlow DEF BufFlow
      <4> HIDE DEF b, x, m, q
      <4>6. Len(b \o x) = Len(b) + Len(x)
        BY <4>3, <4>4
      <4>7. wix[p] < Len(b \o x)
        BY <4>3, <4>4, <4>5, <4>6
      <4>8. Unwritten(p)'
        BY <4>2, <4>7 DEF Unwritten
      <4>9. ptr'[w] = p
        BY <1>2, <2>1
      <4> QED  BY <3>1, <4>8, <4>9 DEF Something, Unwritten
    <3>2. CASE pc[w] = "write"
      <4>1. wix'[p] < Len(buf'[p])
        BY <1>2, <2>6, <3>2 DEF Handles
      <4>2. ptr'[w] = p
        BY <1>2, <2>1
      <4> QED  BY <3>2, <4>1, <4>2 DEF Unwritten
    <3> QED  BY <1>2, <3>1, <3>2
  <2> QED  BY <2>3, <2>5, <2>6
<1>3. ASSUME NEW w \in Workers, pc'[w] = "read" PROVE Something(ptr[w])'
  BY <1>1, <1>2, <1>3, WorkerMoves DEF Moves
<1>4. ASSUME NEW w \in Workers, pc'[w] = "write" PROVE Unwritten(ptr[w])'
  <2>1. CASE ReadAgain(w) /\ ptr'[w] = ptr[w]
    <3>1. PICK p \in Cells : p = ptr[w] /\ IsOpen(cfd[p])
      BY <2>1, HandlerOpen DEF ReadAgain, At, HandlerPcs
    <3>2. /\ pc[w] = "read" /\ UNCHANGED <<buf, wix>>
          /\ SockOf(cfd[p]).rq = << >> /\ ~SockOf(cfd[p]).fin /\ ~SockOf(cfd[p]).rst
      BY <2>1, <3>1 DEF ReadAgain, ReadsAgain, At
    <3>3. Unwritten(p)
      BY <3>1, <3>2 DEF WorkInv, Something
    <3> QED  BY <2>1, <3>1, <3>2, <3>3 DEF Unwritten
  <2> QED  BY <1>1, <1>2, <1>4, <2>1, WorkerMoves DEF Moves
<1>5. ASSUME NEW w \in Workers, pc'[w] = "rearm", ~arm'[w]
      PROVE  Unwritten(ptr[w])' \/ (SockOf(cfd[ptr[w]]).rst)'
  <2>1. CASE pc[w] = "rearm" /\ ptr'[w] = ptr[w] /\ arm'[w] = arm[w]
    <3>1. PICK p \in Cells : p = ptr[w] /\ Live(p)
      BY <2>1, HandlerOpen DEF HandlerPcs
    <3>2. Unwritten(p) \/ SockOf(cfd[p]).rst
      BY <1>5, <2>1, <3>1 DEF WorkInv
    <3>3. Working(w, p) /\ pc[w] \notin {"read", "write"}
      BY <2>1, <3>1 DEF Working, WorkingPcs
    <3>4. Unwritten(p)' \/ (SockOf(cfd[p]).rst)'
      BY <3>1, <3>2, <3>3, UnwrittenStays
    <3>5. ptr'[w] = p
      BY <2>1, <3>1
    <3> QED  BY <3>4, <3>5 DEF Unwritten, SockOf
  <2>2. CASE WriteAgain(w) /\ ptr'[w] = ptr[w]
    <3>1. pc[w] = "write" /\ UNCHANGED <<buf, wix>>
      BY <2>2 DEF WriteAgain, At
    <3> QED  BY <2>2, <3>1 DEF WorkInv, Unwritten
  <2> QED  BY <1>5, <2>1, <2>2, WorkerMoves DEF Moves
<1>6. ASSUME NEW w \in Workers, NEW e \in batch'[w], e.ptr # ServerData PROVE Something(e.ptr)'
  <2>1. CASE e \in batch[w]
    <3>1. PICK p \in Cells : p = e.ptr /\ Live(p) /\ \A v \in Workers : ~Working(v, p)
      BY <1>6, <2>1, EventObject
    <3>2. Something(p)
      BY <1>6, <2>1, <3>1 DEF WorkInv
    <3>3. Something(p)'
      BY <3>1, <3>2, SomethingStays
    <3> QED  BY <3>1, <3>3
  <2>2. CASE EpollWait(w)
    <3>1. e \in ListenerEvents \cup ConnectionEvents
      BY <1>6, <2>2 DEF EpollWait
    <3>2. Something(e.ptr)
      BY <1>6, <3>1, ReportedWork
    <3> QED  BY <2>2, <3>2 DEF EpollWait, Something, Unwritten, SockOf, cellVars
  <2> QED  BY <1>6, <2>1, <2>2, WorkerMoves DEF Moves
<1>7. ASSUME NEW f \in FDs, "OUT" \in reg'[f].want
      PROVE  Unwritten(reg[f].ptr)' \/ SockOf(f)'.rst
  <2>1. CASE reg'[f] = reg[f]
    <3>1. PICK p \in Cells :
            p = reg[f].ptr /\ Live(p) /\ cfd[p] = f /\ \A v \in Workers : ~Working(v, p)
      BY <1>7, <2>1, ArmedObject
    <3>2. PICK c \in Conns : c = fdt[f]
      BY <3>1, LiveObject
    <3>3. /\ fdt'[f] = c
          /\ \/ SameBlock(p) /\ (sock'[c] = sock[c] \/ PeerMoves(c))
             \/ sock'[c] = sock[c] /\ sock[c].rst
      <4>1. c = fdt[cfd[p]]
        BY <3>1, <3>2
      <4>2. /\ fdt'[cfd[p]] = c
            /\ \/ SameBlock(p) /\ (sock'[c] = sock[c] \/ PeerMoves(c))
               \/ sock'[c] = sock[c] /\ sock[c].rst
        BY <3>1, <4>1, <1>0
      <4> QED  BY <3>1, <4>2
    <3>4. sock[c].rst => sock'[c].rst
      BY <3>3, PeerKeeps
    <3>5. Unwritten(p) \/ sock[c].rst
      BY <1>7, <2>1, <3>1, <3>2 DEF WorkInv, SockOf
    <3>6. Unwritten(p)' \/ sock'[c].rst
      BY <3>3, <3>4, <3>5 DEF Unwritten, SameBlock
    <3>7. reg'[f].ptr = p
      BY <2>1, <3>1
    <3> QED  BY <3>3, <3>6, <3>7 DEF SockOf, Unwritten
  <2>2. ASSUME NEW w \in Workers, RearmEpoll(w), f = cfd[ptr[w]],
               reg'[f] = [on |-> TRUE, want |-> Interest(arm[w]), ptr |-> ptr[w]]
        PROVE  Unwritten(reg[f].ptr)' \/ SockOf(f)'.rst
    <3>1. ~arm[w] /\ reg'[f].ptr = ptr[w]
      BY <1>7, <2>2 DEF Interest
    <3>2. pc[w] \in {"rearm", "rearm_err"} /\ UNCHANGED <<sock, fdt, buf, wix>>
      BY <2>2 DEF RearmEpoll, At, cellVars
    <3>3. Unwritten(ptr[w]) \/ SockOf(f).rst
      BY <2>2, <3>1, <3>2 DEF WorkInv, OwnershipInv, ResetInv
    <3> QED  BY <3>1, <3>2, <3>3 DEF Unwritten, SockOf
  <2>3. \A r \in Registrations : "OUT" \notin AfterDelivery(r).want
    BY DEF AfterDelivery, Registrations
  <2>4. /\ reg'[f] # NotRegistered /\ reg'[f] # AfterDelivery(reg[f])
        /\ \A q : reg'[f] # [on |-> TRUE, want |-> {"IN"}, ptr |-> q]
    BY <1>7, <2>3 DEF NotRegistered
  <2> QED  BY <2>1, <2>2, <2>4, RegSteps
<1> QED  BY <1>3, <1>4, <1>5, <1>6, <1>7 DEF WorkInv

-----------------------------------------------------------------------------
(* What ends the process, and SIGPIPE.                                      *)

\* Nothing happens in a process that has ended, and three calls can end it.
LEMMA ProcSteps ==
    ASSUME [Next]_vars
    PROVE  /\ proc # "up" => UNCHANGED vars
           /\ \/ proc' = proc
              \/ \E w \in Workers : EpollWaitFails(w) \/ DispatchNull(w) \/ WriteSigpipe(w)
<1> USE DEF At
<1>1. ASSUME NEW c \in Conns, PeerStep(c) PROVE proc = "up" /\ proc' = proc
  BY <1>1 DEF PeerStep, Connect, PeerSend, PeerRead, PeerFin, PeerReset, Connected
<1>2. ASSUME NEW w \in Workers, EpollWait(w) \/ AcceptConnections(w)
      PROVE  proc = "up" /\ proc' = proc
  BY <1>2 DEF EpollWait, AcceptConnections, AcceptNone, AcceptConn, InsertNew, InsertCollides,
              EpollAdd, EpollAddFails
<1>3. ASSUME NEW w \in Workers,
             DispatchListener(w) \/ DispatchClose(w) \/ DispatchHangup(w) \/ DispatchHandler(w)
      PROVE  proc = "up" /\ proc' = proc
  BY <1>3 DEF DispatchListener, DispatchClose, DispatchHangup, DispatchHandler
<1>4. ASSUME NEW w \in Workers,
             \/ ReadData(w) \/ ReadEof(w) \/ ReadAgain(w) \/ ReadError(w) \/ WriteData(w)
             \/ WriteAgain(w) \/ WriteError(w) \/ RearmEpoll(w) \/ Reset(w)
      PROVE  proc = "up" /\ proc' = proc
  BY <1>4 DEF ReadData, ReadEof, ReadAgain, ReadError, WriteData, WriteAgain, WriteError,
              RearmEpoll, Reset
<1>5. ASSUME NEW w \in Workers, CloseConnection(w) PROVE proc = "up" /\ proc' = proc
  BY <1>5 DEF CloseConnection, Remove, EpollDel, CloseFd, AssignFd
<1>6. ASSUME NEW w \in Workers, EpollWaitFails(w) \/ DispatchNull(w) \/ WriteSigpipe(w)
      PROVE  proc = "up"
  BY <1>6 DEF EpollWaitFails, DispatchNull, WriteSigpipe
<1>7. CASE UNCHANGED vars
  BY <1>7 DEF vars
<1> QED  BY <1>1, <1>2, <1>3, <1>4, <1>5, <1>6, <1>7
         DEF Next, WorkerStep, Dispatch, HandleConnectionEvent

\* An ended or reset connection stays so, and EPIPE needs both.
LEMMA SocketGrows ==
    ASSUME Inv, [Next]_vars, NEW c \in Conns
    PROVE  /\ sock[c].fin => sock'[c].fin
           /\ sock[c].rst => sock'[c].rst
           /\ sock'[c].err = "EPIPE" => sock[c].err = "EPIPE" \/ (sock'[c].fin /\ sock'[c].rst)
<1>1. sock[c] \in Sockets
  BY DEF Inv, TypeInv, TypeOK
<1>2. CASE PeerMoves(c)
  BY <1>1, <1>2, PeerKeeps
<1>3. ASSUME NEW w \in Workers, Handles(w, ptr[w], c)
      PROVE  /\ sock[c].fin = sock'[c].fin /\ sock[c].rst = sock'[c].rst
             /\ sock'[c].err \in {sock[c].err, "none"}
  <2>1. PICK p : p = ptr[w] /\ (Reads(p, c) \/ Writes(p, c) \/ Clears(p, c) \/ Forgets(p, c))
    BY <1>3 DEF Handles
  <2>2. CASE Reads(p, c)
    BY <1>1, <2>2 DEF Reads, AfterRead, Sockets
  <2>3. CASE Writes(p, c)
    BY <1>1, <2>3 DEF Writes, AfterWrite, Sockets
  <2>4. CASE Clears(p, c)
    BY <1>1, <2>4 DEF Clears, ClearError, Sockets
  <2>5. CASE Forgets(p, c)
    BY <2>5 DEF Forgets
  <2> QED  BY <2>1, <2>2, <2>3, <2>4, <2>5
<1> QED  BY <1>2, <1>3, SocketSteps

LEMMA SignalNext ==
    ASSUME Inv, OpenInv, SignalInv, [Next]_vars
    PROVE  SignalInv'
<1> USE DEF Inv, TypeInv, TypeOK
<1>1. ASSUME NEW c \in Conns, sock'[c].err = "EPIPE" PROVE sock'[c].fin /\ sock'[c].rst
  BY <1>1, SocketGrows DEF SignalInv
<1>2. ASSUME NEW w \in Workers, pc'[w] \in {"read", "write"}
      PROVE  ResetUnseen(sock'[fdt'[cfd'[ptr'[w]]]])
  <2>1. CASE pc[w] \in {"read", "write"} /\ ptr'[w] = ptr[w]
    <3>1. PICK p \in Cells : p = ptr[w] /\ Live(p)
      BY <2>1, HandlerOpen DEF HandlerPcs
    <3>2. PICK c \in Conns : c = fdt[cfd[p]]
      BY <3>1, LiveObject
    <3>3. Working(w, p)
      BY <2>1, <3>1 DEF Working, WorkingPcs
    <3>4. /\ cfd'[p] = cfd[p] /\ fdt'[cfd[p]] = c
          /\ \/ SameBlock(p) /\ (sock'[c] = sock[c] \/ PeerMoves(c))
             \/ Handles(w, p, c)
      BY <3>1, <3>2, <3>3, WorkerKeeps
    <3>5. ResetUnseen(sock[c]) /\ sock[c] \in Sockets
      BY <2>1, <3>1, <3>2 DEF SignalInv, SockOf
    <3>6. ASSUME Handles(w, p, c) PROVE ResetUnseen(sock'[c])
      <4>1. Reads(p, c) \/ Writes(p, c)
        BY <1>2, <2>1, <3>6 DEF Handles
      <4>2. sock'[c].rst = sock[c].rst /\ sock'[c].err = sock[c].err
        <5>1. CASE Reads(p, c)
          BY <3>5, <5>1 DEF Reads, AfterRead, Sockets
        <5>2. CASE Writes(p, c)
          BY <3>5, <5>2 DEF Writes, AfterWrite, Sockets
        <5> QED  BY <4>1, <5>1, <5>2
      <4> QED  BY <3>5, <4>2 DEF ResetUnseen
    <3>7. ASSUME PeerMoves(c) PROVE ResetUnseen(sock'[c])
      BY <3>5, <3>7, PeerKeeps
    <3>8. ResetUnseen(sock'[c])
      BY <3>4, <3>5, <3>6, <3>7
    <3> QED  BY <2>1, <3>1, <3>4, <3>8
  <2>2. CASE DispatchHandler(w)
    <3>1. PICK e \in batch[w] :
            /\ e.ptr \in Cells /\ e.ptr # ServerData /\ "HUP" \notin e.ev
            /\ ptr' = [ptr EXCEPT ![w] = e.ptr]
            /\ UNCHANGED <<sock, fdt, cfd>>
      BY <2>2, ConstantsAssumption DEF DispatchHandler, kernelVars, cellVars
    <3> QED  BY <3>1 DEF SignalInv, SockOf
  <2>3. CASE ReadAgain(w) /\ ptr'[w] = ptr[w]
    BY <2>1, <2>3 DEF ReadAgain, At
  <2> QED  BY <1>2, <2>1, <2>2, <2>3, WorkerMoves DEF Moves
<1>3. ASSUME NEW w \in Workers, NEW e \in batch'[w], e.ptr # ServerData, "HUP" \notin e.ev
      PROVE  ResetUnseen(sock'[fdt'[cfd'[e.ptr]]])
  <2>1. CASE e \in batch[w]
    <3>1. PICK p \in Cells : p = e.ptr /\ Live(p) /\ \A v \in Workers : ~Working(v, p)
      BY <1>3, <2>1, EventObject
    <3>2. PICK c \in Conns : c = fdt[cfd[p]]
      BY <3>1, LiveObject
    <3>3. /\ cfd'[p] = cfd[p] /\ fdt'[cfd[p]] = c
          /\ \/ SameBlock(p) /\ (sock'[c] = sock[c] \/ PeerMoves(c))
             \/ sock'[c] = sock[c] /\ sock[c].rst
      BY <3>1, <3>2, IdleKeeps
    <3>4. ResetUnseen(sock[c])
      BY <1>3, <2>1, <3>1, <3>2 DEF SignalInv, SockOf
    <3>5. ResetUnseen(sock'[c])
      BY <3>3, <3>4, PeerKeeps
    <3> QED  BY <3>1, <3>3, <3>5
  <2>2. CASE EpollWait(w)
    <3>1. e \in ListenerEvents \cup ConnectionEvents /\ UNCHANGED <<sock, fdt, cfd>>
      BY <1>3, <2>2 DEF EpollWait, cellVars
    <3>2. PICK f \in ReadyFds :
            e.ptr = reg[f].ptr /\ reg[f].want # {} /\ (SockOf(f).rst => "HUP" \in e.ev)
      BY <1>3, <3>1, ReportedEvents
    <3>3. f \in FDs /\ cfd[e.ptr] = f
      BY <3>2, ArmedObject DEF ReadyFds
    <3> QED  BY <1>3, <3>1, <3>2, <3>3 DEF ResetUnseen, SockOf
  <2> QED  BY <1>3, <2>1, <2>2, WorkerMoves DEF Moves
<1>4. SigpipeNeedsFin'
  <2> SUFFICES ASSUME proc' = "sigpipe" PROVE \E c \in Conns : sock'[c].fin /\ sock'[c].rst
    BY DEF SigpipeNeedsFin
  <2>1. CASE proc' = proc
    <3>1. PICK c \in Conns : sock[c].fin /\ sock[c].rst
      BY <2>1 DEF SignalInv, SigpipeNeedsFin
    <3> QED  BY <3>1, SocketGrows
  <2>2. ASSUME NEW w \in Workers, WriteSigpipe(w)
        PROVE  \E c \in Conns : sock'[c].fin /\ sock'[c].rst
    <3>1. PICK p \in Cells : p = ptr[w] /\ Live(p) /\ IsOpen(cfd[p])
      BY <2>2, HandlerOpen DEF WriteSigpipe, At, HandlerPcs
    <3>2. PICK c \in Conns : c = fdt[cfd[p]]
      BY <3>1, LiveObject
    <3>3. pc[w] = "write" /\ WritesSigpipe(sock[c]) /\ sock' = sock
      BY <2>2, <3>1, <3>2 DEF WriteSigpipe, At, SockOf, kernelVars
    <3>4. ResetUnseen(sock[c])
      BY <3>1, <3>2, <3>3 DEF SignalInv, SockOf
    <3>5. sock[c].err = "EPIPE"
      BY <3>3, <3>4 DEF WritesSigpipe, ResetUnseen
    <3> QED  BY <3>3, <3>5 DEF SignalInv
  <2>3. ASSUME NEW w \in Workers, EpollWaitFails(w) \/ DispatchNull(w) PROVE FALSE
    BY <2>3 DEF EpollWaitFails, DispatchNull
  <2> QED  BY <2>1, <2>2, <2>3, ProcSteps
<1> QED  BY <1>1, <1>2, <1>3, <1>4 DEF SignalInv, SockOf

-----------------------------------------------------------------------------
(* Nobody leaves a living connection with its registration disarmed.        *)

\* data_ forgets an object only in remove().
LEMMA UnmappedSteps ==
    ASSUME Inv, [Next]_vars, NEW f \in FDs, data'[f] # data[f]
    PROVE  \E w \in Workers :
              \/ InsertNew(w) /\ newfd[w] = f
              \/ Remove(w) /\ cfd[ptr[w]] = f
<1> USE DEF Inv, TypeInv, TypeOK
<1>1. ASSUME NEW c \in Conns, PeerStep(c) PROVE UNCHANGED data
  BY <1>1 DEF PeerStep, Connect, PeerSend, PeerRead, PeerFin, PeerReset, heapVars
<1>2. ASSUME NEW w \in Workers,
             \/ ReadData(w) \/ ReadError(w) \/ WriteData(w) \/ WriteError(w)
             \/ Reset(w) \/ AcceptConn(w) \/ CloseFd(w)
      PROVE  UNCHANGED data
  BY <1>2 DEF ReadData, ReadError, WriteData, WriteError, Reset, AcceptConn, CloseFd, heapVars
<1>3. ASSUME NEW w \in Workers, Remove(w) PROVE data'[f] = data[f] \/ cfd[ptr[w]] = f
  BY <1>3 DEF Remove
<1>4. ASSUME NEW w \in Workers, InsertNew(w) PROVE data'[f] = data[f] \/ newfd[w] = f
  BY <1>4 DEF InsertNew
<1> QED  BY <1>1, <1>2, <1>3, <1>4, ByteSteps

\* A registered descriptor that stays registered keeps its connection.
LEMMA RegisteredStays ==
    ASSUME Inv, [Next]_vars, NEW f \in FDs, reg[f].on, reg'[f].on
    PROVE  \E c \in Conns : fdt[f] = c /\ fdt'[f] = c
<1> USE DEF Inv, TypeInv, TypeOK
<1>1. fdt[f] # NoConn /\ fdt'[f] # NoConn
  <2>1. Inv'
    BY InvNext
  <2> QED  BY <2>1 DEF OwnershipInv, RegInv
<1>2. ASSUME NEW c \in Conns, PeerStep(c) PROVE UNCHANGED fdt
  BY <1>2 DEF PeerStep, Connect, PeerSend, PeerRead, PeerFin, PeerReset
<1>3. ASSUME NEW w \in Workers,
             \/ ReadData(w) \/ ReadError(w) \/ WriteData(w) \/ WriteError(w)
             \/ Reset(w) \/ InsertNew(w) \/ Remove(w)
      PROVE  UNCHANGED fdt
  BY <1>3 DEF ReadData, ReadError, WriteData, WriteError, Reset, InsertNew, Remove, kernelVars
<1>4. ASSUME NEW w \in Workers, AcceptConn(w) \/ CloseFd(w) PROVE fdt'[f] = fdt[f]
  BY <1>1, <1>4 DEF AcceptConn, IsLowestFree, FreeFds, CloseFd
<1> QED  BY <1>1, <1>2, <1>3, <1>4, ByteSteps

\* A registration is that of the mapped object until the object is removed.
LEMMA MappedNext ==
    ASSUME Inv, LostInv, [Next]_vars, NEW f \in FDs, reg'[f].on
    PROVE  (reg'[f].ptr \in Cells /\ data'[f] = reg'[f].ptr) \/ (SockOf(f).rst)'
<1> USE DEF Inv, TypeInv, TypeOK
<1>1. CASE reg'[f].ptr = reg[f].ptr /\ reg[f].on
  <2>1. PICK c \in Conns : fdt[f] = c /\ fdt'[f] = c
    BY <1>1, RegisteredStays
  <2>2. CASE SockOf(f).rst
    BY <2>1, <2>2, SocketGrows DEF SockOf
  <2>3. CASE data'[f] = data[f]
    BY <1>1, <2>2, <2>3 DEF LostInv
  <2>4. ASSUME NEW w \in Workers, InsertNew(w), newfd[w] = f PROVE FALSE
    BY <1>1, <2>4 DEF InsertNew, At, LostInv
  <2>5. ASSUME NEW w \in Workers, Remove(w), cfd[ptr[w]] = f PROVE SockOf(f).rst
    BY <2>5 DEF Remove, At, OwnershipInv, CloseInv
  <2> QED  BY <2>2, <2>3, <2>4, <2>5, UnmappedSteps
<1>2. ASSUME NEW w \in Workers, EpollAdd(w), f = newfd[w],
             reg'[f] = [on |-> TRUE, want |-> {"IN"}, ptr |-> ptr[w]]
      PROVE  reg'[f].ptr \in Cells /\ data'[f] = reg'[f].ptr
  <2>1. pc[w] = "add" /\ UNCHANGED data
    BY <1>2 DEF EpollAdd, At, heapVars
  <2>2. data[newfd[w]] = ptr[w] /\ ptr[w] \in Cells
    BY <2>1, HandlerOpen DEF OwnershipInv, HoldInv
  <2> QED  BY <1>2, <2>1, <2>2
<1>3. ASSUME NEW w \in Workers, RearmEpoll(w), f = cfd[ptr[w]],
             reg'[f] = [on |-> TRUE, want |-> Interest(arm[w]), ptr |-> ptr[w]]
      PROVE  reg'[f].ptr \in Cells /\ data'[f] = reg'[f].ptr
  <2>1. pc[w] \in HandlerPcs /\ UNCHANGED data
    BY <1>3 DEF RearmEpoll, At, heapVars, HandlerPcs
  <2>2. data[cfd[ptr[w]]] = ptr[w] /\ ptr[w] \in Cells
    BY <2>1, HandlerOpen DEF Live
  <2> QED  BY <1>3, <2>1, <2>2
<1>4. CASE reg'[f] = AfterDelivery(reg[f])
  <2>1. reg[f] \in Registrations
    OBVIOUS
  <2>2. AfterDelivery(reg[f]).ptr = reg[f].ptr /\ AfterDelivery(reg[f]).on = reg[f].on
    BY <2>1 DEF AfterDelivery, Registrations
  <2>3. reg'[f].ptr = reg[f].ptr /\ reg[f].on
    BY <1>4, <2>2
  <2> QED  BY <1>1, <2>3
<1>5. reg'[f] # NotRegistered
  BY DEF NotRegistered
<1> QED  BY <1>1, <1>2, <1>3, <1>4, <1>5, RegSteps

\* A descriptor on its way to EPOLL_CTL_ADD is not registered yet.
LEMMA UnregisteredNext ==
    ASSUME Inv, LostInv, [Next]_vars, NEW w \in Workers, pc'[w] \in {"insert", "add"}
    PROVE  ~reg'[newfd'[w]].on
<1> USE DEF Inv, TypeInv, TypeOK
<1>1. CASE pc[w] \in {"insert", "add"} /\ newfd'[w] = newfd[w]
  <2>1. PICK f \in FDs : f = newfd[w] /\ ~reg[f].on
    BY <1>1 DEF LocalsInv, LostInv
  <2>2. ASSUME NEW v \in Workers, EpollAdd(v), f = newfd[v] PROVE FALSE
    <3>1. pc[v] = "add" /\ pc'[v] = "accept"
      BY <2>2 DEF EpollAdd, At
    <3>2. data[f] = ptr[v] /\ ptr[v] \in Cells
      BY <2>2, <3>1, HandlerOpen DEF OwnershipInv, HoldInv
    <3>3. CASE pc[w] = "insert"
      BY <2>1, <3>2, <3>3, ConstantsAssumption DEF OwnershipInv, ClaimInv, Claims
    <3>4. CASE pc[w] = "add"
      <4>1. Working(v, ptr[v]) /\ Touches(w, ptr[v])
        BY <2>1, <3>1, <3>2, <3>4 DEF OwnershipInv, HoldInv, Working, WorkingPcs, Touches
      <4>2. v = w
        BY <3>2, <4>1, SoleWorker
      <4> QED  BY <3>1, <4>2
    <3> QED  BY <1>1, <3>3, <3>4
  <2>3. ~reg'[f].on
    <3>1. reg[f] \in Registrations
      OBVIOUS
    <3>2. ~NotRegistered.on /\ ~AfterDelivery(reg[f]).on
      BY <2>1, <3>1 DEF NotRegistered, AfterDelivery, Registrations
    <3> QED  BY <2>1, <2>2, <3>2, RegSteps
  <2> QED  BY <1>1, <2>1, <2>3
<1>2. CASE AcceptConn(w)
  <2>1. PICK f \in FDs : newfd' = [newfd EXCEPT ![w] = f] /\ fdt[f] = NoConn /\ UNCHANGED reg
    BY <1>2 DEF AcceptConn, IsLowestFree, FreeFds
  <2>2. ~reg[f].on
    BY <2>1 DEF OwnershipInv, RegInv
  <2> QED  BY <2>1, <2>2
<1>3. CASE InsertNew(w)
  <2>1. pc[w] = "insert" /\ UNCHANGED <<reg, newfd>>
    BY <1>3 DEF InsertNew, At, kernelVars
  <2> QED  BY <2>1 DEF LostInv
<1> QED  BY <1>1, <1>2, <1>3, WorkerMoves DEF Moves

\* A hang-up is reported of reset connections only.
LEMMA HangupNext ==
    ASSUME Inv, LostInv, [Next]_vars, NEW w \in Workers, NEW e \in batch'[w],
           e.ptr # ServerData, "HUP" \in e.ev
    PROVE  sock'[fdt'[cfd'[e.ptr]]].rst
<1> USE DEF Inv, TypeInv, TypeOK
<1>1. CASE e \in batch[w]
  <2>1. PICK p \in Cells : p = e.ptr /\ Live(p)
    BY <1>1, EventObject
  <2>2. PICK c \in Conns : c = fdt[cfd[p]]
    BY <2>1, LiveObject
  <2>3. cfd'[p] = cfd[p] /\ fdt'[cfd[p]] = c
    BY <2>1, <2>2, LiveKeeps
  <2>4. sock[c].rst
    BY <1>1, <2>1, <2>2 DEF LostInv, SockOf
  <2> QED  BY <2>1, <2>3, <2>4, SocketGrows
<1>2. CASE EpollWait(w)
  <2>1. e \in ListenerEvents \cup ConnectionEvents /\ UNCHANGED <<sock, fdt, cfd>>
    BY <1>2 DEF EpollWait, cellVars
  <2>2. PICK f \in ReadyFds : e.ptr = reg[f].ptr /\ e.ev = ReadyEvents(f) /\ reg[f].want # {}
    BY <2>1, ReportedEvents
  <2>3. f \in FDs /\ cfd[e.ptr] = f
    BY <2>2, ArmedObject DEF ReadyFds
  <2>4. "HUP" \in PollMask(sock[fdt[f]])
    BY <2>2 DEF ReadyEvents
  <2>5. sock[fdt[f]].rst
    BY <2>4 DEF PollMask
  <2> QED  BY <2>1, <2>3, <2>5
<1> QED  BY <1>1, <1>2, WorkerMoves DEF Moves

\* How a worker lets go of an object.
Releases(w, p) ==
    \/ \E e \in batch[w] : e.ptr = p /\ "HUP" \in e.ev
    \/ /\ ptr[w] = p
       /\ \/ EpollAdd(w) \/ EpollAddFails(w) \/ ReadEof(w) \/ Reset(w) \/ AssignFd(w)
          \/ pc[w] = "rearm" /\ RearmEpoll(w)

LEMMA EventHolds ==
    ASSUME Inv, [Next]_vars, NEW w \in Workers, NEW e \in batch[w], e.ptr \in Cells,
           "HUP" \notin e.ev
    PROVE  Holds(w, e.ptr)'
<1> USE DEF Inv, TypeInv, TypeOK, kernelVars, cellVars, heapVars, workerVars
<1>1. e \in batch'[w] => Holds(w, e.ptr)'
  BY DEF Holds
<1>2. CASE UNCHANGED vars
  BY <1>1, <1>2 DEF vars
<1>3. ASSUME NEW c \in Conns, PeerStep(c) PROVE UNCHANGED batch
  BY <1>3 DEF PeerStep, Connect, PeerSend, PeerRead, PeerFin, PeerReset
<1>4. ASSUME NEW v \in Workers, EpollWait(v) PROVE e \in batch'[w]
  BY <1>4 DEF EpollWait
<1>5. ASSUME NEW v \in Workers,
             EpollWaitFails(v) \/ AcceptConnections(v) \/ HandleConnectionEvent(v) \/ CloseConnection(v)
      PROVE  UNCHANGED batch
  <2>1. CASE EpollWaitFails(v) \/ AcceptConnections(v) \/ CloseConnection(v)
    BY <2>1 DEF EpollWaitFails, AcceptConnections, AcceptNone, AcceptConn, InsertNew,
                InsertCollides, EpollAdd, EpollAddFails, CloseConnection, Remove, EpollDel,
                CloseFd, AssignFd
  <2>2. CASE HandleConnectionEvent(v)
    BY <2>2 DEF HandleConnectionEvent, ReadData, ReadEof, ReadAgain, ReadError, WriteData,
                WriteAgain, WriteError, WriteSigpipe, RearmEpoll, Reset
  <2> QED  BY <1>5, <2>1, <2>2
<1>6. ASSUME NEW v \in Workers, Dispatch(v) PROVE Holds(w, e.ptr)'
  <2>1. CASE DispatchListener(v)
    BY <1>1, <2>1, ConstantsAssumption DEF DispatchListener
  <2>2. CASE DispatchNull(v)
    BY <1>1, <2>2 DEF DispatchNull
  <2>3. CASE DispatchHangup(v)
    BY <1>1, <2>3 DEF DispatchHangup
  <2>4. CASE DispatchClose(v)
    <3>1. PICK g \in batch[v] :
            /\ g.ptr \in Cells /\ batch' = [batch EXCEPT ![v] = @ \ {g}]
            /\ \/ cfd[g.ptr] < 0
               \/ pc' = [pc EXCEPT ![v] = "remove"] /\ ptr' = [ptr EXCEPT ![v] = g.ptr]
      BY <2>4 DEF DispatchClose
    <3>2. cfd[g.ptr] \in Nat
      BY <3>1, EventObject, LiveObject, ConstantsAssumption
    <3>3. pc' = [pc EXCEPT ![v] = "remove"] /\ ptr' = [ptr EXCEPT ![v] = g.ptr]
      BY <3>1, <3>2
    <3>4. CASE v = w /\ g = e
      BY <3>3, <3>4 DEF Holds, Touches, ClosePcs
    <3>5. CASE ~(v = w /\ g = e)
      BY <1>1, <3>1, <3>5
    <3> QED  BY <3>4, <3>5
  <2>5. CASE DispatchHandler(v)
    <3>1. PICK g \in batch[v], call \in {"read", "write"} :
            /\ batch' = [batch EXCEPT ![v] = @ \ {g}]
            /\ pc' = [pc EXCEPT ![v] = call] /\ ptr' = [ptr EXCEPT ![v] = g.ptr]
      BY <2>5 DEF DispatchHandler
    <3>2. CASE v = w /\ g = e
      BY <3>1, <3>2 DEF Holds, Touches, HandlerPcs
    <3>3. CASE ~(v = w /\ g = e)
      BY <1>1, <3>1, <3>3
    <3> QED  BY <3>2, <3>3
  <2> QED  BY <1>6, <2>1, <2>2, <2>3, <2>4, <2>5 DEF Dispatch
<1> QED  BY <1>1, <1>2, <1>3, <1>4, <1>5, <1>6 DEF Next, WorkerStep

LEMMA TouchHolds ==
    ASSUME Inv, [Next]_vars, NEW w \in Workers, NEW p \in Cells, Touches(w, p)
    PROVE  Holds(w, p)' \/ Releases(w, p)
<1> USE DEF Inv, TypeInv, TypeOK, At, kernelVars, cellVars, heapVars, workerVars
<1>1. ptr'[w] = p /\ pc'[w] \in {"add"} \cup HandlerPcs \cup ClosePcs => Holds(w, p)'
  BY DEF Holds, Touches
<1>2. /\ ptr[w] = p /\ pc[w] \in {"add"} \cup HandlerPcs \cup ClosePcs
      /\ pc[w] \notin {"loop", "accept", "insert"}
  BY DEF Touches, HandlerPcs, ClosePcs
<1>3. CASE UNCHANGED vars
  BY <1>1, <1>2, <1>3 DEF vars
<1>4. ASSUME NEW c \in Conns, PeerStep(c) PROVE UNCHANGED <<pc, ptr>>
  BY <1>4 DEF PeerStep, Connect, PeerSend, PeerRead, PeerFin, PeerReset
<1>5. ASSUME NEW v \in Workers,
             \/ EpollWait(v) \/ EpollWaitFails(v) \/ Dispatch(v)
             \/ AcceptNone(v) \/ AcceptConn(v) \/ InsertNew(v) \/ InsertCollides(v)
      PROVE  ptr'[w] = p /\ pc'[w] = pc[w]
  <2>1. CASE EpollWait(v) \/ EpollWaitFails(v) \/ Dispatch(v)
    BY <1>2, <2>1 DEF EpollWait, EpollWaitFails, Dispatch, DispatchListener, DispatchClose,
                      DispatchHangup, DispatchHandler, DispatchNull
  <2>2. CASE AcceptNone(v) \/ AcceptConn(v) \/ InsertNew(v) \/ InsertCollides(v)
    BY <1>2, <2>2 DEF AcceptNone, AcceptConn, InsertNew, InsertCollides
  <2> QED  BY <1>5, <2>1, <2>2
<1>6. ASSUME NEW v \in Workers,
             EpollAdd(v) \/ EpollAddFails(v) \/ ReadEof(v) \/ Reset(v) \/ AssignFd(v)
      PROVE  Releases(w, p) \/ (ptr'[w] = p /\ pc'[w] = pc[w])
  BY <1>2, <1>6 DEF EpollAdd, EpollAddFails, ReadEof, Reset, AssignFd, Releases
<1>7. ASSUME NEW v \in Workers, RearmEpoll(v)
      PROVE  Releases(w, p) \/ (ptr'[w] = p /\ pc'[w] \in {pc[w], "reset"})
  <2>1. CASE v = w /\ pc[v] = "rearm"
    BY <1>2, <1>7, <2>1 DEF Releases
  <2>2. CASE v = w /\ pc[v] # "rearm"
    <3>1. pc' = [pc EXCEPT ![v] = "reset"] /\ UNCHANGED ptr
      BY <1>7, <2>2 DEF RearmEpoll
    <3> QED  BY <1>2, <2>2, <3>1
  <2>3. CASE v # w
    <3>1. pc'[w] = pc[w] /\ ptr'[w] = ptr[w]
      BY <1>7, <2>3 DEF RearmEpoll
    <3> QED  BY <1>2, <3>1
  <2> QED  BY <2>1, <2>2, <2>3
<1>8. ASSUME NEW v \in Workers,
             ReadData(v) \/ ReadAgain(v) \/ ReadError(v) \/ WriteAgain(v) \/ WriteError(v) \/ WriteSigpipe(v)
      PROVE  ptr'[w] = p /\ pc'[w] \in {pc[w], "write", "rearm", "rearm_err"}
  BY <1>2, <1>8 DEF ReadData, ReadAgain, ReadError, WriteAgain, WriteError, WriteSigpipe
<1>9. ASSUME NEW v \in Workers, WriteData(v)
      PROVE  ptr'[w] = p /\ pc'[w] \in {pc[w], "write", "rearm"}
  <2>1. PICK call \in {"write", "rearm"} : pc' = [pc EXCEPT ![v] = call] /\ UNCHANGED ptr
    BY <1>9 DEF WriteData
  <2> QED  BY <1>2, <2>1
<1>10. ASSUME NEW v \in Workers, Remove(v) \/ EpollDel(v) \/ CloseFd(v)
       PROVE  ptr'[w] = p /\ pc'[w] \in {pc[w], "del", "close", "assign"}
  BY <1>2, <1>10 DEF Remove, EpollDel, CloseFd
<1>11. {"write", "rearm", "rearm_err", "reset", "del", "close", "assign"} \subseteq HandlerPcs \cup ClosePcs
  BY DEF HandlerPcs, ClosePcs
<1> QED  BY <1>1, <1>2, <1>3, <1>4, <1>5, <1>6, <1>7, <1>8, <1>9, <1>10, <1>11
         DEF Next, WorkerStep, AcceptConnections, HandleConnectionEvent, CloseConnection

\* An object that has left a worker is armed, or its connection is given up on.
LEMMA ReleaseReasons ==
    ASSUME Inv, LostInv, [Next]_vars, NEW w \in Workers, NEW p \in Cells, Live(p),
           reg[cfd[p]].on, reg[cfd[p]].want = {}, Releases(w, p)
    PROVE  \/ reg'[cfd[p]].want # {}
           \/ SockOf(cfd[p]).fin \/ SockOf(cfd[p]).rst \/ Len(buf[p]) > BufSize
<1> USE DEF Inv, TypeInv, TypeOK, At
<1>1. PICK f \in FDs : f = cfd[p] /\ data[f] = p /\ IsOpen(f)
  BY LiveObject, ConstantsAssumption DEF Live, IsOpen
<1>2. ASSUME NEW e \in batch[w], e.ptr = p, "HUP" \in e.ev PROVE SockOf(f).rst
  BY <1>1, <1>2, ConstantsAssumption DEF LostInv
<1>3. CASE ptr[w] = p /\ (EpollAdd(w) \/ EpollAddFails(w))
  <2>1. pc[w] = "add"
    BY <1>3 DEF EpollAdd, EpollAddFails
  <2>2. newfd[w] \in FDs /\ data[newfd[w]] = p /\ ~reg[newfd[w]].on
    BY <1>3, <2>1 DEF OwnershipInv, HoldInv, LocalsInv, LostInv
  <2>3. newfd[w] = f
    BY <1>1, <2>2, ConstantsAssumption DEF OwnershipInv, DataInv
  <2> QED  BY <1>1, <2>2, <2>3
<1>4. CASE ptr[w] = p /\ ReadEof(w)
  <2>1. ReadsEof(SockOf(f), ReadCount(p))
    BY <1>1, <1>4 DEF ReadEof
  <2>2. CASE ReadCount(p) = 0
    <3>1. Len(buf[p]) \in Nat /\ BufSize - Len(buf[p]) + 1 = 0 /\ BufSize \in Nat
      BY <2>2, ConstantsAssumption DEF ReadCount
    <3>2. Len(buf[p]) > BufSize
      BY ONLY <3>1
    <3> QED  BY <3>2
  <2> QED  BY <1>1, <2>1, <2>2 DEF ReadsEof
<1>5. CASE ptr[w] = p /\ Reset(w)
  BY <1>1, <1>5 DEF Reset, OwnershipInv, ResetInv
<1>6. CASE ptr[w] = p /\ AssignFd(w)
  BY <1>1, <1>6 DEF AssignFd, OwnershipInv, HoldInv
<1>7. CASE ptr[w] = p /\ RearmEpoll(w)
  <2>1. reg' = [reg EXCEPT ![f] = [on |-> TRUE, want |-> Interest(arm[w]), ptr |-> p]]
    BY <1>1, <1>7 DEF RearmEpoll
  <2>2. Interest(arm[w]) # {}
    BY DEF Interest
  <2>3. reg'[f].want = Interest(arm[w])
    BY <2>1
  <2> QED  BY <1>1, <2>2, <2>3
<1> QED  BY <1>1, <1>2, <1>3, <1>4, <1>5, <1>6, <1>7 DEF Releases

LEMMA NoLostNext ==
    ASSUME Inv, FlowInv, LostInv, [Next]_vars, NEW f \in FDs, reg'[f].on, reg'[f].want = {}
    PROVE  \/ \E w \in Workers : Holds(w, reg[f].ptr)'
           \/ (SockOf(f).fin)' \/ (SockOf(f).rst)'
           \/ Len(buf'[reg'[f].ptr]) > BufSize
<1> USE DEF Inv, TypeInv, TypeOK
<1>1. CASE reg'[f] = reg[f]
  <2>1. PICK c \in Conns : fdt[f] = c /\ fdt'[f] = c
    BY <1>1, RegisteredStays
  <2>2. CASE SockOf(f).rst
    BY <2>1, <2>2, SocketGrows DEF SockOf
  <2>3. CASE SockOf(f).fin
    BY <2>1, <2>3, SocketGrows DEF SockOf
  <2>4. CASE reg[f].ptr \in Cells /\ data[f] = reg[f].ptr /\ ~SockOf(f).rst /\ ~SockOf(f).fin
    <3>1. PICK p \in Cells : p = reg[f].ptr /\ Live(p) /\ cfd[p] = f /\ c = fdt[cfd[p]]
      <4>1. PICK p \in Cells : p = reg[f].ptr /\ data[f] = p
        BY <2>4
      <4>2. cfd[p] = f
        BY <4>1, ConstantsAssumption DEF OwnershipInv, DataInv
      <4> QED  BY <2>1, <4>1, <4>2 DEF Live
    <3>2. CASE Len(buf[p]) > BufSize
      <4>1. \/ sock'[c] = sock[c] /\ SameBlock(p)
            \/ PeerMoves(c) /\ SameBlock(p)
            \/ \E w \in Workers : Handles(w, p, c)
        BY <3>1, ObjectStep DEF FlowInv
      <4>2. ASSUME NEW w \in Workers, Handles(w, p, c) PROVE Len(buf'[p]) > BufSize
        <5>1. CASE Reads(p, c)
          <6> DEFINE b == buf[p]
                     x == ReadBytes(sock[c], ReadCount(p))
          <6>1. ReadCount(p) \in Nat
            BY ConstantsAssumption DEF ReadCount, OverrunAtMostOne
          <6>2. x \in Seq(Bytes) /\ b \in Seq(Bytes)
            BY <6>1, ReadTypes
          <6>3. buf'[p] = b \o x
            BY <5>1 DEF Reads
          <6>4. Len(b) > BufSize /\ BufSize \in Nat
            BY <3>2, ConstantsAssumption
          <6> HIDE DEF b, x
          <6>5. Len(b \o x) = Len(b) + Len(x) /\ Len(b) \in Nat /\ Len(x) \in Nat
            BY <6>2
          <6>6. Len(b \o x) > BufSize
            BY <6>4, <6>5
          <6> QED  BY <6>3, <6>6
        <5>2. CASE Writes(p, c) \/ Clears(p, c)
          BY <3>2, <5>2 DEF Writes, Clears, SameBlock
        <5>3. CASE pc[w] = "reset" /\ Forgets(p, c)
          BY <2>4, <3>1, <4>2, <5>3 DEF Handles, OwnershipInv, ResetInv
        <5> QED  BY <4>2, <5>1, <5>2, <5>3 DEF Handles
      <4>3. Len(buf'[p]) > BufSize
        BY <3>2, <4>1, <4>2 DEF SameBlock
      <4> QED  BY <1>1, <3>1, <4>3
    <3>3. CASE ~(Len(buf[p]) > BufSize)
      <4>1. PICK w \in Workers : Holds(w, p)
        BY <1>1, <2>4, <3>1, <3>3 DEF LostInv, NoLostConnection
      <4>2. ~Releases(w, p)
        <5>1. reg[cfd[p]].on /\ reg[cfd[p]].want = {} /\ reg'[cfd[p]].want = {}
          BY <1>1, <3>1
        <5>2. ~SockOf(cfd[p]).fin /\ ~SockOf(cfd[p]).rst
          BY <2>4, <3>1
        <5> QED  BY <3>1, <3>3, <5>1, <5>2, ReleaseReasons
      <4>3. Holds(w, p)'
        <5>1. ASSUME NEW e \in batch[w], e.ptr = p PROVE Holds(w, p)'
          BY <4>2, <5>1, EventHolds DEF Releases
        <5>2. CASE Touches(w, p)
          BY <4>2, <5>2, TouchHolds
        <5>3. Touches(w, p) \/ \E e \in batch[w] : e.ptr = p
          BY <4>1 DEF Holds
        <5> QED  BY <5>1, <5>2, <5>3
      <4>4. reg'[f].ptr = p
        BY <1>1, <3>1
      <4> QED  BY <4>3, <4>4 DEF Holds, Touches
    <3> QED  BY <3>2, <3>3
  <2> QED  BY <1>1, <2>2, <2>3, <2>4 DEF LostInv
<1>2. ASSUME NEW w \in Workers, EpollWait(w), f \in ReadyFds, reg'[f] = AfterDelivery(reg[f])
      PROVE  Holds(w, reg[f].ptr)'
  <2> DEFINE e == [ptr |-> reg[f].ptr, ev |-> ReadyEvents(f)]
  <2>1. e \in batch'[w] /\ e.ptr = reg[f].ptr
    BY <1>2 DEF EpollWait, ConnectionEvents
  <2>2. reg'[f].ptr = reg[f].ptr
    BY <1>2 DEF AfterDelivery, Registrations
  <2> HIDE DEF e
  <2> QED  BY <2>1, <2>2 DEF Holds
<1>3. ASSUME NEW q, reg'[f] = [on |-> TRUE, want |-> {"IN"}, ptr |-> q] PROVE FALSE
  BY <1>3
<1>4. ASSUME NEW w \in Workers,
             reg'[f] = [on |-> TRUE, want |-> Interest(arm[w]), ptr |-> ptr[w]]
      PROVE  FALSE
  <2>1. reg'[f].want = Interest(arm[w])
    BY <1>4
  <2>2. Interest(arm[w]) # {}
    BY DEF Interest
  <2> QED  BY <2>1, <2>2
<1>5. reg'[f] # NotRegistered
  BY DEF NotRegistered
<1>6. reg'[f] = reg[f] \/ \E w \in Workers :
        EpollWait(w) /\ f \in ReadyFds /\ reg'[f] = AfterDelivery(reg[f])
  BY <1>3, <1>4, <1>5, RegSteps
<1>7. CASE \E w \in Workers :
        EpollWait(w) /\ f \in ReadyFds /\ reg'[f] = AfterDelivery(reg[f])
  <2>1. PICK w \in Workers :
          EpollWait(w) /\ f \in ReadyFds /\ reg'[f] = AfterDelivery(reg[f])
    BY <1>7
  <2>2. Holds(w, reg[f].ptr)'
    BY <1>2, <2>1
  <2> QED  BY <2>2
<1> QED  BY <1>1, <1>6, <1>7

LEMMA LostNext ==
    ASSUME Inv, FlowInv, LostInv, [Next]_vars
    PROVE  LostInv'
<1>1. ASSUME NEW f \in FDs, reg'[f].on
      PROVE  (reg'[f].ptr \in Cells /\ data'[f] = reg'[f].ptr) \/ (SockOf(f).rst)'
  BY <1>1, MappedNext
<1>2. ASSUME NEW w \in Workers
      PROVE  /\ pc'[w] \in {"insert", "add"} => ~reg'[newfd'[w]].on
             /\ \A e \in batch'[w] :
                  e.ptr # ServerData /\ "HUP" \in e.ev => sock'[fdt'[cfd'[e.ptr]]].rst
  BY UnregisteredNext, HangupNext
<1>3. NoLostConnection'
  BY NoLostNext DEF NoLostConnection
<1> QED  BY <1>1, <1>2, <1>3 DEF LostInv, SockOf

-----------------------------------------------------------------------------
(* The invariant, and what it gives.                                        *)

LEMMA EchoInit == Init => EchoInv /\ WriteModeIsTransient
<1> USE ConstantsAssumption
<1> SUFFICES ASSUME Init PROVE EchoInv /\ WriteModeIsTransient
  OBVIOUS
<1>1. \A c \in Conns : BufFlow(c, << >>, 0, sock[c]) /\ Runs(sock[c].out, c, 0)
  <2>1. /\ Len(FreshSocket.rq) = 0 /\ Len(FreshSocket.out) = 0 /\ FreshSocket.sent = 0
        /\ Len(<< >>) = 0
    BY DEF FreshSocket
  <2>2. \A c \in Conns : \A k : Runs(<< >>, c, k)
    BY DEF Runs
  <2>3. FreshSocket.rq = << >> /\ FreshSocket.out = << >>
    BY DEF FreshSocket
  <2>4. \A c \in Conns : BufFlow(c, << >>, 0, FreshSocket) /\ Runs(FreshSocket.out, c, 0)
    <3>1. \A c \in Conns : /\ Runs(<< >>, c, 0) /\ Runs(FreshSocket.out, c, 0)
                          /\ Runs(FreshSocket.rq, c, Len(<< >>))
      BY <2>2, <2>3
    <3>2. /\ 0 <= Len(<< >>) /\ Len(FreshSocket.out) = 0
          /\ FreshSocket.sent = Len(<< >>) + Len(FreshSocket.rq)
      BY <2>1
    <3> QED  BY <3>1, <3>2 DEF BufFlow
  <2>5. \A c \in Conns : sock[c] = FreshSocket
    BY DEF Init
  <2> QED  BY <2>4, <2>5
<1>2. FlowInv
  <2>1. OpenInv
    BY DEF Init, OpenInv
  <2>2. NewInv
    BY <1>1 DEF Init, NewInv
  <2>3. DataFlow /\ ErrorInv /\ OutInv
    BY <1>1 DEF Init, DataFlow, ErrorInv, OutInv
  <2>4. ReadsOneBuffer
    <3>1. FreshSocket.sent - Len(FreshSocket.rq) = 0
      BY DEF FreshSocket
    <3>2. 0 <= BufSize + 1 /\ \A c \in Conns : sock[c] = FreshSocket
      BY DEF Init
    <3> QED  BY <3>1, <3>2 DEF ReadsOneBuffer
  <2> QED  BY <2>1, <2>2, <2>3, <2>4 DEF FlowInv
<1>3. WorkInv
  BY DEF Init, WorkInv, NotRegistered
<1>4. SignalInv
  BY DEF Init, SignalInv, SigpipeNeedsFin, FreshSocket
<1>5. LostInv
  BY DEF Init, LostInv, NoLostConnection, NotRegistered
<1> QED  BY <1>2, <1>3, <1>4, <1>5 DEF EchoInv, Init, WriteModeIsTransient

LEMMA EchoInvariant ==
    ASSUME ~SharedHeap
    PROVE  Spec => [](Inv /\ EchoInv)
<1>1. Spec => []Inv
  BY InvHolds
<1>2. Spec => []WriteModeIsTransient
  BY WriteModeCorrect
<1>3. Inv /\ WriteModeIsTransient /\ EchoInv /\ [Next]_vars => EchoInv'
  BY FlowNext, WorkNext, SignalNext, LostNext DEF EchoInv, FlowInv
<1> QED  BY <1>1, <1>2, <1>3, EchoInit, PTL DEF Spec

\* EchoPrefix: what the workers write to a connection is what its own peer sent, in
\* order, without gaps or repeats, whatever descriptors and blocks are recycled.
THEOREM EchoIsExact ==
    ASSUME ~SharedHeap
    PROVE  Spec => []EchoPrefix
<1>1. EchoInv => EchoPrefix
  BY DEF EchoInv, FlowInv, OutInv, EchoPrefix, Runs, Byte
<1> QED  BY <1>1, EchoInvariant, PTL

\* WriteHasData: the write loop (line 331) is never entered with nothing to write, so
\* its errno is always that of its own write().
THEOREM WritesSomething ==
    ASSUME ~SharedHeap
    PROVE  Spec => []WriteHasData
<1>1. EchoInv => WriteHasData
  BY DEF EchoInv, WorkInv, Unwritten, WriteHasData
<1> QED  BY <1>1, EchoInvariant, PTL

\* ReadsOneBuffer: no connection is ever read for more than buffer_ and one byte.
THEOREM OneBufferPerConnection ==
    ASSUME ~SharedHeap
    PROVE  Spec => []ReadsOneBuffer
<1>1. EchoInv => ReadsOneBuffer
  BY DEF EchoInv, FlowInv
<1> QED  BY <1>1, EchoInvariant, PTL

\* SigpipeNeedsFin: a reset alone does not kill the process; SIGPIPE takes a peer that
\* sent its FIN before.
THEOREM ResetAloneIsSafe ==
    ASSUME ~SharedHeap
    PROVE  Spec => []SigpipeNeedsFin
<1>1. EchoInv => SigpipeNeedsFin
  BY DEF EchoInv, SignalInv
<1> QED  BY <1>1, EchoInvariant, PTL

\* NoLostConnection: no registered connection is left disarmed with nobody to arm it,
\* unless its peer has ended it or its buffer is used up.
THEOREM NoConnectionLost ==
    ASSUME ~SharedHeap
    PROVE  Spec => []NoLostConnection
<1>1. EchoInv => NoLostConnection
  BY DEF EchoInv, LostInv
<1> QED  BY <1>1, EchoInvariant, PTL

-----------------------------------------------------------------------------
(* The echo service.                                                        *)

ServiceStep == [Service!Next]_Service!vars

\* The service's view of a connection.
Phase == [c \in Conns |->
            IF proc # "up" /\ st[c] \in {"queued", "open"} THEN "lost" ELSE st[c]]

ServiceSent == [c \in Conns |-> sock[c].sent]
ServiceEnded == [c \in Conns |-> sock[c].fin \/ sock[c].rst]
ServiceEcho == [c \in Conns |-> sock[c].out]

\* As long as the process is up, the phase of a connection is its state.
LEMMA PhaseUp ==
    ASSUME TypeOK, TypeOK', proc = "up", proc' = "up"
    PROVE  Phase = st /\ Phase' = st'
BY DEF Phase, TypeOK

SameBytes(d) == sock'[d].sent = sock[d].sent /\ sock'[d].out = sock[d].out

SameEnd(d) == (sock'[d].fin \/ sock'[d].rst) = (sock[d].fin \/ sock[d].rst)

LEMMA SameSockets ==
    /\ (\A d \in Conns : SameBytes(d)) => ServiceSent' = ServiceSent /\ ServiceEcho' = ServiceEcho
    /\ (\A d \in Conns : SameEnd(d)) => ServiceEnded' = ServiceEnded
BY DEF SameBytes, SameEnd, ServiceSent, ServiceEcho, ServiceEnded

\* What the service does not see.
LEMMA Unseen ==
    ASSUME UNCHANGED <<st, proc>>, \A d \in Conns : SameBytes(d) /\ SameEnd(d)
    PROVE  ServiceStep
<1>1. UNCHANGED <<ServiceSent, ServiceEcho, ServiceEnded>>
  BY SameSockets
<1>2. UNCHANGED Phase
  BY DEF Phase
<1> QED  BY <1>1, <1>2 DEF ServiceStep, Service!vars, Phase, ServiceSent, ServiceEcho, ServiceEnded

LEMMA StopServes ==
    ASSUME NEW C \in SUBSET Conns, Service!Stop(C)
    PROVE  ServiceStep
BY DEF ServiceStep, Service!Next

\* The process ends, and with it the connections that are open or in the queue.
LEMMA Dies ==
    ASSUME TypeOK, proc = "up", proc' # "up", UNCHANGED <<st, sock>>
    PROVE  ServiceStep
<1>0. PICK C \in SUBSET Conns : C = {c \in Conns : st[c] \in {"queued", "open"}}
  OBVIOUS
<1>1. Phase = st
  BY DEF Phase, TypeOK
<1>2. \A c \in C : Phase[c] \in {"queued", "open"}
  BY <1>0, <1>1
<1>3. Phase' = [c \in Conns |-> IF c \in {} THEN "closed"
                                ELSE IF c \in C THEN "lost" ELSE Phase[c]]
  <2>1. \A c \in Conns : (proc' # "up" /\ st'[c] \in {"queued", "open"}) <=> c \in C
    BY <1>0
  <2> QED  BY <1>1, <2>1 DEF Phase
<1>4. UNCHANGED <<ServiceSent, ServiceEcho, ServiceEnded>>
  BY DEF ServiceSent, ServiceEcho, ServiceEnded
<1>5. \E P \in SUBSET C :
        /\ \A c \in P : Phase[c] = "open" /\ ServiceEnded[c]
        /\ Phase' = [c \in Conns |-> IF c \in P THEN "closed"
                                     ELSE IF c \in C THEN "lost" ELSE Phase[c]]
  <2>1. {} \in SUBSET C
    OBVIOUS
  <2> QED  BY <1>3, <2>1
<1>6. Service!Stop(C)
  BY <1>2, <1>4, <1>5 DEF Service!Stop, Service!Live, Phase, ServiceSent, ServiceEcho, ServiceEnded
<1> QED  BY <1>6, StopServes

LEMMA PeerServes ==
    ASSUME TypeOK, TypeOK', NEW c \in Conns, PeerStep(c)
    PROVE  ServiceStep
<1>1. /\ sock[c] \in Sockets /\ proc = "up" /\ proc' = "up"
  BY DEF TypeOK, PeerStep, Connect, PeerSend, PeerRead, PeerFin, PeerReset, Connected
<1>2. Phase = st /\ Phase' = st'
  BY <1>1, PhaseUp
<1>3. CASE Connect(c)
  <2>1. sock' = sock /\ Phase[c] = "idle" /\ Phase' = [Phase EXCEPT ![c] = "queued"]
    BY <1>2, <1>3 DEF Connect
  <2>2. UNCHANGED <<ServiceSent, ServiceEcho, ServiceEnded>>
    BY <2>1 DEF ServiceSent, ServiceEcho, ServiceEnded
  <2>3. Service!Connect(c)
    BY <2>1, <2>2 DEF Service!Connect, Phase, ServiceSent, ServiceEcho, ServiceEnded
  <2> QED  BY <2>3 DEF ServiceStep, Service!Next
<1>4. CASE PeerSend(c)
  <2>1. /\ Phase[c] \in {"queued", "open"} /\ ~(sock[c].fin \/ sock[c].rst)
        /\ st' = st /\ sock' = [sock EXCEPT ![c] = RecvByte(sock[c], c)]
    BY <1>2, <1>4 DEF PeerSend, Connected
  <2>2. sock'[c] = RecvByte(sock[c], c) /\ \A d \in Conns : d # c => sock'[d] = sock[d]
    BY <1>1, <2>1 DEF TypeOK
  <2>3. /\ sock'[c].sent = sock[c].sent + 1 /\ sock'[c].out = sock[c].out
        /\ sock'[c].fin = sock[c].fin /\ sock'[c].rst = sock[c].rst
    BY <1>1, <2>2 DEF RecvByte, Sockets
  <2>4. ServiceSent' = [ServiceSent EXCEPT ![c] = @ + 1]
    BY <2>2, <2>3 DEF ServiceSent
  <2>5. ServiceEnded' = ServiceEnded /\ ServiceEcho' = ServiceEcho
    <3>1. \A d \in Conns : SameEnd(d) /\ sock'[d].out = sock[d].out
      BY <2>2, <2>3 DEF SameEnd
    <3> QED  BY <3>1, SameSockets DEF ServiceEcho
  <2>6. Phase' = Phase /\ ~ServiceEnded[c]
    BY <1>2, <2>1 DEF ServiceEnded
  <2>7. Service!Send(c)
    BY <2>1, <2>4, <2>5, <2>6
       DEF Service!Send, Service!Live, Phase, ServiceSent, ServiceEcho, ServiceEnded
  <2> QED  BY <2>7 DEF ServiceStep, Service!Next
<1>5. CASE PeerRead(c)
  <2>1. /\ PeerConsume(sock[c]).out = sock[c].out /\ PeerConsume(sock[c]).sent = sock[c].sent
        /\ PeerConsume(sock[c]).fin = sock[c].fin /\ PeerConsume(sock[c]).rst = sock[c].rst
    BY <1>1 DEF PeerConsume, Sockets
  <2>2. \A d \in Conns : SameBytes(d) /\ SameEnd(d)
    BY <1>1, <1>5, <2>1 DEF PeerRead, SameBytes, SameEnd, TypeOK
  <2> QED  BY <1>1, <1>5, <2>2, Unseen DEF PeerRead
<1>6. CASE PeerFin(c) \/ PeerReset(c)
  <2>1. /\ Phase[c] \in {"queued", "open"} /\ st' = st
        /\ sock' = [sock EXCEPT ![c] = RecvFin(sock[c])] \/ sock' = [sock EXCEPT ![c] = RecvRst(sock[c])]
    BY <1>2, <1>6 DEF PeerFin, PeerReset, Connected
  <2>2. /\ sock'[c] \in {RecvFin(sock[c]), RecvRst(sock[c])}
        /\ \A d \in Conns : d # c => sock'[d] = sock[d]
    BY <1>1, <2>1 DEF TypeOK
  <2>3. /\ sock'[c].sent = sock[c].sent /\ sock'[c].out = sock[c].out
        /\ sock'[c].fin \/ sock'[c].rst
    BY <1>1, <2>2 DEF RecvFin, RecvRst, Sockets
  <2>4. ServiceSent' = ServiceSent /\ ServiceEcho' = ServiceEcho
    BY <2>2, <2>3 DEF ServiceSent, ServiceEcho
  <2>5. \A d \in Conns : ServiceEnded'[d] = (ServiceEnded[d] \/ d \in {c})
    BY <2>2, <2>3 DEF ServiceEnded
  <2>6. ServiceEnded' = [d \in Conns |-> ServiceEnded[d] \/ d \in {c}]
    BY <2>5 DEF ServiceEnded
  <2>7. Service!End({c})
    BY <1>2, <2>1, <2>4, <2>6
       DEF Service!End, Service!Live, Phase, ServiceSent, ServiceEcho, ServiceEnded
  <2> QED  BY <2>7 DEF ServiceStep, Service!Next
<1> QED  BY <1>1, <1>3, <1>4, <1>5, <1>6 DEF PeerStep

LEMMA AcceptServes ==
    ASSUME TypeOK, TypeOK', NEW w \in Workers, AcceptConn(w)
    PROVE  ServiceStep
<1>1. PICK c \in Conns : st[c] = "queued" /\ st' = [st EXCEPT ![c] = "open"]
  BY DEF AcceptConn
<1>2. sock' = sock /\ Phase = st /\ Phase' = st'
  BY PhaseUp DEF AcceptConn, At
<1>3. UNCHANGED <<ServiceSent, ServiceEcho, ServiceEnded>>
  BY <1>2 DEF ServiceSent, ServiceEcho, ServiceEnded
<1>4. Phase[c] = "queued" /\ Phase' = [Phase EXCEPT ![c] = "open"]
  BY <1>1, <1>2
<1>5. Service!Accept(c)
  BY <1>3, <1>4 DEF Service!Accept, Phase, ServiceSent, ServiceEcho, ServiceEnded
<1> QED  BY <1>5 DEF ServiceStep, Service!Next

\* The connection a worker closes is open and has been reset.
LEMMA CloseServes ==
    ASSUME Inv, OpenInv, TypeOK', NEW w \in Workers, CloseFd(w)
    PROVE  ServiceStep
<1> USE DEF Inv, TypeInv, TypeOK
<1>1. PICK f \in FDs, c \in Conns : f = cfd[ptr[w]] /\ c = fdt[f] /\ IsOpen(f)
  <2>1. pc[w] = "close"
    BY DEF CloseFd, At
  <2>2. cfd[ptr[w]] \in FDs /\ fdt[cfd[ptr[w]]] \in Conns
    BY <2>1, HasConnection
  <2> QED  BY <2>2, ConstantsAssumption DEF IsOpen
<1>2. /\ st[c] = "open" /\ sock[c].rst /\ sock' = sock
      /\ st' = [st EXCEPT ![c] = "closed"] /\ Phase = st /\ Phase' = st'
  <2>1. st[c] = "open"
    BY <1>1 DEF IsOpen, OpenInv
  <2>2. sock[c].rst
    BY <1>1 DEF CloseFd, At, OwnershipInv, CloseInv, SockOf
  <2>3. st' = [st EXCEPT ![c] = "closed"] /\ sock' = sock /\ proc = "up" /\ proc' = "up"
    BY <1>1 DEF CloseFd, At
  <2> QED  BY <2>1, <2>2, <2>3, PhaseUp
<1>3. UNCHANGED <<ServiceSent, ServiceEcho, ServiceEnded>>
  BY <1>2 DEF ServiceSent, ServiceEcho, ServiceEnded
<1>4. Phase[c] = "open" /\ ServiceEnded[c]
  BY <1>2 DEF ServiceEnded
<1>5. Phase' = [d \in Conns |-> IF d \in {c} THEN "closed"
                                ELSE IF d \in {c} THEN "lost" ELSE Phase[d]]
  BY <1>2
<1>6. \E P \in SUBSET {c} :
        /\ \A d \in P : Phase[d] = "open" /\ ServiceEnded[d]
        /\ Phase' = [d \in Conns |-> IF d \in P THEN "closed"
                                     ELSE IF d \in {c} THEN "lost" ELSE Phase[d]]
  <2>1. {c} \in SUBSET {c} /\ \A d \in {c} : Phase[d] = "open" /\ ServiceEnded[d]
    BY <1>4
  <2> QED  BY <1>5, <2>1
<1>7. Service!Stop({c})
  BY <1>3, <1>4, <1>6
     DEF Service!Stop, Service!Live, Phase, ServiceSent, ServiceEcho, ServiceEnded
<1> QED  BY <1>7, StopServes

\* What write() takes are the next bytes of the connection.
LEMMA WriteServes ==
    ASSUME Inv, FlowInv, TypeOK', NEW w \in Workers, WriteData(w)
    PROVE  ServiceStep
<1>0. TypeOK /\ Live(ptr[w]) /\ pc[w] = "write" /\ proc = "up" /\ proc' = "up"
  BY HandlerOpen DEF Inv, TypeInv, WriteData, At, HandlerPcs
<1>1. PICK p \in Cells, c \in Conns : p = ptr[w] /\ Live(p) /\ c = fdt[cfd[p]]
  BY <1>0, LiveObject
<1>2. /\ Writes(p, c) /\ st' = st
      /\ \A d \in Conns : d # c => sock'[d] = sock[d]
  <2>1. /\ Handles(w, p, c) /\ st' = st
        /\ \A d \in Conns : d # c => sock'[d] = sock[d]
    BY <1>1, HandlerSteps
  <2>2. sock[c].err = "none"
    BY <1>1 DEF WriteData, WritesData, SockOf
  <2> QED  BY <1>0, <2>1, <2>2 DEF Handles, Clears
<1>3. /\ st[c] = "open" /\ Phase = st /\ Phase' = st'
  <2>1. st[c] = "open"
    BY <1>1, ConstantsAssumption DEF Live, FlowInv, OpenInv
  <2> QED  BY <1>0, <2>1, PhaseUp
<1> DEFINE s == sock[c]
           b == buf[p]
           i == wix[p]
           rest == SubSeq(b, i + 1, Len(b))
           n == WriteLen(s, Len(rest))
           m == Len(s.out)
<1>4. /\ BufFlow(c, b, i, s) \/ Dead(s)
      /\ b \in Seq(Bytes) /\ i \in Nat /\ s \in Sockets
  BY <1>1, LiveFlow DEF FlowInv
<1>5. Runs(s.out, c, 0)
  BY DEF FlowInv, OutInv
<1>6. /\ ~s.rst /\ SendRoom(s) > 0 /\ Len(rest) # 0 /\ sock'[c] = AfterWrite(s, rest)
  BY <1>2 DEF Writes, WritesData, Pending
<1>7. BufFlow(c, b, i, s) /\ rest # << >>
  BY <1>4, <1>6, EmptySeq DEF Dead
<1>8. /\ n \in 1 .. s.sent - m
      /\ AfterWrite(s, rest).out = s.out \o [k \in 1 .. n |-> Byte(c, m + k)]
  BY <1>4, <1>5, <1>6, <1>7, BufferEmpties
<1>9. m \in Nat /\ s.sent \in Nat /\ s.out \in Seq(Bytes)
  BY <1>4 DEF Sockets
<1>10. /\ AfterWrite(s, rest).sent = s.sent /\ AfterWrite(s, rest).fin = s.fin
       /\ AfterWrite(s, rest).rst = s.rst
  BY <1>4 DEF AfterWrite, Sockets
<1> HIDE DEF s, b, i, rest, n, m
<1>11. Service!LastEchoed(c) = m
  <2>1. CASE s.out = << >>
    BY <2>1, EmptySeq DEF Service!LastEchoed, s, m
  <2>2. CASE s.out # << >>
    <3>1. m \in 1 .. Len(s.out) /\ m = Len(s.out)
      BY <1>9, <2>2, EmptySeq DEF m
    <3>2. s.out[m] = Byte(c, 0 + m)
      BY <1>5, <3>1 DEF Runs
    <3>3. s.out[m][2] = m
      BY <1>9, <3>2 DEF Byte
    <3> QED  BY <2>2, <3>1, <3>3 DEF Service!LastEchoed, s
  <2> QED  BY <2>1, <2>2
<1> DEFINE next == [k \in 1 .. n |-> m + k]
           t == s.sent
<1>12. t \in Nat /\ n \in 1 .. t - m
  BY <1>8, <1>9
<1> HIDE DEF t
<1>13. /\ next \in [1 .. n -> m + 1 .. t]
       /\ \A k, l \in 1 .. n : k < l => next[k] < next[l]
       /\ \A k \in 1 .. n : next[k] = m + k
  BY <1>9, <1>12
<1>14. [k \in 1 .. n |-> Byte(c, m + k)] = [k \in 1 .. n |-> <<c, next[k]>>]
  BY DEF Byte
<1> HIDE DEF next
<1>15. sock'[c].out = s.out \o [k \in 1 .. n |-> <<c, next[k]>>]
  BY <1>6, <1>8, <1>14
<1>16. [d \in Conns |-> sock'[d].out] =
          [[d \in Conns |-> sock[d].out] EXCEPT ![c] = @ \o [k \in 1 .. n |-> <<c, next[k]>>]]
  BY <1>2, <1>15 DEF s
<1>17. ServiceSent' = ServiceSent /\ ServiceEnded' = ServiceEnded
  BY <1>2, <1>6, <1>10 DEF ServiceSent, ServiceEnded, s
<1>18. [d \in Conns |-> sock[d].sent][c] = t
  BY DEF t, s
<1>19. Phase[c] = "open" /\ Phase' = Phase
  BY <1>2, <1>3
<1>20. Service!Echo(c)
  <2> DEFINE last == Service!LastEchoed(c)
             all == [d \in Conns |-> sock[d].sent][c]
  <2>1. n \in 1 .. all - last
    BY <1>11, <1>12, <1>18
  <2>2. next \in [1 .. n -> last + 1 .. all]
    BY <1>11, <1>13, <1>18
  <2>3. \A k \in 1 .. n : next[k] = last + k
    BY <1>11, <1>13
  <2>4. \E q \in 1 .. all - last :
        \E f \in [1 .. q -> last + 1 .. all] :
          /\ \A k, l \in 1 .. q : k < l => f[k] < f[l]
          /\ FALSE \/ \A k \in 1 .. q : f[k] = last + k
          /\ [d \in Conns |-> sock'[d].out] =
               [[d \in Conns |-> sock[d].out] EXCEPT ![c] = @ \o [k \in 1 .. q |-> <<c, f[k]>>]]
    <3> USE <1>13, <1>16, <2>1, <2>2, <2>3
    <3> WITNESS n \in 1 .. all - last
    <3> WITNESS next \in [1 .. n -> last + 1 .. all]
    <3> QED  OBVIOUS
  <2> QED  BY <1>17, <1>19, <2>4, Zenon DEF Service!Echo, Phase, ServiceSent, ServiceEnded
<1> QED  BY <1>20 DEF ServiceStep, Service!Next

\* The other calls of a handler: they take bytes from the queue or clear an error.
LEMMA HandlerServes ==
    ASSUME Inv, proc' = proc, NEW w \in Workers,
           ReadData(w) \/ ReadError(w) \/ WriteError(w) \/ Reset(w)
    PROVE  ServiceStep
<1>1. Live(ptr[w])
  BY HandlerOpen DEF ReadData, ReadError, WriteError, Reset, At, HandlerPcs
<1>2. PICK p \in Cells, c \in Conns : p = ptr[w] /\ Live(p) /\ c = fdt[cfd[p]]
  BY <1>1, LiveObject
<1>3. Handles(w, p, c) /\ st' = st /\ \A d \in Conns : d # c => sock'[d] = sock[d]
  BY <1>2, HandlerSteps
<1>4. sock[c] \in Sockets /\ IsOpen(cfd[p])
  <2>1. sock[c] \in Sockets
    BY DEF Inv, TypeInv, TypeOK
  <2> QED  BY <1>2, <2>1, LiveObject, ConstantsAssumption DEF IsOpen
<1>5. WriteError(w) => ~Writes(p, c)
  BY <1>2, <1>4 DEF WriteError, WritesError, Writes, WritesData, SockOf
<1>6. sock'[c] \in {AfterRead(sock[c], ReadCount(p)), ClearError(sock[c]), sock[c]}
  <2>1. CASE WriteError(w)
    <3>1. pc[w] = "write"
      BY <2>1 DEF WriteError, At
    <3> QED  BY <1>3, <1>5, <2>1, <3>1 DEF Handles, Clears
  <2>2. CASE ReadData(w) \/ ReadError(w) \/ Reset(w)
    <3>1. pc[w] # "write"
      BY <2>2 DEF ReadData, ReadError, Reset, At
    <3> QED  BY <1>3, <3>1 DEF Handles, Reads, Clears, Forgets
  <2> QED  BY <2>1, <2>2
<1>7. \A n : \A s \in {AfterRead(sock[c], n), ClearError(sock[c]), sock[c]} :
        s.sent = sock[c].sent /\ s.out = sock[c].out /\ s.fin = sock[c].fin /\ s.rst = sock[c].rst
  BY <1>4 DEF AfterRead, ClearError, Sockets
<1>8. \A d \in Conns : SameBytes(d) /\ SameEnd(d)
  BY <1>3, <1>6, <1>7 DEF SameBytes, SameEnd
<1> QED  BY <1>3, <1>8, Unseen

LEMMA StepServes ==
    ASSUME Inv, FlowInv, [Next]_vars
    PROVE  ServiceStep
<1>1. TypeOK /\ TypeOK'
  BY TypeNext DEF Inv, TypeInv
<1>2. ASSUME NEW w \in Workers, EpollWaitFails(w) \/ DispatchNull(w) \/ WriteSigpipe(w)
      PROVE  ServiceStep
  <2>1. proc = "up" /\ proc' # "up" /\ UNCHANGED <<st, sock>>
    BY <1>2 DEF EpollWaitFails, DispatchNull, WriteSigpipe, At, kernelVars
  <2> QED  BY <1>1, <2>1, Dies
<1>3. CASE proc' = proc
  <2>1. ASSUME NEW c \in Conns, PeerStep(c) PROVE ServiceStep
    BY <1>1, <2>1, PeerServes
  <2>2. ASSUME NEW w \in Workers, WriteData(w) PROVE ServiceStep
    BY <1>1, <2>2, WriteServes
  <2>3. ASSUME NEW w \in Workers, ReadData(w) \/ ReadError(w) \/ WriteError(w) \/ Reset(w)
        PROVE  ServiceStep
    BY <1>3, <2>3, HandlerServes
  <2>4. ASSUME NEW w \in Workers, AcceptConn(w) PROVE ServiceStep
    BY <1>1, <2>4, AcceptServes
  <2>5. ASSUME NEW w \in Workers, CloseFd(w) PROVE ServiceStep
    BY <1>1, <2>5, CloseServes DEF FlowInv
  <2>6. ASSUME UNCHANGED <<st, sock>> PROVE ServiceStep
    BY <1>3, <2>6, Unseen DEF SameBytes, SameEnd
  <2>7. ASSUME NEW w \in Workers, InsertNew(w) \/ Remove(w) PROVE UNCHANGED <<st, sock>>
    BY <2>7 DEF InsertNew, Remove, kernelVars
  <2> QED  BY <2>1, <2>2, <2>3, <2>4, <2>5, <2>6, <2>7, ByteSteps
<1> QED  BY <1>2, <1>3, ProcSteps

\* The multi-worker server is an echo service that leaves no byte out, for any number of
\* workers, clients, descriptors and bytes, when a block freed by one worker is not handed
\* to another: each write() sends a connection the next bytes of its own peer, and the
\* only connections closed are those their peers have ended.
THEOREM MultiWorkerServerServes ==
    ASSUME ~SharedHeap
    PROVE  Spec => EchoesAsPromised
<1>1. Init => Service!Init
  <2> SUFFICES ASSUME Init PROVE Service!Init
    OBVIOUS
  <2>1. proc = "up" /\ \A c \in Conns : sock[c] = FreshSocket /\ st[c] = "idle"
    BY DEF Init
  <2>2. /\ FreshSocket.sent = 0 /\ FreshSocket.out = << >>
        /\ (FreshSocket.fin \/ FreshSocket.rst) = FALSE
    BY DEF FreshSocket
  <2>3. /\ Phase = [c \in Conns |-> "idle"]
        /\ ServiceSent = [c \in Conns |-> 0]
        /\ ServiceEnded = [c \in Conns |-> FALSE]
        /\ ServiceEcho = [c \in Conns |-> << >>]
    BY <2>1, <2>2 DEF Phase, ServiceSent, ServiceEnded, ServiceEcho
  <2> QED  BY <2>3 DEF Service!Init, Phase, ServiceSent, ServiceEnded, ServiceEcho
<1>2. Inv /\ EchoInv /\ [Next]_vars => ServiceStep
  BY StepServes DEF EchoInv
<1> QED  BY <1>1, <1>2, EchoInvariant, PTL DEF Spec, EchoesAsPromised, Service!Spec, ServiceStep

=============================================================================
