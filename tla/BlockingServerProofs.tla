------------------------ MODULE BlockingServerProofs ------------------------
(***************************************************************************)
(* Proofs about BlockingServer, for any number of clients and descriptors:    *)
(* what ends the accept loop of the two servers, that the parent of the       *)
(* server that forks keeps every connection open, and that either server is   *)
(* an echo service.                                                         *)
(***************************************************************************)
EXTENDS BlockingServer, TcpSocketProofs, FiniteSetTheorems

-----------------------------------------------------------------------------
(* Sockets and clients.                                                     *)

\* An error is pending only after a RST.
Sane(s) == s.err # "none" => s.rst

\* What may happen to a socket in one step: a RST is never taken back.
GoesOn(s, t) ==
    /\ s.rst => t.rst
    /\ Sane(s) => Sane(t)

LEMMA SocketGoesOn ==
    ASSUME NEW s \in Sockets
    PROVE  /\ \A c \in Conns : GoesOn(s, RecvByte(s, c))
           /\ GoesOn(s, RecvFin(s))
           /\ GoesOn(s, RecvRst(s))
           /\ \A n \in Nat : GoesOn(s, [s EXCEPT !.got = n])
           /\ \A n \in Nat : GoesOn(s, AfterRead(s, n))
           /\ \A b \in Seq(Bytes) : GoesOn(s, AfterWrite(s, b))
BY DEF GoesOn, Sane, RecvByte, RecvFin, RecvRst, AfterRead, AfterWrite, Sockets, SockErrors

\* The calls of the clients keep the types, and change the life of a connection
\* only by making it.
LEMMA ClientStepFacts ==
    ASSUME ClientsTypeOK, NEW c \in Conns, NEW listening \in BOOLEAN,
           ClientStep(c, listening)
    PROVE  /\ ClientsTypeOK'
           /\ \A d \in Conns : GoesOn(sock[d], sock'[d])
           /\ \A d \in Conns : cpc'[d] = "connect" => cpc[d] = "connect" /\ st'[d] = st[d]
           /\ \A d \in Conns : st'[d] # st[d] => cpc[d] = "connect" /\ st'[d] = "queued"
<1> USE DEF ClientsTypeOK
<1>0. \A s \in Sockets : GoesOn(s, s)
  BY DEF GoesOn
<1>1. CASE Connect(c, listening)
  BY <1>0, <1>1 DEF Connect, ItsTurn
<1>2. CASE Write(c)
  BY <1>0, <1>2, PeerTypes, SocketGoesOn DEF Write
<1>3. CASE Read(c)
  <2>1. PICK n \in 1 .. Len(sock[c].out) - sock[c].got :
          sock' = [sock EXCEPT ![c].got = @ + n]
    BY <1>3 DEF Read
  <2>2. sock[c].got + n \in Nat
    BY DEF Sockets
  <2>3. sock'[c] = [sock[c] EXCEPT !.got = sock[c].got + n]
    BY <2>1
  <2>4. sock'[c] \in Sockets
    BY <2>2, <2>3 DEF Sockets
  <2>5. GoesOn(sock[c], sock'[c])
    BY <2>2, <2>3, SocketGoesOn
  <2>6. sock' \in [Conns -> Sockets] /\ \A d \in Conns : d # c => sock'[d] = sock[d]
    BY <2>1, <2>4
  <2> QED  BY <1>0, <1>3, <2>5, <2>6 DEF Read
<1>4. ASSUME NEW S, Leave(S)
      PROVE  sock' \in [Conns -> Sockets] /\ \A d \in Conns : GoesOn(sock[d], sock'[d])
  <2>1. PICK R \in SUBSET {d \in S : Unread(sock[d])} :
          sock' = [d \in Conns |-> IF d \in R THEN RecvRst(sock[d])
                                   ELSE IF d \in S THEN RecvFin(sock[d]) ELSE sock[d]]
    BY <1>4 DEF Leave
  <2> QED  BY <1>0, <2>1, PeerTypes, SocketGoesOn
<1>5. CASE Close(c)
  BY <1>4, <1>5 DEF Close
<1>6. CASE Refuse(c)
  BY <1>0, <1>6, PeerTypes, SocketGoesOn DEF Refuse
<1>7. CASE FinishAlone(c)
  BY <1>0, <1>7 DEF FinishAlone
<1>8. CASE Fail(c, listening)
  BY <1>4, <1>8 DEF Fail
<1> QED  BY <1>1, <1>2, <1>3, <1>5, <1>6, <1>7, <1>8 DEF ClientStep

-----------------------------------------------------------------------------
(* The invariant.                                                           *)

OpenConns == {c \in Conns : st[c] = "open"}

Served == {c \in Conns : handler[c] \in Working}

LifeInv ==
    \A c \in Conns :
        /\ Sane(sock[c])
        /\ cpc[c] = "connect" => st[c] = "idle"
        /\ st[c] \in {"idle", "queued"} => handler[c] = "none"

\* While it runs, the accepting process has a descriptor of every open connection,
\* and of no other.
MainInv ==
    /\ IsFiniteSet(holds[Main])
    /\ Main \in up =>
        /\ holds[Main] = OpenConns
        /\ Cardinality(OpenConns) <= MaxFds

\* Without fork(), it serves the one connection that is open.
SingleInv ==
    ~forks =>
        /\ \A c \in Conns : handler[c] # "fork" /\ holds[c] = {}
        /\ \A c, d \in Served : c = d
        /\ Served = IF Main \in up THEN OpenConns ELSE {}

\* The descriptors the parent of the fork server never closes keep every connection
\* open while it runs.
CopiesInv ==
    forks /\ Main \in up => \A c \in Conns : st[c] # "closed"

BlockInv ==
    TypeOK /\ LifeInv /\ MainInv /\ SingleInv /\ MainEnds /\ CopiesInv

LEMMA BlockInit == Init => BlockInv
<1> SUFFICES ASSUME Init PROVE BlockInv
  OBVIOUS
<1> USE BlockingAssumption DEF Init, ClientsInit
<1>1. FreshSocket \in Sockets /\ Sane(FreshSocket)
  BY EmptySeq DEF FreshSocket, Sockets, SockErrors, Sane
<1>2. TypeOK
  BY <1>1, EmptySeq DEF TypeOK, ClientsTypeOK, Procs, Working
<1>3. OpenConns = {} /\ Served = {}
  BY DEF OpenConns, Served, Working
<1>4. MainInv /\ SingleInv
  BY <1>3, FS_EmptySet DEF MainInv, SingleInv, Procs, Working
<1>5. LifeInv /\ MainEnds /\ CopiesInv
  BY <1>1 DEF LifeInv, MainEnds, CopiesInv
<1> QED  BY <1>2, <1>4, <1>5 DEF BlockInv

-----------------------------------------------------------------------------
(* The invariant over the sets of connections.                              *)

\* A step that opens and closes nothing, changes no descriptors and processes, and
\* gives no handler to Main.
LEMMA NothingCloses ==
    ASSUME BlockInv, TypeOK', UNCHANGED <<forks, up, holds>>,
           \A c \in Conns : GoesOn(sock[c], sock'[c]),
           \A c \in Conns : st'[c] # st[c] => st[c] = "idle" /\ st'[c] = "queued",
           \A c \in Conns : cpc'[c] = "connect" => cpc[c] = "connect" /\ st'[c] = st[c],
           \A c \in Conns : handler'[c] \in Working <=> handler[c] \in Working,
           \A c \in Conns : handler'[c] # handler[c] => handler[c] # "none" /\ handler'[c] # "fork"
    PROVE  BlockInv'
<1> USE DEF BlockInv
<1>1. OpenConns' = OpenConns /\ Served' = Served
  BY DEF OpenConns, Served
<1>2. LifeInv'
  BY DEF LifeInv, GoesOn
<1>3. MainInv' /\ SingleInv'
  BY <1>1 DEF MainInv, SingleInv
<1>4. CopiesInv'
  BY DEF CopiesInv
<1>5. MainEnds'
  <2>1. {c \in Conns : st'[c] \in {"open", "closed"}} = {c \in Conns : st[c] \in {"open", "closed"}}
    OBVIOUS
  <2> QED  BY <2>1 DEF MainEnds, GoesOn
<1> QED  BY <1>2, <1>3, <1>4, <1>5

LEMMA ExitTypes ==
    ASSUME TypeOK, NEW p \in Procs, NEW c \in Procs, Exit(p, c)
    PROVE  TypeOK'
<1> USE DEF TypeOK, ClientsTypeOK, Exit
<1>1. st' \in [Conns -> {"idle", "queued", "open", "closed", "lost"}]
  BY DEF Settled
<1>2. up' \subseteq Procs /\ holds' \in [Procs -> SUBSET Conns]
  OBVIOUS
<1>3. /\ handler' \in [Conns -> {"none", "fork", "done"} \cup Working]
      /\ chunk' \in [Conns -> Seq(Bytes)]
      /\ \A d \in Conns : handler'[d] \in {"write", "wait"} <=> chunk'[d] # << >>
  BY EmptySeq DEF Working
<1> QED  BY <1>1, <1>2, <1>3

\* The end of Main: the fork server's connections stay as they are, in its
\* children or closed; the other server's are closed.
LEMMA MainExits ==
    ASSUME BlockInv, Main \in up, NEW p \in Procs, Exit(Main, p),
           p \in Conns => handler[p] # "none",
           forks => Cardinality(holds[Main]) >= MaxFds,
           ~forks => p \in Served /\ sock[p].rst
    PROVE  BlockInv'
<1> USE BlockingAssumption DEF BlockInv
<1>1. TypeOK'
  BY ExitTypes DEF Procs
<1>2. LifeInv'
  BY DEF LifeInv, Exit, Settled, TypeOK, ClientsTypeOK
<1>3. Main \notin up' /\ holds'[Main] = {}
  BY DEF Exit, TypeOK, Procs
<1>4. MainInv'
  BY <1>3, FS_EmptySet DEF MainInv
<1>5. CopiesInv'
  BY <1>3 DEF CopiesInv
<1>6. CASE forks
  <2>1. {c \in Conns : st'[c] \in {"open", "closed"}} = OpenConns
    BY <1>6 DEF Exit, Settled, OpenConns, CopiesInv
  <2>2. Cardinality(OpenConns) = MaxFds
    BY <1>6, FS_CardinalityType DEF MainInv
  <2>3. MainEnds'
    BY <1>6, <2>1, <2>2 DEF MainEnds, Exit
  <2> QED  BY <1>1, <1>2, <1>4, <1>5, <1>6, <2>3 DEF SingleInv, Exit
<1>7. CASE ~forks
  <2>1. Served = {p} /\ p \in Conns /\ st[p] = "open"
    BY <1>7 DEF SingleInv, Served, OpenConns
  <2>2. \A q \in Procs : holds'[q] = {}
    BY <1>7 DEF SingleInv, Exit, TypeOK, Procs
  <2>3. st'[p] = "closed" /\ sock'[p].rst
    BY <1>7, <2>1, <2>2 DEF Exit, Settled
  <2>4. MainEnds'
    BY <1>7, <2>1, <2>3 DEF MainEnds, Exit
  <2>5. Served' = {}
    BY <2>1 DEF Served, Exit, TypeOK, Working
  <2>6. SingleInv'
    BY <1>3, <1>7, <2>2, <2>5 DEF SingleInv, Exit, Procs
  <2> QED  BY <1>1, <1>2, <1>4, <1>5, <2>4, <2>6
<1> QED  BY <1>6, <1>7

\* The end of a child: the connections that close had their parent gone before.
LEMMA ChildExits ==
    ASSUME BlockInv, forks, NEW p \in Conns, handler[p] # "none", Exit(p, p)
    PROVE  BlockInv'
<1> USE BlockingAssumption DEF BlockInv
<1>1. TypeOK'
  BY ExitTypes DEF Procs
<1>2. LifeInv'
  BY DEF LifeInv, Exit, Settled, TypeOK, ClientsTypeOK
<1>3. /\ Main \in up' <=> Main \in up
      /\ holds'[Main] = holds[Main]
      /\ forks'
  BY DEF Exit, TypeOK, Procs
<1>4. SingleInv'
  BY <1>3 DEF SingleInv
<1>5. CASE Main \in up
  <2>1. st' = st
    BY <1>3, <1>5 DEF Exit, Settled, MainInv, OpenConns, Procs, TypeOK, ClientsTypeOK
  <2>2. OpenConns' = OpenConns
    BY <2>1 DEF OpenConns
  <2>3. MainInv'
    BY <1>3, <2>2 DEF MainInv
  <2> QED  BY <1>1, <1>2, <1>3, <1>4, <1>5, <2>1, <2>3 DEF MainEnds, CopiesInv
<1>6. CASE Main \notin up
  <2>1. {c \in Conns : st'[c] \in {"open", "closed"}} = {c \in Conns : st[c] \in {"open", "closed"}}
    BY DEF Exit, Settled
  <2>2. MainEnds'
    BY <1>3, <1>6, <2>1 DEF MainEnds
  <2> QED  BY <1>1, <1>2, <1>3, <1>4, <1>6, <2>2 DEF MainInv, CopiesInv
<1> QED  BY <1>5, <1>6

-----------------------------------------------------------------------------
(* The steps.                                                               *)

\* A step of the echo loop that goes on with c.
LEMMA HandlerGoesOn ==
    ASSUME BlockInv, TypeOK', NEW c \in Conns, NEW s \in Sockets,
           NEW h \in Working,
           UNCHANGED <<st, cpc, forks, up, holds>>,
           handler[c] \in Working, handler' = [handler EXCEPT ![c] = h],
           sock' = [sock EXCEPT ![c] = s], GoesOn(sock[c], s)
    PROVE  BlockInv'
<1>1. /\ \A d \in Conns : handler'[d] \in Working <=> handler[d] \in Working
      /\ \A d \in Conns : handler'[d] # handler[d] => handler[d] # "none" /\ handler'[d] # "fork"
  BY DEF BlockInv, TypeOK, Working
<1>2. \A d \in Conns : GoesOn(sock[d], sock'[d])
  BY DEF BlockInv, TypeOK, ClientsTypeOK, GoesOn
<1> QED  BY <1>1, <1>2, NothingCloses

\* The process that runs the echo loop of the fork server is c, of the other one
\* it is Main, which then runs.
LEMMA ServerEnds ==
    ASSUME BlockInv, NEW c \in Conns, handler[c] \in Working, sock[c].rst,
           Exit(Server(c), c)
    PROVE  BlockInv'
<1>1. CASE forks
  BY <1>1, ChildExits DEF Server, Working
<1>2. CASE ~forks
  <2>1. c \in Served /\ Main \in up
    BY <1>2 DEF BlockInv, SingleInv, Served
  <2>2. c \in Procs
    BY DEF Procs
  <2> QED  BY <1>2, <2>1, <2>2, MainExits DEF Server, Working
<1> QED  BY <1>1, <1>2

LEMMA ReadStep ==
    ASSUME BlockInv, NEW c \in Conns, ReadData(c) \/ ReadEof(c) \/ ReadError(c)
    PROVE  BlockInv'
<1> USE BlockingAssumption
<1>0. sock[c] \in Sockets
  BY DEF BlockInv, TypeOK, ClientsTypeOK
<1>1. CASE ReadData(c)
  <2>1. /\ AfterRead(sock[c], BufSize) \in Sockets
        /\ ReadBytes(sock[c], BufSize) \in Seq(Bytes)
    BY <1>0, ReadTypes
  <2>2. ReadBytes(sock[c], BufSize) # << >>
    <3>1. sock[c].rq \in Seq(Bytes) /\ Len(sock[c].rq) \in Nat \ {0}
      BY <1>0, <1>1, EmptySeq DEF ReadData, ReadsData, Sockets
    <3>2. ReadLen(sock[c], BufSize) \in Nat \ {0}
      BY <3>1 DEF ReadLen, Smaller
    <3>3. ReadLen(sock[c], BufSize) <= Len(sock[c].rq)
      BY <3>1 DEF ReadLen, Smaller
    <3>4. \A k \in 1 .. ReadLen(sock[c], BufSize) : sock[c].rq[k] \in Bytes
      BY <3>1, <3>2, <3>3, ElementOfSeq
    <3>5. Len(ReadBytes(sock[c], BufSize)) = ReadLen(sock[c], BufSize)
      BY <3>1, <3>2, <3>4, SubSeqProperties DEF ReadBytes
    <3> QED  BY <3>2, <3>5
  <2>3. TypeOK'
    BY <1>1, <2>1, <2>2 DEF BlockInv, TypeOK, ClientsTypeOK, ReadData, Working
  <2> QED  BY <1>0, <1>1, <2>1, <2>3, HandlerGoesOn, SocketGoesOn DEF ReadData, Working
<1>2. CASE ReadEof(c)
  <2>1. CASE forks
    BY <1>2, <2>1, ChildExits DEF ReadEof
  <2>2. CASE ~forks
    <3>1. c \in Served
      BY <1>2 DEF ReadEof, Served, Working
    <3>2. Main \in up /\ Served = {c} /\ OpenConns = {c}
      BY <2>2, <3>1 DEF BlockInv, SingleInv
    <3>3. TypeOK'
      <4>1. /\ st' = [st EXCEPT ![c] = "closed"]
            /\ holds' = [holds EXCEPT ![Main] = @ \ {c}]
            /\ handler' = [handler EXCEPT ![c] = "done"]
            /\ UNCHANGED <<sock, cpc, forks, up, chunk>>
            /\ handler[c] = "read"
        BY <1>2, <2>2 DEF ReadEof
      <4> QED  BY <4>1 DEF BlockInv, TypeOK, ClientsTypeOK, Working
    <3>4. LifeInv'
      BY <1>2, <2>2, <3>2 DEF BlockInv, LifeInv, ReadEof, TypeOK, ClientsTypeOK, OpenConns
    <3>5. OpenConns' = {} /\ Served' = {}
      <4>1. OpenConns' = {}
        BY <1>2, <2>2, <3>2 DEF OpenConns, ReadEof, BlockInv, TypeOK, ClientsTypeOK
      <4>2. Served' = {}
        BY <1>2, <2>2, <3>2 DEF Served, ReadEof, BlockInv, TypeOK, Working
      <4> QED  BY <4>1, <4>2
    <3>6. holds'[Main] = {}
      BY <1>2, <2>2, <3>2 DEF BlockInv, MainInv, ReadEof, TypeOK, Procs
    <3>7. MainInv'
      BY <3>5, <3>6, FS_EmptySet DEF MainInv
    <3>8. SingleInv'
      BY <1>2, <2>2, <3>5 DEF SingleInv, BlockInv, ReadEof, TypeOK, Procs
    <3>9. MainEnds' /\ CopiesInv'
      BY <1>2, <2>2, <3>2 DEF MainEnds, CopiesInv, ReadEof
    <3> QED  BY <3>3, <3>4, <3>7, <3>8, <3>9 DEF BlockInv
  <2> QED  BY <2>1, <2>2
<1>3. CASE ReadError(c)
  <2>1. sock[c].rst
    BY <1>3 DEF BlockInv, LifeInv, Sane, ReadError, ReadsError
  <2> QED  BY <1>3, <2>1, ServerEnds DEF ReadError, Working
<1> QED  BY <1>1, <1>2, <1>3

LEMMA WriteStep ==
    ASSUME BlockInv, NEW c \in Conns, WriteData(c) \/ WriteCut(c) \/ WriteError(c)
    PROVE  BlockInv'
<1>0. sock[c] \in Sockets /\ chunk[c] \in Seq(Bytes)
  BY DEF BlockInv, TypeOK, ClientsTypeOK
<1>1. CASE WriteData(c)
  <2> DEFINE n == WriteLen(sock[c], Len(chunk[c]))
             rest == SubSeq(chunk[c], n + 1, Len(chunk[c]))
  <2>1. SendRoom(sock[c]) > 0
    BY <1>1 DEF WriteData, WritesData
  <2>2. AfterWrite(sock[c], chunk[c]) \in Sockets /\ n \in Nat
    BY <1>0, <2>1, WriteTypes
  <2>3. rest \in Seq(Bytes)
    <3>1. \A k \in n + 1 .. Len(chunk[c]) : chunk[c][k] \in Bytes
      BY <1>0, <2>2, ElementOfSeq
    <3>2. n + 1 \in Nat /\ Len(chunk[c]) \in Nat
      BY <1>0, <2>2
    <3>3. 1 <= n + 1
      BY <2>2
    <3> QED  BY <1>0, <3>1, <3>2, <3>3, SubSeqProperties
  <2>4. TypeOK'
    <3> HIDE DEF rest
    <3>1. /\ sock' = [sock EXCEPT ![c] = AfterWrite(sock[c], chunk[c])]
          /\ chunk' = [chunk EXCEPT ![c] = rest]
          /\ handler' = [handler EXCEPT ![c] = IF rest = << >> THEN "read" ELSE "wait"]
          /\ UNCHANGED <<st, cpc, forks, up, holds>>
      BY <1>1 DEF WriteData, rest
    <3> QED  BY <2>2, <2>3, <3>1 DEF BlockInv, TypeOK, ClientsTypeOK, Working
  <2>5. GoesOn(sock[c], AfterWrite(sock[c], chunk[c]))
    BY <1>0, SocketGoesOn
  <2> QED  BY <1>1, <2>2, <2>4, <2>5, HandlerGoesOn DEF WriteData, Working
<1>2. CASE WriteCut(c)
  <2>1. TypeOK'
    BY <1>2, EmptySeq DEF BlockInv, TypeOK, ClientsTypeOK, WriteCut, clientVars, Working
  <2>2. sock' = [sock EXCEPT ![c] = sock[c]]
    BY <1>2 DEF BlockInv, TypeOK, ClientsTypeOK, WriteCut, clientVars
  <2> QED  BY <1>0, <1>2, <2>1, <2>2, HandlerGoesOn DEF GoesOn, WriteCut, clientVars, Working
<1>3. CASE WriteError(c)
  <2>1. sock[c].rst
    BY <1>3 DEF BlockInv, LifeInv, Sane, WriteError, WritesError, WritesSigpipe
  <2> QED  BY <1>3, <2>1, ServerEnds DEF WriteError, Working
<1> QED  BY <1>1, <1>2, <1>3

LEMMA AcceptStep ==
    ASSUME BlockInv, NEW c \in Conns, Accept(c)
    PROVE  BlockInv'
<1> USE BlockingAssumption
<1>1. TypeOK'
  <2>1. handler[c] = "none"
    BY DEF BlockInv, LifeInv, Accept, Queued
  <2> QED  BY <2>1 DEF BlockInv, TypeOK, ClientsTypeOK, Accept, Working, Procs
<1>2. Main \in up /\ st[c] = "queued" /\ Main \in Procs /\ Main \in up'
  BY DEF Accept, InAccept, Queued, Procs
<1>3. LifeInv'
  BY <1>2 DEF BlockInv, LifeInv, Accept, TypeOK, ClientsTypeOK
<1>4. OpenConns' = OpenConns \cup {c}
  BY DEF BlockInv, OpenConns, Accept, TypeOK, ClientsTypeOK
<1>5. holds'[Main] = holds[Main] \cup {c}
  BY <1>2 DEF Accept, BlockInv, TypeOK
<1>6. MainInv'
  <2>1. holds[Main] = OpenConns /\ IsFiniteSet(OpenConns) /\ c \notin OpenConns
    BY <1>2 DEF BlockInv, MainInv, OpenConns
  <2>2. Cardinality(OpenConns) \in Nat /\ Cardinality(OpenConns) < MaxFds
    BY <1>2, <2>1, FS_CardinalityType DEF Accept
  <2>3. IsFiniteSet(OpenConns') /\ Cardinality(OpenConns') = Cardinality(OpenConns) + 1
    BY <1>4, <2>1, FS_AddElement
  <2> QED  BY <1>4, <1>5, <2>1, <2>2, <2>3 DEF MainInv
<1>7. SingleInv'
  <2> SUFFICES ASSUME ~forks PROVE SingleInv'
    BY DEF SingleInv, Accept
  <2>1. Served = {}
    BY DEF Accept, InAccept, Served
  <2>2. Served' = {c} /\ OpenConns' = {c}
    BY <1>2, <1>4, <2>1 DEF Served, Accept, BlockInv, TypeOK, SingleInv, Working
  <2>3. \A d \in Conns : handler'[d] # "fork" /\ holds'[d] = {}
    BY DEF Accept, BlockInv, TypeOK, SingleInv, Procs
  <2> QED  BY <1>2, <2>2, <2>3 DEF SingleInv
<1>8. MainEnds' /\ CopiesInv'
  BY <1>2 DEF BlockInv, MainEnds, CopiesInv, Accept, TypeOK, ClientsTypeOK
<1> QED  BY <1>1, <1>3, <1>6, <1>7, <1>8 DEF BlockInv

\* fork(), or its failure: the connection goes to a child, or is closed.
LEMMA ForkStep ==
    ASSUME BlockInv, NEW c \in Conns, Fork(c) \/ ForkFails(c)
    PROVE  BlockInv'
<1> USE BlockingAssumption
<1>1. Main \in up /\ handler[c] = "fork" /\ forks /\ Main # c /\ Main \in Procs /\ c \in Procs
  BY DEF Fork, ForkFails, BlockInv, SingleInv, Procs
<1>2. CASE Fork(c)
  <2>1. TypeOK'
    BY <1>1, <1>2 DEF BlockInv, TypeOK, ClientsTypeOK, Fork, clientVars, Working
  <2>2. LifeInv'
    BY <1>2 DEF BlockInv, LifeInv, Fork, clientVars
  <2>3. holds'[Main] = holds[Main] /\ OpenConns' = OpenConns
    BY <1>1, <1>2 DEF Fork, clientVars, BlockInv, TypeOK, OpenConns
  <2>4. MainInv'
    BY <1>1, <1>2, <2>3 DEF BlockInv, MainInv, Fork
  <2>5. SingleInv' /\ MainEnds' /\ CopiesInv'
    BY <1>1, <1>2 DEF BlockInv, SingleInv, MainEnds, CopiesInv, Fork, clientVars
  <2> QED  BY <2>1, <2>2, <2>4, <2>5 DEF BlockInv
<1>3. CASE ForkFails(c)
  <2>1. TypeOK'
    BY <1>1, <1>3 DEF BlockInv, TypeOK, ClientsTypeOK, ForkFails, Working
  <2>2. holds'[Main] = OpenConns \ {c} /\ OpenConns' = OpenConns \ {c}
    BY <1>1, <1>3 DEF ForkFails, BlockInv, TypeOK, ClientsTypeOK, OpenConns, MainInv
  <2>3. MainInv'
    <3>1. IsFiniteSet(OpenConns) /\ Cardinality(OpenConns) <= MaxFds
      BY <1>1 DEF BlockInv, MainInv
    <3>2. IsFiniteSet(OpenConns \ {c}) /\ Cardinality(OpenConns \ {c}) <= MaxFds
      <4>1. Cardinality(OpenConns) \in Nat
        BY <3>1, FS_CardinalityType
      <4>2. /\ IsFiniteSet(OpenConns \ {c})
            /\ Cardinality(OpenConns \ {c}) =
                 IF c \in OpenConns THEN Cardinality(OpenConns) - 1 ELSE Cardinality(OpenConns)
        BY <3>1, FS_RemoveElement
      <4> QED  BY <3>1, <4>1, <4>2
    <3> QED  BY <2>2, <3>2 DEF MainInv
  <2>4. LifeInv'
    BY <1>1, <1>3 DEF BlockInv, LifeInv, ForkFails, TypeOK, ClientsTypeOK
  <2>5. SingleInv' /\ MainEnds'
    BY <1>1, <1>3 DEF SingleInv, MainEnds, ForkFails
  <2>6. CopiesInv'
    BY <1>1, <1>3 DEF BlockInv, CopiesInv, ForkFails, TypeOK, ClientsTypeOK
  <2> QED  BY <2>1, <2>3, <2>4, <2>5, <2>6 DEF BlockInv
<1> QED  BY <1>2, <1>3

LEMMA BlockStep == BlockInv /\ [Next]_vars => BlockInv'
<1> SUFFICES ASSUME BlockInv, [Next]_vars PROVE BlockInv'
  OBVIOUS
<1> USE BlockingAssumption
<1>1. ASSUME NEW c \in Conns, Client(c) PROVE BlockInv'
  <2>1. (up # {}) \in BOOLEAN /\ ClientStep(c, up # {}) /\ ClientsTypeOK
    BY <1>1 DEF Client, BlockInv, TypeOK
  <2>2. /\ ClientsTypeOK'
        /\ \A d \in Conns : GoesOn(sock[d], sock'[d])
        /\ \A d \in Conns : cpc'[d] = "connect" => cpc[d] = "connect" /\ st'[d] = st[d]
        /\ \A d \in Conns : st'[d] # st[d] => cpc[d] = "connect" /\ st'[d] = "queued"
    BY <2>1, ClientStepFacts
  <2>3. TypeOK'
    BY <1>1, <2>2 DEF Client, BlockInv, TypeOK
  <2>4. \A d \in Conns : st'[d] # st[d] => st[d] = "idle" /\ st'[d] = "queued"
    BY <2>2 DEF BlockInv, LifeInv
  <2>5. /\ \A d \in Conns : handler'[d] \in Working <=> handler[d] \in Working
        /\ \A d \in Conns : handler'[d] # handler[d] => handler[d] # "none" /\ handler'[d] # "fork"
        /\ UNCHANGED <<forks, up, holds>>
    BY <1>1 DEF Client
  <2> QED  BY <2>2, <2>3, <2>4, <2>5, NothingCloses
<1>2. ASSUME NEW c \in Conns, EchoLoop(c) PROVE BlockInv'
  BY <1>2, ReadStep, WriteStep DEF EchoLoop
<1>3. CASE AcceptFails
  <2>1. Main \in up /\ Main \in Procs /\ Main \notin Conns /\ Exit(Main, Main)
    BY <1>3 DEF AcceptFails, InAccept, Procs
  <2>2. Cardinality(holds[Main]) >= MaxFds
    BY <1>3 DEF AcceptFails
  <2>3. forks
    <3> SUFFICES ASSUME ~forks PROVE FALSE
      OBVIOUS
    <3>1. Served = {}
      BY <1>3 DEF AcceptFails, InAccept, Served
    <3>2. holds[Main] = {}
      BY <2>1, <3>1 DEF BlockInv, SingleInv, MainInv
    <3> QED  BY <2>2, <3>2, FS_EmptySet
  <2> QED  BY <2>1, <2>2, <2>3, MainExits
<1>4. ASSUME NEW c \in Conns, Accept(c) \/ Fork(c) \/ ForkFails(c) PROVE BlockInv'
  BY <1>4, AcceptStep, ForkStep
<1>5. CASE UNCHANGED vars
  <2>1. TypeOK'
    BY <1>5 DEF vars, BlockInv, TypeOK, ClientsTypeOK
  <2> QED  BY <1>5, <2>1, NothingCloses DEF vars, GoesOn
<1> QED  BY <1>1, <1>2, <1>3, <1>4, <1>5 DEF Next, AcceptLoop

LEMMA BlockInvariant == Spec => []BlockInv
<1>1. Init => BlockInv
  BY BlockInit
<1>2. BlockInv /\ [Next]_vars => BlockInv'
  BY BlockStep
<1> QED  BY <1>1, <1>2, PTL DEF Spec

-----------------------------------------------------------------------------

\* The state keeps its types, and a handler is in write() exactly while it has
\* something to write: neither read() nor a write() that was cut leaves it with an
\* empty buffer to echo, or with a rest it forgets.
THEOREM BlockingTypeCorrect == Spec => []TypeOK
<1>1. BlockInv => TypeOK
  BY DEF BlockInv
<1> QED  BY <1>1, BlockInvariant, PTL

\* The accept loop of the fork server ends only with a full table of descriptors,
\* that of the single-client server only with a client that resets its connection.
THEOREM AcceptLoopEnds == Spec => []MainEnds
<1>1. BlockInv => MainEnds
  BY DEF BlockInv
<1> QED  BY <1>1, BlockInvariant, PTL

-----------------------------------------------------------------------------
(* Either server implements EchoService.                                    *)

\* A reset lets write() drop the rest of its buffer.
FlowInv == \A c \in Conns : ~sock[c].rst => SockFlow(c, sock[c], chunk[c])

\* A client's process that still has a call to make has not ended the connection.
CallInv == \A c \in Conns : cpc[c] # "done" => ~Ended(sock[c])

\* In the server that forks, a connection that its client has not ended is with the
\* parent that is about to fork or with the child that has a copy of it.
RunInv ==
    forks => \A c \in Conns :
        /\ handler[c] = "fork" => Main \in up /\ st[c] = "open"
        /\ handler[c] \in Working => c \in up /\ c \in holds[c] /\ st[c] = "open"
        /\ st[c] = "open" /\ ~Ended(sock[c]) => handler[c] \in {"fork"} \cup Working

SimInv == BlockInv /\ FlowInv /\ CallInv /\ RunInv

-----------------------------------------------------------------------------
(* The clients.                                                             *)

\* A client's call changes no echo, takes no end back, and ends a connection only
\* when its process is done with it.
LEMMA ClientKeeps ==
    ASSUME ClientsTypeOK, chunk \in [Conns -> Seq(Bytes)], FlowInv, CallInv,
           NEW c \in Conns, NEW listening \in BOOLEAN, ClientStep(c, listening)
    PROVE  /\ CallInv'
           /\ \A d \in Conns : ~sock'[d].rst => SockFlow(d, sock'[d], chunk[d])
           /\ \A d \in Conns : sock'[d].out = sock[d].out
           /\ \A d \in Conns : Ended(sock[d]) => Ended(sock'[d])
<1> USE DEF ClientsTypeOK
<1> DEFINE Keeps(d) ==
      /\ ~sock'[d].rst => SockFlow(d, sock'[d], chunk[d])
      /\ sock'[d].out = sock[d].out
      /\ Ended(sock[d]) => Ended(sock'[d])
<1>0. \A d \in Conns : sock'[d] = sock[d] => Keeps(d)
  BY DEF FlowInv
<1>1. \A d \in Conns : sock'[d] \in {RecvFin(sock[d]), RecvRst(sock[d])} => Keeps(d)
  BY ReceivedFields DEF FlowInv, SockFlow
<1> SUFFICES CallInv' /\ \A d \in Conns : Keeps(d)
  OBVIOUS
<1>2. CASE Connect(c, listening)
  BY <1>0, <1>2 DEF Connect, ItsTurn, CallInv
<1>3. CASE Write(c)
  <2>1. Keeps(c)
    BY <1>3, ReceivedFields, SentFlows DEF Write, FlowInv
  <2>2. \A d \in Conns : d # c => sock'[d] = sock[d] /\ cpc'[d] = cpc[d]
    BY <1>3 DEF Write
  <2>3. cpc[c] # "done" /\ Ended(sock'[c]) = Ended(sock[c])
    BY <1>3, ReceivedFields DEF Write
  <2> HIDE DEF Keeps
  <2> QED  BY <1>0, <2>1, <2>2, <2>3 DEF CallInv
<1>4. CASE Read(c)
  <2>1. PICK n \in 1 .. Len(sock[c].out) - sock[c].got :
          sock' = [sock EXCEPT ![c].got = @ + n]
    BY <1>4 DEF Read
  <2>2. /\ sock'[c].out = sock[c].out /\ sock'[c].rq = sock[c].rq
        /\ sock'[c].sent = sock[c].sent
        /\ sock'[c].fin = sock[c].fin /\ sock'[c].rst = sock[c].rst
    BY <2>1 DEF Sockets
  <2>3. \A d \in Conns : d # c => sock'[d] = sock[d] /\ cpc'[d] = cpc[d]
    BY <1>4, <2>1 DEF Read
  <2>4. Keeps(c) /\ Ended(sock'[c]) = Ended(sock[c])
    BY <2>2 DEF FlowInv, SockFlow, Ended
  <2>5. cpc[c] # "done"
    BY <1>4 DEF Read
  <2> HIDE DEF Keeps
  <2> QED  BY <1>0, <2>3, <2>4, <2>5 DEF CallInv
<1>5. ASSUME NEW S, Leave(S)
      PROVE  /\ \A d \in Conns : Keeps(d)
             /\ \A d \in Conns : d \notin S => sock'[d] = sock[d]
  <2>1. PICK R \in SUBSET {d \in S : Unread(sock[d])} :
          sock' = [d \in Conns |-> IF d \in R THEN RecvRst(sock[d])
                                   ELSE IF d \in S THEN RecvFin(sock[d]) ELSE sock[d]]
    BY <1>5 DEF Leave
  <2>2. \A d \in Conns : sock'[d] \in {RecvFin(sock[d]), RecvRst(sock[d]), sock[d]}
    BY <2>1
  <2> HIDE DEF Keeps
  <2> QED  BY <1>0, <1>1, <2>1, <2>2
<1>6. CASE Close(c)
  <2>1. \A d \in Conns : cpc'[d] # "done" => cpc[d] # "done" /\ d \notin {c}
    BY <1>6 DEF Close
  <2>2. Leave({c})
    BY <1>6 DEF Close
  <2> QED  BY <1>5, <2>1, <2>2 DEF CallInv
<1>7. CASE Refuse(c)
  <2>1. sock'[c] = RecvRst(sock[c]) /\ \A d \in Conns : d # c => sock'[d] = sock[d]
    BY <1>7 DEF Refuse
  <2>2. cpc' = cpc /\ cpc[c] = "done"
    BY <1>7 DEF Refuse
  <2> HIDE DEF Keeps
  <2> QED  BY <1>0, <1>1, <2>1, <2>2 DEF CallInv
<1>8. CASE FinishAlone(c)
  BY <1>0, <1>8 DEF FinishAlone, CallInv
<1>9. CASE Fail(c, listening)
  <2> DEFINE S == {d \in SameProcess(c) : cpc[d] # "done" /\ Connected(d)}
  <2>1. Leave(S)
    BY <1>9 DEF Fail
  <2>2. \A d \in Conns : cpc'[d] # "done" => cpc[d] # "done" /\ d \notin S
    BY <1>9 DEF Fail
  <2> QED  BY <1>5, <2>1, <2>2 DEF CallInv
<1> QED  BY <1>2, <1>3, <1>4, <1>6, <1>7, <1>8, <1>9 DEF ClientStep

-----------------------------------------------------------------------------
(* The invariant over the steps.                                            *)

LEMMA SimInit == Init => SimInv
<1> SUFFICES ASSUME Init PROVE SimInv
  OBVIOUS
<1>1. BlockInv
  BY BlockInit
<1>2. FlowInv
  BY DEF Init, ClientsInit, FlowInv, SockFlow, Flow, Runs, FreshSocket
<1>3. CallInv
  BY DEF Init, ClientsInit, CallInv, Ended, FreshSocket
<1>4. RunInv
  BY DEF Init, ClientsInit, RunInv, Working
<1> QED  BY <1>1, <1>2, <1>3, <1>4 DEF SimInv

\* Where the echo loop of c runs, c is open.
LEMMA ServedIsOpen ==
    ASSUME SimInv, NEW c \in Conns, handler[c] \in Working
    PROVE  st[c] = "open"
<1>1. CASE forks
  BY <1>1 DEF SimInv, RunInv
<1>2. CASE ~forks
  BY <1>2 DEF SimInv, BlockInv, SingleInv, Served, OpenConns
<1> QED  BY <1>1, <1>2

\* exit() closes only connections that their clients have ended.
LEMMA ExitCloses ==
    ASSUME SimInv, NEW p \in Procs, NEW q \in Procs, Exit(p, q),
           \/ p = Main /\ p = q /\ forks /\ (\A c \in Conns : handler[c] # "fork")
           \/ q \in Conns /\ p = Server(q) /\ handler[q] \in Working /\ Ended(sock[q])
    PROVE  /\ \A c \in Conns : st'[c] # st[c] =>
                 \/ st[c] = "open" /\ st'[c] = "closed" /\ Ended(sock[c])
                 \/ st[c] = "queued" /\ st'[c] = "lost"
           /\ RunInv'
<1> USE BlockingAssumption DEF SimInv
<1>1. /\ st' \in [Conns -> {"idle", "queued", "open", "closed", "lost"}]
      /\ \A c \in Conns : st'[c] # st[c] =>
           \/ st[c] = "open" /\ st'[c] = "closed" /\ \A r \in Procs : c \notin holds'[r]
           \/ st[c] = "queued" /\ st'[c] = "lost"
      /\ \A c \in Conns : st[c] = "open" /\ st'[c] = st[c] => \E r \in Procs : c \in holds'[r]
  BY DEF Exit, Settled, BlockInv, TypeOK, ClientsTypeOK
<1>2. \A r \in Procs : r # p => holds'[r] = holds[r] /\ (r \in up' <=> r \in up)
  BY DEF Exit, BlockInv, TypeOK
<1>3. \A c \in Conns : c # q => handler'[c] = handler[c]
  BY DEF Exit
<1>4. q \in Conns => handler'[q] = "done"
  BY DEF Exit
<1>5. CASE ~forks
  <2>1. \A c \in Conns : st[c] = "open" => c = q
    BY <1>5 DEF BlockInv, SingleInv, Served, OpenConns, Server
  <2> QED  BY <1>1, <1>5, <2>1 DEF RunInv, Exit
<1>6. CASE forks
  <2>1. p # Main => Main \in Procs /\ \A c \in Conns : Main \in up /\ st[c] = "open" => c \in holds'[Main]
    BY <1>2 DEF Procs, BlockInv, MainInv, OpenConns
  <2>2. \A c \in Conns : c # q /\ handler[c] \in Working => c # p /\ c \in holds'[c] /\ c \in up'
    BY <1>2, <1>6 DEF RunInv, Server, Procs
  <2>3. \A c \in Conns : c # q /\ handler[c] = "fork" =>
           p # Main /\ Main \in up /\ st[c] = "open" /\ c \in holds'[Main]
    BY <1>6, <2>1 DEF RunInv, Server
  <2>4. \A c \in Conns : st[c] = "open" /\ (\A r \in Procs : c \notin holds'[r]) => Ended(sock[c])
    BY <1>6, <2>2, <2>3 DEF RunInv, Procs
  <2>5. \A c \in Conns : c # q /\ handler[c] \in {"fork"} \cup Working => st'[c] = "open"
    BY <1>1, <1>6, <2>2, <2>3 DEF RunInv, Procs
  <2>6. \A c \in Conns : st'[c] = "open" => st[c] = "open"
    BY <1>1
  <2>7. sock' = sock /\ forks' = forks
    BY DEF Exit
  <2>8. \A c \in Conns : c # q /\ handler[c] = "fork" => Main \in up'
    BY <1>2, <2>3 DEF Procs
  <2>9. RunInv'
    <3> SUFFICES ASSUME NEW c \in Conns
                 PROVE  /\ handler'[c] = "fork" => Main \in up' /\ st'[c] = "open"
                        /\ handler'[c] \in Working => c \in up' /\ c \in holds'[c] /\ st'[c] = "open"
                        /\ st'[c] = "open" /\ ~Ended(sock'[c]) => handler'[c] \in {"fork"} \cup Working
      BY <2>7 DEF RunInv
    <3>1. CASE c = q
      BY <1>4, <2>7, <3>1 DEF Working, Procs
    <3>2. CASE c # q
      BY <1>3, <1>6, <2>2, <2>5, <2>6, <2>7, <2>8, <3>2 DEF RunInv
    <3> QED  BY <3>1, <3>2
  <2> QED  BY <1>1, <2>4, <2>9
<1> QED  BY <1>5, <1>6

\* The end of a process, or of the accept loop, by a step of the echo loop of q or
\* by AcceptFails, with what it needs to be such an end.
LEMMA Endings ==
    ASSUME SimInv, NEW c \in Conns
    PROVE  /\ ReadError(c) \/ WriteError(c) \/ (ReadEof(c) /\ forks) =>
                /\ Server(c) \in Procs /\ Exit(Server(c), c)
                /\ handler[c] \in Working /\ Ended(sock[c])
                /\ sock[c].rst \/ chunk[c] = << >>
           /\ ReadEof(c) => Ended(sock[c]) /\ handler[c] = "read"
<1> USE DEF SimInv
<1>1. sock[c].err # "none" => sock[c].rst
  BY DEF BlockInv, LifeInv, Sane
<1>2. Server(c) \in Procs
  BY DEF Server, Procs
<1>3. handler[c] = "read" => chunk[c] = << >>
  BY DEF BlockInv, TypeOK
<1>4. ReadError(c) =>
        /\ Exit(Server(c), c) /\ handler[c] \in Working
        /\ Ended(sock[c]) /\ sock[c].rst
  BY <1>1 DEF ReadError, ReadsError, Working, Ended
<1>5. WriteError(c) =>
        /\ Exit(Server(c), c) /\ handler[c] \in Working
        /\ Ended(sock[c]) /\ sock[c].rst
  BY <1>1 DEF WriteError, WritesError, WritesSigpipe, Working, Ended
<1>6. ReadEof(c) => Ended(sock[c]) /\ handler[c] = "read"
  BY BlockingAssumption DEF ReadEof, ReadsEof, Ended
<1>7. ReadEof(c) /\ forks => Exit(Server(c), c)
  BY DEF ReadEof, Server
<1> QED  BY <1>2, <1>3, <1>4, <1>5, <1>6, <1>7 DEF Working

\* Exit() preserves what the invariant says of bytes and of calls.
LEMMA ExitKeeps ==
    ASSUME SimInv, NEW p \in Procs, NEW q \in Procs, Exit(p, q),
           q \in Conns => sock[q].rst \/ chunk[q] = << >>
    PROVE  FlowInv' /\ CallInv'
<1>1. sock' = sock /\ cpc' = cpc
  BY DEF Exit
<1>2. \A d \in Conns : ~sock[d].rst => chunk'[d] = chunk[d]
  BY DEF Exit
<1> QED  BY <1>1, <1>2 DEF SimInv, FlowInv, CallInv

LEMMA SimEcho ==
    ASSUME SimInv, NEW c \in Conns, EchoLoop(c)
    PROVE  FlowInv' /\ CallInv' /\ RunInv'
<1> USE DEF SimInv
<1>0. /\ sock \in [Conns -> Sockets] /\ chunk \in [Conns -> Seq(Bytes)]
      /\ st \in [Conns -> {"idle", "queued", "open", "closed", "lost"}]
      /\ handler \in [Conns -> {"none", "fork", "done"} \cup Working]
      /\ handler[c] = "read" => chunk[c] = << >>
      /\ handler[c] \in {"write", "wait"} => chunk[c] # << >>
      /\ BufSize \in Nat
  BY BlockingAssumption DEF BlockInv, TypeOK, ClientsTypeOK
\* The handler goes on with c, whose socket keeps what its client did to it.
<1>1. ASSUME NEW h \in Working, NEW s \in Sockets, NEW rest \in Seq(Bytes),
             handler[c] \in Working, handler' = [handler EXCEPT ![c] = h],
             sock' = [sock EXCEPT ![c] = s], chunk' = [chunk EXCEPT ![c] = rest],
             s.fin = sock[c].fin, s.rst = sock[c].rst,
             ~s.rst => SockFlow(c, s, rest),
             UNCHANGED <<st, cpc, forks, up, holds>>
      PROVE  FlowInv' /\ CallInv' /\ RunInv'
  <2>1. FlowInv'
    BY <1>0, <1>1 DEF FlowInv
  <2>2. \A d \in Conns : Ended(sock'[d]) = Ended(sock[d])
    BY <1>0, <1>1 DEF Ended
  <2>3. CallInv'
    BY <1>1, <2>2 DEF CallInv
  <2>4. RunInv'
    <3>1. \A d \in Conns : handler'[d] \in Working <=> handler[d] \in Working
      BY <1>0, <1>1
    <3>2. \A d \in Conns : handler'[d] = "fork" <=> handler[d] = "fork"
      BY <1>0, <1>1 DEF Working
    <3> QED  BY <1>1, <2>2, <3>1, <3>2 DEF RunInv
  <2> QED  BY <2>1, <2>3, <2>4
<1>2. CASE ReadData(c)
  <2>1. /\ AfterRead(sock[c], BufSize) \in Sockets
        /\ ReadBytes(sock[c], BufSize) \in Seq(Bytes)
    BY <1>0, ReadTypes
  <2>2. /\ AfterRead(sock[c], BufSize).fin = sock[c].fin
        /\ AfterRead(sock[c], BufSize).rst = sock[c].rst
    BY <1>0 DEF AfterRead, Sockets
  <2>3. ~sock[c].rst => SockFlow(c, sock[c], << >>)
    BY <1>0, <1>2 DEF FlowInv, ReadData
  <2>4. ~sock[c].rst => SockFlow(c, AfterRead(sock[c], BufSize), ReadBytes(sock[c], BufSize))
    BY <1>0, <2>3, ReadFlows
  <2> QED  BY <1>1, <1>2, <2>1, <2>2, <2>4 DEF ReadData, Working
<1>3. CASE WriteData(c)
  <2> DEFINE n == WriteLen(sock[c], Len(chunk[c]))
             rest == SubSeq(chunk[c], n + 1, Len(chunk[c]))
  <2>1. SendRoom(sock[c]) > 0 /\ handler[c] \in {"write", "wait"}
    BY <1>3 DEF WriteData, WritesData
  <2>2. chunk[c] \in Seq(Bytes) /\ chunk[c] # << >> /\ sock[c] \in Sockets
    BY <1>0, <2>1
  <2>3. AfterWrite(sock[c], chunk[c]) \in Sockets
    BY <2>1, <2>2, WriteTypes
  <2>4. /\ AfterWrite(sock[c], chunk[c]).fin = sock[c].fin
        /\ AfterWrite(sock[c], chunk[c]).rst = sock[c].rst
    BY <2>2 DEF AfterWrite, Sockets
  <2>5. ~sock[c].rst
    BY <1>3 DEF WriteData, WritesData
  <2>6. SockFlow(c, AfterWrite(sock[c], chunk[c]), rest)
    BY <2>1, <2>2, <2>5, WriteFlows DEF FlowInv
  <2>7. rest \in Seq(Bytes)
    <3>1. BlockInv'
      BY <1>3, WriteStep
    <3>2. chunk'[c] = rest
      BY <1>0, <1>3 DEF WriteData
    <3> QED  BY <3>1, <3>2 DEF BlockInv, TypeOK
  <2>8. /\ sock' = [sock EXCEPT ![c] = AfterWrite(sock[c], chunk[c])]
        /\ chunk' = [chunk EXCEPT ![c] = rest]
        /\ handler' = [handler EXCEPT ![c] = IF rest = << >> THEN "read" ELSE "wait"]
        /\ UNCHANGED <<st, cpc, forks, up, holds>>
    BY <1>3 DEF WriteData
  <2> HIDE DEF rest
  <2>9. (IF rest = << >> THEN "read" ELSE "wait") \in Working /\ handler[c] \in Working
    BY <2>1 DEF Working
  <2> QED  BY <1>1, <2>3, <2>4, <2>6, <2>7, <2>8, <2>9
<1>4. CASE WriteCut(c)
  <2>1. sock' = [sock EXCEPT ![c] = sock[c]] /\ sock[c] \in Sockets
    BY <1>0, <1>4 DEF WriteCut, clientVars
  <2>2. << >> \in Seq(Bytes)
    BY EmptySeq
  <2> QED  BY <1>1, <1>4, <2>1, <2>2 DEF WriteCut, clientVars, Working
<1>5. CASE ReadError(c) \/ WriteError(c) \/ (ReadEof(c) /\ forks)
  <2>1. /\ Server(c) \in Procs /\ Exit(Server(c), c)
        /\ handler[c] \in Working /\ Ended(sock[c])
        /\ sock[c].rst \/ chunk[c] = << >>
    BY <1>5, Endings
  <2>2. c \in Procs
    BY DEF Procs
  <2>3. FlowInv' /\ CallInv'
    BY <2>1, <2>2, ExitKeeps
  <2>4. RunInv'
    BY <2>1, <2>2, ExitCloses
  <2> QED  BY <2>3, <2>4
<1>6. CASE ReadEof(c) /\ ~forks
  BY <1>6 DEF ReadEof, FlowInv, CallInv, RunInv
<1> QED  BY <1>2, <1>3, <1>4, <1>5, <1>6 DEF EchoLoop

LEMMA SimStep == SimInv /\ [Next]_vars => SimInv'
<1> SUFFICES ASSUME SimInv, [Next]_vars PROVE SimInv'
  OBVIOUS
<1> USE BlockingAssumption
<1>0. BlockInv /\ BlockInv'
  BY BlockStep DEF SimInv
<1>1. ASSUME NEW c \in Conns, Client(c) PROVE FlowInv' /\ CallInv' /\ RunInv'
  <2>1. (up # {}) \in BOOLEAN /\ ClientStep(c, up # {}) /\ ClientsTypeOK
        /\ chunk \in [Conns -> Seq(Bytes)]
    BY <1>0, <1>1 DEF Client, BlockInv, TypeOK
  <2>2. UNCHANGED <<forks, up, holds, handler, chunk>>
    BY <1>1 DEF Client
  <2>3. /\ CallInv'
        /\ \A d \in Conns : ~sock'[d].rst => SockFlow(d, sock'[d], chunk[d])
        /\ \A d \in Conns : Ended(sock[d]) => Ended(sock'[d])
    BY <2>1, ClientKeeps DEF SimInv
  <2>4. \A d \in Conns : st'[d] # st[d] => st[d] = "idle" /\ st'[d] = "queued"
    BY <1>0, <2>1, ClientStepFacts DEF BlockInv, LifeInv
  <2>5. FlowInv'
    BY <2>2, <2>3 DEF FlowInv
  <2>6. RunInv'
    BY <2>2, <2>3, <2>4 DEF SimInv, RunInv
  <2> QED  BY <2>3, <2>5, <2>6
<1>2. ASSUME NEW c \in Conns, EchoLoop(c) PROVE FlowInv' /\ CallInv' /\ RunInv'
  BY <1>2, SimEcho
<1>3. ASSUME AcceptFails PROVE FlowInv' /\ CallInv' /\ RunInv'
  <2>1. /\ Main \in Procs /\ Main \notin Conns /\ Exit(Main, Main)
        /\ forks => \A c \in Conns : handler[c] # "fork"
    BY <1>3 DEF AcceptFails, InAccept, Procs
  <2>2. FlowInv' /\ CallInv'
    BY <2>1, ExitKeeps
  <2>3. forks' = forks
    BY <2>1 DEF Exit
  <2>4. RunInv'
    <3>1. CASE forks
      BY <2>1, <3>1, ExitCloses
    <3>2. CASE ~forks
      BY <2>3, <3>2 DEF RunInv
    <3> QED  BY <3>1, <3>2
  <2> QED  BY <2>2, <2>4
<1>4. ASSUME NEW c \in Conns, Accept(c) \/ Fork(c) \/ ForkFails(c)
      PROVE  FlowInv' /\ CallInv' /\ RunInv'
  <2>1. UNCHANGED <<sock, cpc, forks, chunk>>
    BY <1>4 DEF Accept, Fork, ForkFails, clientVars
  <2>2. FlowInv' /\ CallInv'
    BY <2>1 DEF SimInv, FlowInv, CallInv
  <2>3. /\ st \in [Conns -> {"idle", "queued", "open", "closed", "lost"}]
        /\ handler \in [Conns -> {"none", "fork", "done"} \cup Working]
        /\ holds \in [Procs -> SUBSET Conns] /\ up \subseteq Procs
        /\ Main \in Procs /\ c \in Procs /\ c # Main
    BY <1>0 DEF BlockInv, TypeOK, ClientsTypeOK, Procs
  <2>4. RunInv'
    <3>1. CASE Accept(c)
      <4>1. st[c] = "queued" /\ handler[c] = "none"
        BY <1>0, <3>1 DEF Accept, Queued, BlockInv, LifeInv
      <4> QED  BY <2>3, <3>1, <4>1 DEF SimInv, RunInv, Accept, InAccept, Working
    <3>2. CASE Fork(c)
      <4>1. st[c] = "open" => c \in holds[Main]
        BY <1>0, <3>2 DEF BlockInv, MainInv, OpenConns, Fork
      <4> QED  BY <2>3, <3>2, <4>1 DEF SimInv, RunInv, Fork, clientVars, Working
    <3>3. CASE ForkFails(c)
      BY <2>3, <3>3 DEF SimInv, RunInv, ForkFails, Working
    <3> QED  BY <1>4, <3>1, <3>2, <3>3
  <2> QED  BY <2>2, <2>4
<1>5. ASSUME UNCHANGED vars PROVE FlowInv' /\ CallInv' /\ RunInv'
  BY <1>5 DEF vars, SimInv, FlowInv, CallInv, RunInv
<1>6. FlowInv' /\ CallInv' /\ RunInv'
  BY <1>1, <1>2, <1>3, <1>4, <1>5 DEF Next, AcceptLoop
<1> QED  BY <1>0, <1>6 DEF SimInv

LEMMA SimInvariant == Spec => []SimInv
<1>1. SimInv /\ [Next]_vars => SimInv'
  BY SimStep
<1> QED  BY SimInit, <1>1, PTL DEF Spec

-----------------------------------------------------------------------------
(* The steps of the service.                                                *)

ServiceStep == [Service!Next]_Service!vars

\* What the service does not see.
LEMMA Unseen ==
    ASSUME st' = st,
           \A c \in Conns : /\ sock'[c].sent = sock[c].sent
                            /\ sock'[c].fin = sock[c].fin /\ sock'[c].rst = sock[c].rst
                            /\ sock'[c].out = sock[c].out
    PROVE  ServiceStep
BY DEF ServiceStep, Service!vars

\* The server gives up connections: those in the queue, or with failed forks, and
\* open ones that their clients have ended.
LEMMA Stops ==
    ASSUME st \in [Conns -> {"idle", "queued", "open", "closed", "lost"}],
           st' \in [Conns -> {"idle", "queued", "open", "closed", "lost"}], sock' = sock,
           \A c \in Conns : st'[c] # st[c] =>
               \/ st[c] = "open" /\ st'[c] = "closed" /\ Ended(sock[c])
               \/ st[c] \in {"queued", "open"} /\ st'[c] = "lost"
    PROVE  ServiceStep
<1> DEFINE C == {c \in Conns : st'[c] # st[c]}
           P == {c \in C : st'[c] = "closed"}
<1>1. \A c \in C : Service!Live(c)
  BY DEF Service!Live
<1>2. P \in SUBSET C /\ \A c \in P : st[c] = "open" /\ (sock[c].fin \/ sock[c].rst)
  BY DEF Ended
<1>3. st' = [c \in Conns |-> IF c \in P THEN "closed"
                             ELSE IF c \in C THEN "lost" ELSE st[c]]
  <2>1. \A c \in Conns : st'[c] = IF c \in P THEN "closed"
                                  ELSE IF c \in C THEN "lost" ELSE st[c]
    OBVIOUS
  <2> QED  BY <2>1
<1>4. C \in SUBSET Conns
  OBVIOUS
<1> HIDE DEF C, P
<1>5. Service!Stop(C)
  BY <1>1, <1>2, <1>3, <1>4 DEF Service!Stop
<1> QED  BY <1>4, <1>5 DEF ServiceStep, Service!Next

LEMMA ClientServes ==
    ASSUME SimInv, NEW c \in Conns, Client(c)
    PROVE  ServiceStep
<1>0. /\ st \in [Conns -> {"idle", "queued", "open", "closed", "lost"}]
      /\ sock \in [Conns -> Sockets]
      /\ cpc[c] = "connect" => st[c] = "idle"
  BY DEF SimInv, BlockInv, TypeOK, ClientsTypeOK, LifeInv
<1>1. CASE Connect(c, up # {})
  <2>1. Service!Connect(c)
    BY <1>0, <1>1 DEF Connect, ItsTurn, Service!Connect
  <2> QED  BY <2>1 DEF ServiceStep, Service!Next
<1>2. CASE Write(c)
  <2>1. Service!Live(c) /\ ~(sock[c].fin \/ sock[c].rst)
    BY <1>2 DEF Write, Connected, Service!Live, SimInv, CallInv, Ended
  <2>2. sock'[c] = RecvByte(sock[c], c) /\ st' = st /\ \A d \in Conns : d # c => sock'[d] = sock[d]
    BY <1>0, <1>2 DEF Write
  <2>3. /\ sock'[c].sent = sock[c].sent + 1 /\ sock'[c].out = sock[c].out
        /\ sock'[c].fin = sock[c].fin /\ sock'[c].rst = sock[c].rst
    BY <1>0, <2>2 DEF RecvByte, Sockets
  <2>4. [d \in Conns |-> sock'[d].sent] =
          [[d \in Conns |-> sock[d].sent] EXCEPT ![c] = sock[c].sent + 1]
    BY <2>2, <2>3
  <2>5. /\ [d \in Conns |-> sock'[d].fin \/ sock'[d].rst] = [d \in Conns |-> sock[d].fin \/ sock[d].rst]
        /\ [d \in Conns |-> sock'[d].out] = [d \in Conns |-> sock[d].out]
    BY <2>2, <2>3
  <2>6. Service!Send(c)
    BY <2>1, <2>2, <2>4, <2>5 DEF Service!Send
  <2> QED  BY <2>6 DEF ServiceStep, Service!Next
<1>3. CASE Read(c)
  <2>1. PICK n \in 1 .. Len(sock[c].out) - sock[c].got :
          sock' = [sock EXCEPT ![c].got = @ + n]
    BY <1>3 DEF Read
  <2>2. /\ sock'[c].out = sock[c].out /\ sock'[c].sent = sock[c].sent
        /\ sock'[c].fin = sock[c].fin /\ sock'[c].rst = sock[c].rst
    BY <1>0, <2>1 DEF Sockets
  <2>3. st' = st /\ \A d \in Conns : d # c => sock'[d] = sock[d]
    BY <1>3, <2>1 DEF Read
  <2> QED  BY <2>2, <2>3, Unseen
<1>4. ASSUME NEW S \in SUBSET Conns, Leave(S), \A d \in S : Connected(d), st' = st
      PROVE  ServiceStep
  <2>1. PICK R \in SUBSET {d \in S : Unread(sock[d])} :
          sock' = [d \in Conns |-> IF d \in R THEN RecvRst(sock[d])
                                   ELSE IF d \in S THEN RecvFin(sock[d]) ELSE sock[d]]
    BY <1>4 DEF Leave
  <2>2. \A d \in Conns : IF d \in S THEN sock'[d] \in {RecvFin(sock[d]), RecvRst(sock[d])}
                                    ELSE sock'[d] = sock[d]
    BY <2>1
  <2>3. \A d \in Conns : /\ sock'[d].sent = sock[d].sent /\ sock'[d].out = sock[d].out
                         /\ Ended(sock'[d]) <=> Ended(sock[d]) \/ d \in S
    BY <1>0, <2>2, ReceivedFields
  <2>4. \A d \in S : Service!Live(d)
    BY <1>4 DEF Connected, Service!Live
  <2>5. /\ [d \in Conns |-> sock'[d].sent] = [d \in Conns |-> sock[d].sent]
        /\ [d \in Conns |-> sock'[d].out] = [d \in Conns |-> sock[d].out]
    BY <2>3
  <2>6. \A d \in Conns : (sock'[d].fin \/ sock'[d].rst) = ((sock[d].fin \/ sock[d].rst) \/ d \in S)
    BY <2>3 DEF Ended
  <2>7. [d \in Conns |-> sock'[d].fin \/ sock'[d].rst] =
          [d \in Conns |-> [e \in Conns |-> sock[e].fin \/ sock[e].rst][d] \/ d \in S]
    BY <2>6
  <2>8. Service!End(S)
    BY <1>4, <2>4, <2>5, <2>7 DEF Service!End
  <2> QED  BY <1>4, <2>8 DEF ServiceStep, Service!Next
<1>5. CASE Close(c)
  BY <1>4, <1>5 DEF Close
<1>6. CASE Refuse(c)
  <2>1. sock'[c] = RecvRst(sock[c]) /\ sock[c].fin /\ st' = st
        /\ \A d \in Conns : d # c => sock'[d] = sock[d]
    BY <1>0, <1>6 DEF Refuse
  <2>2. /\ sock'[c].sent = sock[c].sent /\ sock'[c].out = sock[c].out
        /\ sock'[c].fin /\ sock[c].fin
    BY <1>0, <2>1 DEF RecvRst, Sockets
  <2>3. /\ [d \in Conns |-> sock'[d].sent] = [d \in Conns |-> sock[d].sent]
        /\ [d \in Conns |-> sock'[d].out] = [d \in Conns |-> sock[d].out]
        /\ [d \in Conns |-> sock'[d].fin \/ sock'[d].rst] = [d \in Conns |-> sock[d].fin \/ sock[d].rst]
    BY <2>1, <2>2
  <2> QED  BY <2>1, <2>3 DEF ServiceStep, Service!vars
<1>7. CASE FinishAlone(c)
  BY <1>7, Unseen DEF FinishAlone
<1>8. CASE Fail(c, up # {})
  <2>1. SameProcess(c) \subseteq Conns
    BY ClientsAssumption DEF SameProcess
  <2> QED  BY <1>4, <1>8, <2>1 DEF Fail
<1> QED  BY <1>1, <1>2, <1>3, <1>5, <1>6, <1>7, <1>8 DEF Client, ClientStep

\* What write() takes are the next bytes of the echo.
LEMMA WriteEchoes ==
    ASSUME SimInv, NEW c \in Conns, WriteData(c)
    PROVE  ServiceStep
<1> DEFINE n == WriteLen(sock[c], Len(chunk[c]))
           m == Len(sock[c].out)
<1>1. /\ sock \in [Conns -> Sockets] /\ sock[c] \in Sockets
      /\ chunk[c] \in Seq(Bytes) /\ chunk[c] # << >>
      /\ ~sock[c].rst /\ SendRoom(sock[c]) > 0 /\ handler[c] \in Working
  BY DEF SimInv, BlockInv, TypeOK, ClientsTypeOK, WriteData, WritesData, Working
<1>2. SockFlow(c, sock[c], chunk[c])
  BY <1>1 DEF SimInv, FlowInv
<1>3. /\ n \in 1 .. sock[c].sent - m
      /\ AfterWrite(sock[c], chunk[c]).out = sock[c].out \o [k \in 1 .. n |-> Byte(c, m + k)]
  BY <1>1, <1>2, WriteFlows
<1>4. m \in Nat /\ sock[c].sent \in Nat /\ sock[c].out \in Seq(Bytes)
  BY <1>1 DEF Sockets
<1>5. /\ AfterWrite(sock[c], chunk[c]).sent = sock[c].sent
      /\ AfterWrite(sock[c], chunk[c]).fin = sock[c].fin
      /\ AfterWrite(sock[c], chunk[c]).rst = sock[c].rst
  BY <1>1 DEF AfterWrite, Sockets
<1>6. /\ sock'[c] = AfterWrite(sock[c], chunk[c])
      /\ \A d \in Conns : d # c => sock'[d] = sock[d]
      /\ st' = st
  BY <1>1 DEF WriteData
<1>7. Service!LastEchoed(c) = m
  <2>1. CASE sock[c].out = << >>
    BY <2>1, EmptySeq DEF Service!LastEchoed
  <2>2. CASE sock[c].out # << >>
    <3>1. m \in 1 .. m
      BY <1>4, <2>2, EmptySeq
    <3>2. sock[c].out[m] = Byte(c, 0 + m)
      BY <1>2, <3>1 DEF SockFlow, Flow, Runs
    <3>3. sock[c].out[m][2] = m
      BY <1>4, <3>2 DEF Byte
    <3> QED  BY <2>2, <3>3 DEF Service!LastEchoed
  <2> QED  BY <2>1, <2>2
<1> HIDE DEF n, m
<1> DEFINE next == [k \in 1 .. n |-> m + k]
           t == sock[c].sent
<1>8. t \in Nat /\ n \in 1 .. t - m
  BY <1>3, <1>4
<1> HIDE DEF t
<1>9. /\ next \in [1 .. n -> m + 1 .. t]
      /\ \A k, l \in 1 .. n : k < l => next[k] < next[l]
      /\ \A k \in 1 .. n : next[k] = m + k
  BY <1>4, <1>8
<1>10. [k \in 1 .. n |-> Byte(c, m + k)] = [k \in 1 .. n |-> <<c, next[k]>>]
  BY DEF Byte
<1> HIDE DEF next
<1>11. [d \in Conns |-> sock'[d].out] =
          [[d \in Conns |-> sock[d].out] EXCEPT ![c] = @ \o [k \in 1 .. n |-> <<c, next[k]>>]]
  BY <1>3, <1>6, <1>10
<1>12. /\ [d \in Conns |-> sock'[d].sent] = [d \in Conns |-> sock[d].sent]
       /\ [d \in Conns |-> sock'[d].fin \/ sock'[d].rst] = [d \in Conns |-> sock[d].fin \/ sock[d].rst]
  BY <1>5, <1>6
<1>13. st[c] = "open"
  BY <1>1, ServedIsOpen
<1>14. [d \in Conns |-> sock[d].sent][c] = t
  BY DEF t
<1>15. Service!Echo(c)
  <2> DEFINE last == Service!LastEchoed(c)
             all == [d \in Conns |-> sock[d].sent][c]
  <2>1. n \in 1 .. all - last
    BY <1>7, <1>8, <1>14
  <2>2. next \in [1 .. n -> last + 1 .. all]
    BY <1>7, <1>9, <1>14
  <2>3. \A k \in 1 .. n : next[k] = last + k
    BY <1>7, <1>9
  <2>4. \E p \in 1 .. all - last :
        \E f \in [1 .. p -> last + 1 .. all] :
          /\ \A k, l \in 1 .. p : k < l => f[k] < f[l]
          /\ FALSE \/ \A k \in 1 .. p : f[k] = last + k
          /\ [d \in Conns |-> sock'[d].out] =
               [[d \in Conns |-> sock[d].out] EXCEPT ![c] = @ \o [k \in 1 .. p |-> <<c, f[k]>>]]
    <3> USE <1>9, <1>11, <2>1, <2>2, <2>3
    <3> WITNESS n \in 1 .. all - last
    <3> WITNESS next \in [1 .. n -> last + 1 .. all]
    <3> QED  OBVIOUS
  <2> QED  BY <1>6, <1>12, <1>13, <2>4, Zenon DEF Service!Echo
<1> QED  BY <1>15 DEF ServiceStep, Service!Next

LEMMA EchoLoopServes ==
    ASSUME SimInv, NEW c \in Conns, EchoLoop(c)
    PROVE  ServiceStep
<1>0. /\ sock \in [Conns -> Sockets]
      /\ st \in [Conns -> {"idle", "queued", "open", "closed", "lost"}]
      /\ st' \in [Conns -> {"idle", "queued", "open", "closed", "lost"}]
  <2>1. BlockInv /\ BlockInv'
    BY ReadStep, WriteStep DEF SimInv, EchoLoop
  <2> QED  BY <2>1 DEF BlockInv, TypeOK, ClientsTypeOK
<1>1. CASE ReadData(c)
  <2>1. /\ AfterRead(sock[c], BufSize).sent = sock[c].sent
        /\ AfterRead(sock[c], BufSize).fin = sock[c].fin
        /\ AfterRead(sock[c], BufSize).rst = sock[c].rst
        /\ AfterRead(sock[c], BufSize).out = sock[c].out
    BY <1>0 DEF AfterRead, Sockets
  <2>2. /\ sock'[c] = AfterRead(sock[c], BufSize)
        /\ \A d \in Conns : d # c => sock'[d] = sock[d]
        /\ st' = st
    BY <1>0, <1>1 DEF ReadData
  <2> QED  BY <2>1, <2>2, Unseen
<1>2. CASE WriteData(c)
  BY <1>2, WriteEchoes
<1>3. CASE WriteCut(c)
  BY <1>3, Unseen DEF WriteCut, clientVars
<1>4. CASE ReadError(c) \/ WriteError(c) \/ (ReadEof(c) /\ forks)
  <2>1. /\ Server(c) \in Procs /\ Exit(Server(c), c) /\ c \in Procs
        /\ handler[c] \in Working /\ Ended(sock[c])
    BY <1>4, Endings DEF Procs
  <2>2. \A d \in Conns : st'[d] # st[d] =>
            \/ st[d] = "open" /\ st'[d] = "closed" /\ Ended(sock[d])
            \/ st[d] = "queued" /\ st'[d] = "lost"
    BY <2>1, ExitCloses
  <2>3. sock' = sock
    BY <2>1 DEF Exit
  <2> QED  BY <1>0, <2>2, <2>3, Stops
<1>5. CASE ReadEof(c) /\ ~forks
  <2>1. st[c] = "open" /\ Ended(sock[c])
    BY <1>5, Endings, ServedIsOpen DEF Working
  <2>2. sock' = sock /\ st' = [st EXCEPT ![c] = "closed"]
    BY <1>5 DEF ReadEof
  <2> QED  BY <1>0, <2>1, <2>2, Stops
<1> QED  BY <1>1, <1>2, <1>3, <1>4, <1>5 DEF EchoLoop

LEMMA AcceptLoopServes ==
    ASSUME SimInv, AcceptLoop
    PROVE  ServiceStep
<1>0. /\ st \in [Conns -> {"idle", "queued", "open", "closed", "lost"}]
      /\ st' \in [Conns -> {"idle", "queued", "open", "closed", "lost"}]
  <2>1. BlockInv /\ BlockInv'
    BY BlockStep DEF SimInv, Next
  <2> QED  BY <2>1 DEF BlockInv, TypeOK, ClientsTypeOK
<1>1. CASE AcceptFails
  <2>1. /\ Main \in Procs /\ Exit(Main, Main)
        /\ forks => \A c \in Conns : handler[c] # "fork"
        /\ ~forks => \A c \in Conns : handler[c] \notin Working
    BY <1>1 DEF AcceptFails, InAccept, Procs
  <2>2. sock' = sock
    BY <2>1 DEF Exit
  <2>3. CASE forks
    <3>1. \A d \in Conns : st'[d] # st[d] =>
              \/ st[d] = "open" /\ st'[d] = "closed" /\ Ended(sock[d])
              \/ st[d] = "queued" /\ st'[d] = "lost"
      BY <2>1, <2>3, ExitCloses
    <3> QED  BY <1>0, <2>2, <3>1, Stops
  <2>4. CASE ~forks
    <3>1. \A d \in Conns : st[d] # "open"
      BY <1>1, <2>1, <2>4 DEF SimInv, BlockInv, SingleInv, Served, OpenConns, AcceptFails, InAccept
    <3>2. \A d \in Conns : st'[d] # st[d] => st[d] = "queued" /\ st'[d] = "lost"
      BY <2>1, <3>1 DEF Exit, Settled
    <3> QED  BY <1>0, <2>2, <3>2, Stops
  <2> QED  BY <2>3, <2>4
<1>2. ASSUME NEW c \in Conns, Accept(c) PROVE ServiceStep
  <2>1. Service!Accept(c)
    BY <1>2 DEF Accept, Queued, Service!Accept
  <2> QED  BY <2>1 DEF ServiceStep, Service!Next
<1>3. ASSUME NEW c \in Conns, Fork(c) PROVE ServiceStep
  BY <1>3, Unseen DEF Fork, clientVars
<1>4. ASSUME NEW c \in Conns, ForkFails(c) PROVE ServiceStep
  <2>1. st[c] = "open"
    BY <1>4 DEF ForkFails, SimInv, RunInv, BlockInv, SingleInv
  <2> QED  BY <1>0, <1>4, <2>1, Stops DEF ForkFails
<1> QED  BY <1>1, <1>2, <1>3, <1>4 DEF AcceptLoop

-----------------------------------------------------------------------------

\* Either blocking server is an echo service, for any number of clients, bytes and
\* descriptors: the echo is what was sent, in order and without a gap, however read()
\* and write() divide it, and a connection is closed only when its client has ended
\* it, or lost with a failed fork() or with the queue.
THEOREM BlockingServerServes == Spec => EchoesAsPromised
<1>1. Init => Service!Init
  <2> SUFFICES ASSUME Init PROVE Service!Init
    OBVIOUS
  <2>1. \A c \in Conns : sock[c] = FreshSocket
    BY DEF Init, ClientsInit
  <2>2. /\ FreshSocket.sent = 0 /\ FreshSocket.out = << >>
        /\ (FreshSocket.fin \/ FreshSocket.rst) = FALSE
    BY DEF FreshSocket
  <2>3. /\ [c \in Conns |-> sock[c].sent] = [c \in Conns |-> 0]
        /\ [c \in Conns |-> sock[c].fin \/ sock[c].rst] = [c \in Conns |-> FALSE]
        /\ [c \in Conns |-> sock[c].out] = [c \in Conns |-> << >>]
    BY <2>1, <2>2
  <2> QED  BY <2>3 DEF Init, ClientsInit, Service!Init
<1>2. SimInv /\ [Next]_vars => ServiceStep
  <2> SUFFICES ASSUME SimInv, [Next]_vars PROVE ServiceStep
    OBVIOUS
  <2>1. CASE UNCHANGED vars
    BY <2>1, Unseen DEF vars
  <2> QED  BY <2>1, ClientServes, EchoLoopServes, AcceptLoopServes DEF Next
<1> QED  BY <1>1, <1>2, SimInvariant, PTL DEF Spec, EchoesAsPromised, Service!Spec, ServiceStep

=============================================================================
