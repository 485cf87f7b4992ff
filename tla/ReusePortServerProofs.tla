------------------------ MODULE ReusePortServerProofs ------------------------
(***************************************************************************)
(* Proofs about ReusePortServer: only the first process goes on with the     *)
(* fork loop, so there are never more workers than worker_process_num, for    *)
(* any number of workers and addresses and whatever call fails.              *)
(***************************************************************************)
EXTENDS ReusePortServer, FiniteSetTheorems, TLAPS

\* The processes that have been forked so far.
Forked == {p \in Pids : pc[p] # "none"}

\* The master is in its loop or gone; a worker is never in it; and the master's
\* loop variable counts the workers.
LoopInv ==
    /\ pc[Master] \in {"fork", "end"}
    /\ \A p \in Pids : pc[p] # "fork"
    /\ Cardinality(Forked) = i[Master]

\* bind() is called for an address of the list.
AddressInv == \A p \in Procs : pc[p] = "bind" => rp[p] \in 1 .. Len(Addrs)

ForkInv == TypeOK /\ LoopInv /\ AddressInv

-----------------------------------------------------------------------------

\* What the proofs need of the constants.
LEMMA Bounds ==
    /\ WorkerNum \in Nat /\ Len(Addrs) \in Nat /\ Len(Addrs) >= 1
    /\ \A k \in 1 .. Len(Addrs) : Addrs[k] \in AddrSet
    /\ Master \notin Pids
<1>0. Addrs \in Seq(AddrSet) /\ Addrs # << >>
  BY ReusePortAssumption
<1>1. Len(Addrs) \in Nat /\ Len(Addrs) >= 1
  BY <1>0
<1>2. \A k \in 1 .. Len(Addrs) : Addrs[k] \in AddrSet
  BY DEF AddrSet
<1> QED  BY <1>1, <1>2, ReusePortAssumption


LEMMA ForkInit == Init => ForkInv
<1> SUFFICES ASSUME Init PROVE ForkInv
  OBVIOUS
<1> USE Bounds DEF Init
<1>1. TypeOK
  <2>1. bound \in [Procs -> SUBSET AddrSet] /\ taken \subseteq AddrSet
    OBVIOUS
  <2>2. unread \in [Clients -> SUBSET Inputs] /\ armed \subseteq Clients
    OBVIOUS
  <2>3. i \in [Procs -> 0 .. WorkerNum] /\ rp \in [Procs -> 1 .. Len(Addrs) + 1]
    OBVIOUS
  <2>4. /\ \A p \in Procs : pc[p] \in {"fork", "none"}
        /\ \A c \in Clients : client[c] = "away"
    OBVIOUS
  <2> QED  BY <2>1, <2>2, <2>3, <2>4 DEF TypeOK
<1>2. Forked = {}
  BY DEF Forked, Procs
<1>3. LoopInv
  BY <1>2, FS_EmptySet DEF LoopInv, Procs
<1> QED  BY <1>1, <1>3 DEF ForkInv, AddressInv

\* A step that forks nobody, lets nobody into the loop and keeps the master's
\* loop variable.
LEMMA LoopUntouched ==
    ASSUME TypeOK, LoopInv, NEW p \in Pids,
           NEW l \in {"socket", "bind", "listen", "epoll", "loop", "read", "end"},
           pc[p] # "none", pc' = [pc EXCEPT ![p] = l], UNCHANGED i
    PROVE  LoopInv'
<1>1. Forked' = Forked
  BY DEF Forked, TypeOK, Procs
<1>2. Master # p /\ Master \in Procs
  BY Bounds DEF Procs
<1> QED  BY <1>1, <1>2 DEF LoopInv, TypeOK, Procs

\* The end of a process: those queued at it are reset.
LEMMA EndsKeeps ==
    ASSUME ForkInv, NEW p \in Procs, Ends(p), pc[p] # "none"
    PROVE  TypeOK' /\ LoopInv'
<1> USE DEF ForkInv
<1>1. TypeOK'
  <2>1. /\ pc' = [pc EXCEPT ![p] = "end"]
        /\ bound' = [bound EXCEPT ![p] = {}]
        /\ client' = [c \in Clients |-> IF c \in Queued(p) \cup Accepted(p) THEN "reset"
                                                                       ELSE client[c]]
        /\ armed' = armed \ Accepted(p)
        /\ UNCHANGED <<at, cur>>
    BY DEF Ends
  <2>2. \A c \in Clients : client'[c] \in {"queued", "accepted"} => at[c] \in Listening'
    BY <2>1 DEF TypeOK, Listening, Queued, Accepted
  <2>3. armed' \subseteq {c \in Clients : client'[c] = "accepted"}
    BY <2>1 DEF TypeOK, Queued, Accepted
  <2>4. ASSUME NEW q \in Procs, pc'[q] = "read" PROVE cur'[q] \in Accepted(q)' \ armed'
    <3>1. q # p /\ cur[q] \in Accepted(q) \ armed
      BY <2>1, <2>4 DEF TypeOK
    <3> QED  BY <2>1, <3>1 DEF Queued, Accepted
  <2>5. client' \in [Clients -> {"away", "queued", "accepted", "closed", "reset"}]
    BY <2>1 DEF TypeOK
  <2>6. /\ bound' \in [Procs -> SUBSET AddrSet]
        /\ \A q \in Procs :
            pc'[q] \in {"listen", "epoll", "loop", "read"} <=> bound'[q] # {}
    BY <2>1 DEF TypeOK
  <2>7. pc' \in [Procs -> {"none", "fork", "socket", "bind", "listen", "epoll", "loop",
                           "read", "end"}]
    BY <2>1 DEF TypeOK
  <2>8. UNCHANGED <<taken, i, rp, unread>> /\ edge' \in [Procs -> BOOLEAN]
    BY DEF Ends, TypeOK
  <2> QED  BY <2>1, <2>2, <2>3, <2>4, <2>5, <2>6, <2>7, <2>8 DEF TypeOK
<1>2. LoopInv'
  <2>1. CASE p = Master
    <3>1. Forked' = Forked
      BY <2>1, Bounds DEF Forked, Ends, TypeOK, Procs
    <3> QED  BY <2>1, <3>1, Bounds DEF LoopInv, Ends, TypeOK, Procs
  <2>2. CASE p \in Pids
    BY <2>2, LoopUntouched DEF Ends
  <2> QED  BY <2>1, <2>2 DEF Procs
<1> QED  BY <1>1, <1>2

\* fork(): one worker more, and one more in the master's loop variable.
LEMMA ForkKeeps ==
    ASSUME ForkInv, NEW p \in Procs, Fork(p)
    PROVE  TypeOK' /\ LoopInv'
<1> USE DEF ForkInv
<1>1. p = Master
  BY DEF Fork, LoopInv, Procs
<1>2. PICK q \in Pids :
        /\ pc[q] = "none" /\ \A r \in Pids : pc[r] = "none" => q <= r
        /\ pc' = [pc EXCEPT ![q] = "socket"]
        /\ i' = [i EXCEPT ![q] = i[p], ![p] = @ + 1]
  BY DEF Fork
<1>3. q # Master /\ Master \in Procs /\ q \in Procs
  BY Bounds DEF Procs
<1>4. i[p] < WorkerNum
  BY DEF Fork
<1>5. TypeOK'
  <2>1. i[p] + 1 \in 0 .. WorkerNum
    BY <1>1, <1>3, <1>4, Bounds DEF TypeOK
  <2>2. i' \in [Procs -> 0 .. WorkerNum]
    BY <1>2, <2>1 DEF TypeOK
  <2>3. \A r \in Procs : r # q => pc'[r] = pc[r]
    BY <1>2 DEF TypeOK
  <2>4. pc'[q] = "socket" /\ bound[q] = {} /\ q \notin Listening
    BY <1>2, <1>3 DEF TypeOK, Listening
  <2>5. Listening' = Listening
    BY <1>3, <2>3, <2>4 DEF Listening
  <2>6. pc' \in [Procs -> {"none", "fork", "socket", "bind", "listen", "epoll", "loop",
                       "read", "end"}]
    BY <1>2 DEF TypeOK
  <2>7. \A r \in Procs : pc'[r] \in {"listen", "epoll", "loop", "read"} <=> bound[r] # {}
    BY <2>3, <2>4 DEF TypeOK
  <2>8. \A r \in Procs : pc'[r] = "read" => cur[r] \in Accepted(r) \ armed
    BY <2>3, <2>4 DEF TypeOK
  <2>9. UNCHANGED <<taken, rp, bound, edge, client, at, unread, armed, cur>>
    BY DEF Fork, connVars
  <2> QED  BY <2>2, <2>5, <2>6, <2>7, <2>8, <2>9 DEF TypeOK, Accepted
<1>6. Forked' = Forked \cup {q} /\ q \notin Forked
  BY <1>2, <1>3 DEF Forked, TypeOK, Procs
<1>7. IsFiniteSet(Forked)
  BY FS_Subset, ReusePortAssumption DEF Forked
<1>8. Cardinality(Forked') = Cardinality(Forked) + 1
  BY <1>6, <1>7, FS_AddElement
<1>9. i'[Master] = i[Master] + 1
  BY <1>1, <1>2, <1>3 DEF TypeOK
<1>10. pc'[Master] \in {"fork", "end"} /\ \A r \in Pids : pc'[r] # "fork"
  BY <1>2, <1>3 DEF LoopInv, TypeOK, Procs
<1>11. LoopInv'
  BY <1>8, <1>9, <1>10 DEF LoopInv
<1> QED  BY <1>5, <1>11

LEMMA AddressStep == TypeOK /\ AddressInv /\ [Next]_vars => AddressInv'
<1> SUFFICES ASSUME TypeOK, AddressInv, [Next]_vars PROVE AddressInv'
  OBVIOUS
<1> USE DEF TypeOK, AddressInv
<1>1. ASSUME NEW p \in Procs, Socket(p) PROVE AddressInv'
  <2>1. rp[p] \in 1 .. Len(Addrs)
    BY <1>1, Bounds DEF Socket
  <2> QED  BY <1>1, <2>1 DEF Socket
<1>2. ASSUME NEW p \in Procs, Fork(p) PROVE AddressInv'
  BY <1>2 DEF Fork
<1>3. ASSUME NEW p \in Procs, Step(p), ~Socket(p), ~Fork(p) PROVE AddressInv'
  BY <1>3 DEF Step, Returns, Bind, BindFails, NoAddress, Listen, EpollAdd,
              AcceptAll, DispatchClose, DispatchRead, ReadData, ReadAgain, ReadEof,
              ReadError, Exit, Ends
<1>4. ASSUME NEW p \in Procs, Failure(p) PROVE AddressInv'
  BY <1>4 DEF Failure, ForkFails, SocketFails, ListenFails, EpollFails,
              LoopFails, Exit, Ends
<1>5. ASSUME NEW c \in Clients, Connect(c) \/ Send(c) \/ Finish(c) PROVE AddressInv'
  BY <1>5 DEF Connect, Send, Finish
<1>6. CASE UNCHANGED vars
  BY <1>6 DEF vars
<1> QED  BY <1>1, <1>2, <1>3, <1>4, <1>5, <1>6 DEF Next

\* The events of a connection: only their worker goes to and fro between "loop" and
\* "read", with a connection of its own that is not armed while it is read.
LEMMA ConnectionKeeps ==
    ASSUME ForkInv, NEW p \in Procs, p \in Pids \/ pc[p] \in {"fork", "end"},
           DispatchClose(p) \/ DispatchRead(p) \/ ReadData(p) \/ ReadAgain(p)
                \/ ReadEof(p) \/ ReadError(p)
    PROVE  TypeOK' /\ LoopInv'
<1> USE DEF ForkInv
<1>1. p \in Pids /\ pc[p] \in {"loop", "read"}
  BY DEF DispatchClose, DispatchRead, ReadData, ReadAgain, ReadEof, ReadError
<1>2. PICK l \in {"loop", "read"} : pc' = [pc EXCEPT ![p] = l]
  <2>1. DispatchClose(p) \/ ReadData(p) => pc' = [pc EXCEPT ![p] = pc[p]]
    BY DEF DispatchClose, ReadData, TypeOK
  <2> QED  BY <1>1, <2>1 DEF DispatchRead, ReadAgain, ReadEof, ReadError
<1>3. UNCHANGED <<taken, i, rp, bound, edge, at>> /\ Listening' = Listening
  BY <1>1, <1>2 DEF DispatchClose, DispatchRead, ReadData, ReadAgain, ReadEof, ReadError,
                    Listening, TypeOK
<1>4. LoopInv'
  BY <1>1, <1>2, <1>3, LoopUntouched
<1>5. /\ \A q \in Procs : q # p => pc'[q] = pc[q]
      /\ pc'[p] = l
  BY <1>2 DEF TypeOK
<1>6. CASE DispatchClose(p)
  <2>1. PICK c \in Accepted(p) \cap armed :
          /\ client' = [client EXCEPT ![c] = "closed"]
          /\ armed' = armed \ {c}
    BY <1>6 DEF DispatchClose
  <2>2. UNCHANGED <<pc, unread, cur>>
    BY <1>6 DEF DispatchClose
  <2>3. \A q \in Procs : pc[q] = "read" => cur[q] \in Accepted(q)' \ armed'
    BY <1>3, <2>1 DEF TypeOK, Accepted
  <2>4. armed' \subseteq {d \in Clients : client'[d] = "accepted"}
    BY <2>1 DEF TypeOK, Accepted
  <2>5. /\ client' \in [Clients -> {"away", "queued", "accepted", "closed", "reset"}]
        /\ \A d \in Clients :
              client'[d] \in {"queued", "accepted"} => at[d] \in Listening
    BY <2>1 DEF TypeOK, Accepted
  <2> QED  BY <1>3, <1>4, <2>2, <2>3, <2>4, <2>5 DEF TypeOK
<1>7. CASE DispatchRead(p)
  <2>1. PICK c \in Accepted(p) \cap armed :
          /\ cur' = [cur EXCEPT ![p] = c]
          /\ armed' = armed \ {c}
    BY <1>7 DEF DispatchRead
  <2>2. UNCHANGED <<client, unread>>
    BY <1>7 DEF DispatchRead
  <2>3. \A q \in Procs : pc'[q] = "read" => cur'[q] \in Accepted(q)' \ armed'
    BY <1>3, <1>5, <2>1, <2>2 DEF TypeOK, Accepted
  <2>4. armed' \subseteq {d \in Clients : client[d] = "accepted"}
    BY <2>1 DEF TypeOK
  <2>5. cur' \in [Procs -> Clients \cup {NoClient}]
    BY <2>1 DEF TypeOK, Accepted
  <2>6. \A q \in Procs :
            pc'[q] \in {"listen", "epoll", "loop", "read"} <=> bound[q] # {}
    BY <1>1, <1>5 DEF TypeOK
  <2>7. \A d \in Clients : client[d] \in {"queued", "accepted"} => at[d] \in Listening'
    BY <1>3 DEF TypeOK
  <2> QED  BY <1>2, <1>3, <1>4, <2>2, <2>3, <2>4, <2>5, <2>6, <2>7 DEF TypeOK
<1>8. CASE ReadAgain(p)
  <2>1. /\ pc[p] = "read" /\ armed' = armed \cup {cur[p]} /\ l = "loop"
        /\ UNCHANGED <<client, unread, cur>>
    BY <1>5, <1>8 DEF ReadAgain, TypeOK
  <2>2. cur[p] \in Accepted(p)
    BY <2>1 DEF TypeOK
  <2>3. \A q \in Procs : pc'[q] = "read" => cur[q] \in Accepted(q) \ armed'
    BY <1>5, <2>1, <2>2 DEF TypeOK, Accepted
  <2>4. armed' \subseteq {d \in Clients : client[d] = "accepted"}
    BY <2>1, <2>2 DEF TypeOK, Accepted
  <2> QED  BY <1>2, <1>3, <1>4, <1>5, <2>1, <2>3, <2>4 DEF TypeOK, Accepted
<1>9. CASE ReadData(p) \/ ReadEof(p) \/ ReadError(p)
  <2>1. pc[p] = "read" /\ UNCHANGED <<client, armed, cur>>
    BY <1>9 DEF ReadData, ReadEof, ReadError, connVars
  <2>2. unread' \in [Clients -> SUBSET Inputs]
    BY <1>9 DEF ReadData, ReadEof, ReadError, connVars, TypeOK
  <2>3. \A q \in Procs : pc'[q] = "read" => cur[q] \in Accepted(q) \ armed
    BY <1>5, <2>1 DEF TypeOK
  <2> QED  BY <1>2, <1>3, <1>4, <1>5, <2>1, <2>2, <2>3 DEF TypeOK, Accepted
<1> QED  BY <1>6, <1>7, <1>8, <1>9

LEMMA ForkStep == ForkInv /\ [Next]_vars => ForkInv'
<1> SUFFICES ASSUME ForkInv, [Next]_vars PROVE ForkInv'
  OBVIOUS
<1> USE DEF ForkInv
<1>1. ASSUME NEW p \in Procs, Step(p) PROVE TypeOK' /\ LoopInv'
  <2>1. p \in Pids \/ pc[p] \in {"fork", "end"}
    BY DEF LoopInv, Procs
  <2>2. CASE Fork(p)
    BY <2>2, ForkKeeps
  <2>3. CASE Returns(p)
    BY <2>3, EndsKeeps DEF Returns
  <2>4. CASE Socket(p)
    <3>1. TypeOK'
      BY <2>4 DEF TypeOK, Socket, Listening, Accepted, connVars
    <3> QED  BY <2>1, <2>4, <3>1, LoopUntouched DEF Socket
  <2>5. CASE Bind(p)
    <3>1. rp[p] \in 1 .. Len(Addrs)
      BY <2>5 DEF Bind, AddressInv
    <3>2. TypeOK'
      BY <2>5, <3>1 DEF TypeOK, Bind, Listening, AddrSet, Accepted, connVars
    <3> QED  BY <2>1, <2>5, <3>2, LoopUntouched DEF Bind
  <2>6. CASE BindFails(p)
    <3>1. rp[p] + 1 \in 1 .. Len(Addrs) + 1
      BY <2>6, Bounds DEF BindFails, AddressInv
    <3>2. TypeOK'
      BY <2>6, <3>1 DEF TypeOK, BindFails, Listening, Accepted, connVars
    <3> QED  BY <2>1, <2>6, <3>2, LoopUntouched DEF BindFails
  <2>7. CASE NoAddress(p)
    BY <2>7, EndsKeeps DEF NoAddress, Exit
  <2>8. CASE Listen(p)
    <3>1. TypeOK'
      BY <2>8 DEF TypeOK, Listen, Listening, Accepted, connVars
    <3> QED  BY <2>1, <2>8, <3>1, LoopUntouched DEF Listen
  <2>9. CASE EpollAdd(p)
    <3>1. TypeOK'
      BY <2>9 DEF TypeOK, EpollAdd, Listening, Accepted, connVars
    <3> QED  BY <2>1, <2>9, <3>1, LoopUntouched DEF EpollAdd
  <2>10. CASE AcceptAll(p)
    <3>1. TypeOK'
      <4>1. \A c \in Clients :
              client'[c] = IF c \in Queued(p) THEN "accepted" ELSE client[c]
        BY <2>10 DEF AcceptAll
      <4>2. /\ UNCHANGED <<pc, at, cur, bound>> /\ armed' = armed \cup Queued(p)
        BY <2>10 DEF AcceptAll
      <4>3. \A c \in Clients : client'[c] \in {"queued", "accepted"} => at[c] \in Listening'
        BY <4>1, <4>2 DEF TypeOK, Listening, Queued
      <4>4. armed' \subseteq {c \in Clients : client'[c] = "accepted"}
        BY <4>1, <4>2 DEF TypeOK, Queued
      <4>5. \A q \in Procs : pc[q] = "read" => cur[q] \in Accepted(q)' \ armed'
        BY <4>1, <4>2 DEF TypeOK, Queued, Accepted
      <4> QED  BY <2>10, <4>2, <4>3, <4>4, <4>5 DEF TypeOK, AcceptAll
    <3>2. LoopInv'
      BY <2>10 DEF AcceptAll, LoopInv, Forked
    <3> QED  BY <3>1, <3>2
  <2>11. CASE DispatchClose(p) \/ DispatchRead(p) \/ ReadData(p) \/ ReadAgain(p)
                \/ ReadEof(p) \/ ReadError(p)
    BY <2>1, <2>11, ConnectionKeeps
  <2> QED
    BY <1>1, <2>2, <2>3, <2>4, <2>5, <2>6, <2>7, <2>8, <2>9, <2>10, <2>11 DEF Step
<1>2. ASSUME NEW p \in Procs, Failure(p) PROVE TypeOK' /\ LoopInv'
  <2>1. CASE SocketFails(p)
    <3>1. rp[p] + 1 \in 1 .. Len(Addrs) + 1
      BY <2>1, Bounds DEF SocketFails, TypeOK
    <3>2. TypeOK'
      BY <2>1, <3>1 DEF TypeOK, SocketFails, Listening, Accepted, connVars
    <3>3. LoopInv'
      BY <2>1 DEF SocketFails, LoopInv, Forked
    <3> QED  BY <3>2, <3>3
  <2>2. CASE ForkFails(p)
    BY <2>2, EndsKeeps DEF ForkFails
  <2>3. CASE ListenFails(p)
    BY <2>3, EndsKeeps DEF ListenFails, Exit
  <2>4. CASE EpollFails(p)
    BY <2>4, EndsKeeps DEF EpollFails, Exit
  <2>5. CASE LoopFails(p)
    BY <2>5, EndsKeeps DEF LoopFails, Exit
  <2> QED  BY <1>2, <2>1, <2>2, <2>3, <2>4, <2>5 DEF Failure
<1>3. ASSUME NEW c \in Clients, Connect(c) PROVE TypeOK' /\ LoopInv'
  <2>1. PICK p \in Listening :
          /\ at' = [at EXCEPT ![c] = p]
          /\ edge' = [edge EXCEPT ![p] = @ \/ pc[p] \in {"loop", "read"}]
    BY <1>3 DEF Connect
  <2>2. p \in Pids
    BY DEF Listening, LoopInv, Procs
  <2>3. TypeOK'
    <3>1. /\ client[c] = "away" /\ client' = [client EXCEPT ![c] = "queued"]
          /\ UNCHANGED <<taken, pc, i, rp, bound, unread, armed, cur>>
      BY <1>3 DEF Connect, connVars
    <3>2. \A d \in Clients :
            client'[d] \in {"queued", "accepted"} => at'[d] \in Listening'
      BY <2>1, <3>1 DEF TypeOK, Listening
    <3>3. armed \subseteq {d \in Clients : client'[d] = "accepted"}
      BY <3>1 DEF TypeOK
    <3>4. \A q \in Procs : pc[q] = "read" => cur[q] \in Accepted(q)' \ armed
      BY <2>1, <3>1 DEF TypeOK, Accepted
    <3>5. at' \in [Clients -> Pids \cup {NoPid}] /\ edge' \in [Procs -> BOOLEAN]
      BY <2>1, <2>2 DEF TypeOK
    <3> QED  BY <3>1, <3>2, <3>3, <3>4, <3>5 DEF TypeOK
  <2>4. LoopInv'
    BY <1>3 DEF Connect, LoopInv, Forked
  <2> QED  BY <2>3, <2>4
<1>4. ASSUME NEW c \in Clients, Send(c) \/ Finish(c) PROVE TypeOK' /\ LoopInv'
  <2>1. unread' \in [Clients -> SUBSET Inputs]
    <3>1. PICK u \in SUBSET Inputs : unread' = [unread EXCEPT ![c] = u]
      <4>1. CASE Send(c)
        <5>1. {"data"} \in SUBSET Inputs
          BY DEF Inputs
        <5> QED  BY <4>1, <5>1 DEF Send
      <4>2. CASE Finish(c)
        <5>1. unread[c] \cup {"fin"} \in SUBSET Inputs /\ {"rst"} \in SUBSET Inputs
          BY DEF TypeOK, Inputs
        <5> QED  BY <4>2, <5>1 DEF Finish
      <4> QED  BY <1>4, <4>1, <4>2
    <3> QED  BY <3>1 DEF TypeOK
  <2>2. UNCHANGED <<taken, pc, i, rp, bound, edge, client, at, armed, cur>>
    BY <1>4 DEF Send, Finish
  <2>3. TypeOK'
    BY <2>1, <2>2 DEF TypeOK, Listening, Accepted
  <2>4. LoopInv'
    BY <2>2 DEF LoopInv, Forked
  <2> QED  BY <2>3, <2>4
<1>5. ASSUME UNCHANGED vars PROVE TypeOK' /\ LoopInv'
  <2>1. TypeOK'
    BY <1>5 DEF vars, TypeOK, Listening, Accepted
  <2>2. LoopInv'
    BY <1>5 DEF vars, LoopInv, Forked
  <2> QED  BY <2>1, <2>2
<1>6. AddressInv'
  BY AddressStep
<1> QED  BY <1>1, <1>2, <1>3, <1>4, <1>5, <1>6 DEF Next

LEMMA ForkInvariant == Spec => []ForkInv
<1>1. Init => ForkInv
  BY ForkInit
<1>2. ForkInv /\ [Next]_vars => ForkInv'
  BY ForkStep
<1> QED  BY <1>1, <1>2, PTL DEF Spec

-----------------------------------------------------------------------------

\* The fork loop and the walk along the address list stay in their bounds, a
\* process has a bound socket from bind() to its end and no longer, clients are queued
\* at sockets that listen, and a worker reads from a connection of its own whose
\* one-shot registration is spent.
THEOREM ReusePortTypeCorrect == Spec => []TypeOK
<1>1. ForkInv => TypeOK
  BY DEF ForkInv
<1> QED  BY <1>1, ForkInvariant, PTL

\* There are never more workers than worker_process_num: a worker leaves its try
\* block by exit() only.
THEOREM MasterAloneForks == Spec => []OnlyMasterForks
<1>1. ForkInv => OnlyMasterForks
  <2> SUFFICES ASSUME ForkInv PROVE OnlyMasterForks
    OBVIOUS
  <2>1. i[Master] \in 0 .. WorkerNum
    BY DEF ForkInv, TypeOK, Procs
  <2>2. Cardinality(Forked) <= WorkerNum
    BY <2>1, Bounds DEF ForkInv, LoopInv
  <2> QED  BY <2>2 DEF OnlyMasterForks, Forked
<1> QED  BY <1>1, ForkInvariant, PTL

=============================================================================
