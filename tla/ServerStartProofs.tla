-------------------------- MODULE ServerStartProofs --------------------------
(***************************************************************************)
(* Proofs about start(): the types, the listening socket a worker takes for  *)
(* its own, and the sockets a failed attempt leaves behind.                  *)
(***************************************************************************)
EXTENDS ServerStart, TLAPS

USE DEF StartAssumption

\* Where the main thread is bounds the loop variable and the address position.
Position ==
    /\ mpc \in {"epoll", "spawn"} => i < WorkerNum
    /\ mpc \in {"bind", "listen"} => rp <= Len(Addrs)
    /\ mpc = "listen" => sfd \in Fds
    /\ mpc \in {"socket", "bind", "listen"} /\ ~reuse_port => i = 0

SocketRecords == [state : SockStates, addr : AddrSet, reuse : BOOLEAN]

StartInv == TypeOK /\ Position

\* The address list is not empty, and its elements are AddrSet.
LEMMA AddrFacts ==
    /\ Len(Addrs) \in Nat /\ Len(Addrs) >= 1
    /\ \A k \in 1 .. Len(Addrs) : Addrs[k] \in AddrSet
    /\ NoSocket \in SocketRecords
<1>1. Len(Addrs) \in Nat /\ Len(Addrs) >= 1
  BY StartAssumption
<1>2. \A k \in 1 .. Len(Addrs) : Addrs[k] \in AddrSet
  BY DEF AddrSet
<1> QED  BY <1>1, <1>2 DEF NoSocket, SockStates, SocketRecords

\* The initial states.
LEMMA StartInvInit == Init => StartInv
<1> SUFFICES ASSUME Init PROVE StartInv
  OBVIOUS
<1> USE DEF Init
<1>1. i \in 0 .. WorkerNum /\ rp \in 1 .. Len(Addrs) + 1
  BY AddrFacts, StartAssumption
<1>2. socks \in [Fds -> SocketRecords]
  BY AddrFacts
<1>3. Position
  BY AddrFacts, StartAssumption DEF Position
<1> QED  BY <1>1, <1>2, <1>3 DEF StartInv, TypeOK, SocketRecords

LEMMA StartInvNext == StartInv /\ [Next]_vars => StartInv'
<1> SUFFICES ASSUME StartInv, [Next]_vars PROVE StartInv'
  OBVIOUS
<1> USE AddrFacts, StartAssumption
<1> USE DEF StartInv, TypeOK, Position, vars, modeVars, setupVars, workerVars,
           clientVars
<1>1. CASE Socket
  <2>1. CASE \E f \in Fds : SocketGives(f)
    <3> PICK f \in Fds : SocketGives(f)
      BY <2>1
    <3> [state |-> "open", addr |-> Addrs[rp], reuse |-> WithReusePort]
            \in SocketRecords
      BY <1>1 DEF Socket, SocketRecords, SockStates, WithReusePort
    <3> QED  BY <1>1 DEF Socket, SocketGives, SocketRecords
  <2>2. CASE SocketFails
    BY <1>1, <2>2 DEF Socket, SocketFails
  <2> QED  BY <1>1, <2>1, <2>2 DEF Socket
<1>2. CASE Bind
  <2>1. socks' \in [Fds -> SocketRecords]
    BY <1>2 DEF Bind, SockStates, SocketRecords
  <2> QED  BY <1>2, <2>1 DEF Bind, SocketRecords
<1>3. CASE BindFails
  <2>1. socks' \in [Fds -> SocketRecords]
    BY <1>3 DEF BindFails, SocketRecords
  <2>2. rp' \in 1 .. Len(Addrs) + 1
    BY <1>3 DEF BindFails
  <2> QED  BY <1>3, <2>1, <2>2 DEF BindFails, SocketRecords
<1>4. CASE NoAddress \/ ListenFails \/ EpollFails \/ SpawnFails
  <2>1. socks' \in [Fds -> SocketRecords]
    BY <1>4 DEF NoAddress, ListenFails, EpollFails, SpawnFails, SocketRecords
  <2> QED  BY <1>4, <2>1 DEF NoAddress, ListenFails, EpollFails, SpawnFails, Exit,
                             SocketRecords
<1>5. CASE Listen
  <2>1. socks' \in [Fds -> SocketRecords]
    BY <1>5 DEF Listen, SockStates, SocketRecords
  <2>2. Position'
    BY <1>5 DEF Listen, WithReusePort
  <2> QED  BY <1>5, <2>1, <2>2 DEF Listen, SocketRecords
<1>6. CASE EpollAdd
  BY <1>6 DEF EpollAdd
<1>7. CASE Spawn
  <2>1. wpc' \in [Workers -> {"none", "created", "running", "spinning"}]
    BY <1>7 DEF Spawn
  <2>2. i' \in 0 .. WorkerNum /\ rp' \in 1 .. Len(Addrs) + 1
    BY <1>7 DEF Spawn
  <2>3. Position'
    BY <1>7 DEF Spawn
  <2> QED  BY <1>7, <2>1, <2>2, <2>3 DEF Spawn
<1>8. CASE \E w \in Workers : WorkerRuns(w)
  BY <1>8 DEF WorkerRuns
<1>9. CASE \E w \in Workers : WorkerAccepts(w) \/ WorkerMistakes(w)
  <2>1. PICK w \in Workers : WorkerAccepts(w) \/ WorkerMistakes(w)
    BY <1>9
  <2>2. client' \in [Clients -> {"away", "queued", "accepted", "refused"}]
    BY <2>1 DEF WorkerAccepts, WorkerMistakes
  <2>3. wpc' \in [Workers -> {"none", "created", "running", "spinning"}]
    BY <2>1 DEF WorkerAccepts, WorkerMistakes
  <2> QED  BY <2>1, <2>2, <2>3 DEF WorkerAccepts, WorkerMistakes
<1>10. CASE \E c \in Clients : Connect(c)
  BY <1>10 DEF Connect
<1>11. CASE UNCHANGED vars
  BY <1>11
<1> QED
  BY <1>1, <1>2, <1>3, <1>4, <1>5, <1>6, <1>7, <1>8, <1>9, <1>10, <1>11
     DEF Next, MainStep, WorkerStep

\* The state of the set-up keeps its types, for any number of workers, any
\* addresses and any failing call: the loop over the workers and the walk along
\* the address list stay in their bounds.
THEOREM StartTypeCorrect == Spec => []TypeOK
<1>1. Init => StartInv
  BY StartInvInit
<1>2. StartInv /\ [Next]_vars => StartInv'
  BY StartInvNext
<1>3. StartInv => TypeOK
  BY DEF StartInv
<1> QED  BY <1>1, <1>2, <1>3, PTL DEF Spec

-----------------------------------------------------------------------------
(* Every failed attempt to set up a listening socket closes it, before the     *)
(* next address or the exception, unless it was given descriptor 0, which       *)
(* line 438 takes for a failure of socket().                                  *)

LEMMA LeakInit == Init => NoLeakedSocket
BY DEF Init, NoLeakedSocket, NoSocket

LEMMA LeakNext == StartInv /\ NoLeakedSocket /\ [Next]_vars => NoLeakedSocket'
<1> SUFFICES ASSUME StartInv, NoLeakedSocket, [Next]_vars PROVE NoLeakedSocket'
  OBVIOUS
<1>0. socks \in [Fds -> SocketRecords]
  BY DEF StartInv, TypeOK, SocketRecords
<1>1. ASSUME NEW f \in Fds \ {0}, socks'[f].state \in {"open", "bound"}
      PROVE  f = sfd' /\ mpc' \in {"bind", "listen"}
  <2> USE DEF NoLeakedSocket
  <2>1. CASE Socket
    BY <1>0, <1>1, <2>1 DEF Socket, SocketGives, SocketFails, SocketRecords
  <2>2. CASE Bind
    BY <1>0, <1>1, <2>2 DEF Bind, SocketRecords
  <2>3. CASE BindFails
    BY <1>0, <1>1, <2>3 DEF BindFails, NoSocket
  <2>4. CASE Listen
    BY <1>0, <1>1, <2>4 DEF Listen, SocketRecords
  <2>5. CASE NoAddress \/ EpollFails \/ SpawnFails
    BY <1>1, <2>5 DEF NoAddress, EpollFails, SpawnFails
  <2>10. CASE ListenFails
    BY <1>0, <1>1, <2>10 DEF ListenFails, NoSocket
  <2>6. CASE EpollAdd \/ Spawn
    BY <1>1, <2>6 DEF EpollAdd, Spawn, setupVars
  <2>7. CASE \E w \in Workers : WorkerStep(w)
    BY <1>1, <2>7 DEF WorkerStep, WorkerRuns, WorkerAccepts, WorkerMistakes,
                      setupVars
  <2>8. CASE \E c \in Clients : Connect(c)
    BY <1>1, <2>8 DEF Connect, setupVars
  <2>9. CASE UNCHANGED vars
    BY <1>1, <2>9 DEF vars
  <2> QED
    BY <2>1, <2>2, <2>3, <2>4, <2>5, <2>6, <2>7, <2>8, <2>9, <2>10
       DEF Next, MainStep
<1> QED  BY <1>1 DEF NoLeakedSocket

\* setupServerTcpSocket() closes the socket of every attempt that fails in bind() or
\* listen() (lines 451 and 461), whatever fails and however often it is called, also
\* when the process then ends; only a socket that was given descriptor 0 is left
\* behind.
THEOREM FailedAttemptsClosed == Spec => []NoLeakedSocket
<1>1. Init => StartInv /\ NoLeakedSocket
  BY StartInvInit, LeakInit
<1>2. (StartInv /\ NoLeakedSocket) /\ [Next]_vars => (StartInv /\ NoLeakedSocket)'
  BY StartInvNext, LeakNext
<1> QED  BY <1>1, <1>2, PTL DEF Spec

-----------------------------------------------------------------------------
(* What the workers copy from server_sfd_.                                    *)

Listening(f) == f \in Fds /\ socks[f].state = "listening"

Started(w) == wpc[w] # "none"

Copied(w) == wpc[w] \in {"running", "spinning"}

\* The socket being set up is not one that listens, and what listens goes on.
ListenInv ==
    /\ mpc = "bind" /\ sfd # NoFd => socks[sfd].state = "open"
    /\ mpc = "listen" => socks[sfd].state = "bound"
    /\ \A w \in Workers : watch[w] # NoFd => Listening(watch[w])
    /\ mpc \in {"epoll", "spawn"} => Listening(server_sfd)
    /\ \A w \in Workers : Started(w) => Listening(server_sfd)
    /\ \A w \in Workers : Copied(w) => Listening(own[w])

\* In shared mode the workers are created after the one assignment of server_sfd_,
\* and every thread that runs later copies the same value.
SharedInv ==
    ~reuse_port =>
        /\ mpc \in {"socket", "bind", "listen", "epoll"} =>
                \A w \in Workers : ~Started(w)
        /\ mpc = "spawn" => \A w \in Workers : watch[w] = server_sfd
        /\ \A w \in Workers : Started(w) => watch[w] = server_sfd
        /\ \A w \in Workers : Copied(w) => own[w] = server_sfd

\* In reuse-port mode server_sfd_ is the socket of the last worker that has one, or
\* one that no worker has.
ReuseInv ==
    reuse_port =>
        /\ \A w \in Workers :
                w > i \/ (w = i /\ mpc \notin {"spawn", "exit"}) => watch[w] = NoFd
        /\ \A w \in Workers : Started(w) => w < i /\ watch[w] # NoFd
        /\ mpc = "spawn" => watch[i] # NoFd
        /\ mpc = "epoll" => \A v \in Workers : server_sfd # watch[v]
        /\ \A v, w \in Workers :
                v < w /\ watch[w] # NoFd => server_sfd # watch[v]
        /\ \A v, w \in Workers : v < w /\ Copied(w) => own[w] # watch[v]

CopyInv == ListenInv /\ SharedInv /\ ReuseInv

LEMMA CopyInit == Init => CopyInv
BY DEF Init, CopyInv, ListenInv, SharedInv, ReuseInv, Started, Copied

\* No step takes a listening socket back.
LEMMA ListeningStays ==
    ASSUME StartInv, ListenInv, [Next]_vars, NEW f, Listening(f)
    PROVE  Listening(f)'
<1> USE DEF Listening, ListenInv
<1>0. socks \in [Fds -> SocketRecords] /\ (mpc = "listen" => sfd \in Fds)
  BY DEF StartInv, TypeOK, SocketRecords, Position
<1>1. CASE Socket
  BY <1>0, <1>1 DEF Socket, SocketGives, SocketFails, IsLowestFree, FreeFds,
                    SocketRecords
<1>2. CASE Bind
  BY <1>0, <1>2 DEF Bind, SocketRecords
<1>3. CASE BindFails
  <2>1. f # sfd
    BY <1>0, <1>3, StartAssumption DEF BindFails, NoFd
  <2> QED  BY <1>3, <2>1 DEF BindFails
<1>4. CASE Listen
  BY <1>0, <1>4 DEF Listen, SocketRecords
<1>5. CASE NoAddress \/ EpollFails \/ SpawnFails
  BY <1>5 DEF NoAddress, EpollFails, SpawnFails
<1>10. CASE ListenFails
  <2>1. f # sfd
    BY <1>0, <1>10 DEF ListenFails
  <2> QED  BY <1>10, <2>1 DEF ListenFails
<1>6. CASE EpollAdd \/ Spawn
  BY <1>6 DEF EpollAdd, Spawn, setupVars
<1>7. CASE \E w \in Workers : WorkerStep(w)
  BY <1>7 DEF WorkerStep, WorkerRuns, WorkerAccepts, WorkerMistakes, setupVars
<1>8. CASE \E c \in Clients : Connect(c)
  BY <1>8 DEF Connect, setupVars
<1>9. CASE UNCHANGED vars
  BY <1>9 DEF vars
<1> QED
  BY <1>1, <1>2, <1>3, <1>4, <1>5, <1>6, <1>7, <1>8, <1>9, <1>10
     DEF Next, MainStep

LEMMA CopyNext == StartInv /\ CopyInv /\ [Next]_vars => CopyInv'
<1> SUFFICES ASSUME StartInv, CopyInv, [Next]_vars PROVE CopyInv'
  OBVIOUS
<1> USE DEF CopyInv, ListenInv, SharedInv, ReuseInv, Started, Copied
<1>0. /\ socks \in [Fds -> SocketRecords]
      /\ wpc \in [Workers -> {"none", "created", "running", "spinning"}]
      /\ own \in [Workers -> Fds \cup {NoFd}]
      /\ watch \in [Workers -> Fds \cup {NoFd}]
      /\ i \in Int /\ \A w \in Workers : w \in Int
      /\ mpc = "listen" => sfd \in Fds
      /\ mpc \in {"epoll", "spawn"} => i \in Workers
      /\ mpc \in {"socket", "bind", "listen"} /\ ~reuse_port => i = 0
      /\ sfd \in Fds \cup {NoFd} /\ NoFd \notin Fds
  BY StartAssumption DEF StartInv, TypeOK, SocketRecords, Position, Workers, NoFd
<1>L. \A f : Listening(f) => Listening(f)'
  BY ListeningStays
<1>1. CASE Socket
  BY <1>0, <1>1, <1>L DEF Socket, SocketGives, SocketFails, workerVars, modeVars,
                          SocketRecords
<1>2. CASE Bind
  BY <1>0, <1>2, <1>L DEF Bind, workerVars, modeVars, SocketRecords
<1>3. CASE BindFails
  BY <1>0, <1>3, <1>L DEF BindFails, workerVars, modeVars
<1>4. CASE NoAddress \/ ListenFails \/ EpollFails \/ SpawnFails
  <2>1. mpc' = "exit" /\ UNCHANGED <<reuse_port, i, sfd, server_sfd, watch, wpc, own>>
    BY <1>4 DEF NoAddress, ListenFails, EpollFails, SpawnFails, Exit, modeVars, workerVars
  <2>2. ListenInv'
    BY <1>L, <2>1
  <2>3. SharedInv'
    BY <2>1
  <2>4. ReuseInv'
    BY <1>0, <2>1
  <2> QED  BY <2>2, <2>3, <2>4
<1>5. CASE Listen
  <2>1. Listening(sfd)' /\ \A w \in Workers : sfd # watch[w]
    BY <1>0, <1>5 DEF Listen, Listening, SocketRecords
  <2>2. UNCHANGED <<sfd, watch, wpc, own, reuse_port, i>> /\ server_sfd' = sfd
    BY <1>5 DEF Listen, workerVars, modeVars
  <2>3. mpc = "listen" /\ mpc' \in {"join", "epoll"}
    BY <1>5 DEF Listen
  <2>4. ~reuse_port => mpc' = "epoll" /\ \A w \in Workers : ~Started(w)
    BY <1>5, <2>3 DEF Listen, WithReusePort
  <2>5. ListenInv'
    <3>1. Listening(server_sfd)'
      BY <2>1, <2>2 DEF Listening
    <3>2. \A w \in Workers : watch'[w] # NoFd => Listening(watch[w])'
      BY <1>L, <2>2
    <3>3. \A w \in Workers : Copied(w)' => Listening(own[w])'
      BY <1>L, <2>2
    <3> QED  BY <2>2, <2>3, <3>1, <3>2, <3>3
  <2>6. SharedInv'
    BY <2>2, <2>3, <2>4
  <2>7. ReuseInv'
    BY <2>1, <2>2, <2>3
  <2> QED  BY <2>5, <2>6, <2>7
<1>6. CASE EpollAdd
  <2>1. UNCHANGED <<wpc, own, reuse_port, i, server_sfd, socks, sfd>>
    BY <1>6 DEF EpollAdd, setupVars, modeVars
  <2>2. /\ mpc = "epoll" /\ mpc' = "spawn"
        /\ \A w \in Workers : watch'[w] =
                IF ~reuse_port \/ w = i THEN server_sfd ELSE watch[w]
    BY <1>6 DEF EpollAdd
  <2>3. ListenInv'
    BY <1>L, <2>1, <2>2
  <2>4. SharedInv'
    BY <2>1, <2>2
  <2>5. ReuseInv'
    BY <1>0, <2>1, <2>2 DEF Listening
  <2> QED  BY <2>3, <2>4, <2>5
<1>7. CASE Spawn
  <2>1. UNCHANGED <<own, reuse_port, watch, server_sfd, socks, sfd>>
    BY <1>7 DEF Spawn
  <2>2. /\ mpc = "spawn" /\ mpc' \in {"socket", "join", "spawn"}
        /\ i' = i + 1
        /\ reuse_port => mpc' = "socket"
        /\ ~reuse_port => mpc' \in {"join", "spawn"}
        /\ \A w \in Workers : wpc'[w] = IF w = i THEN "created" ELSE wpc[w]
    BY <1>0, <1>7 DEF Spawn
  <2>3. ListenInv'
    BY <1>L, <2>1, <2>2
  <2>4. SharedInv'
    BY <2>1, <2>2
  <2>5. ReuseInv'
    BY <1>0, <2>1, <2>2
  <2> QED  BY <2>3, <2>4, <2>5
<1>8. CASE \E w \in Workers : WorkerRuns(w)
  <2>1. PICK w \in Workers : WorkerRuns(w)
    BY <1>8
  <2>2. /\ UNCHANGED <<mpc, reuse_port, i, watch, server_sfd, socks, sfd>>
        /\ wpc[w] = "created"
        /\ \A v \in Workers : wpc'[v] = IF v = w THEN "running" ELSE wpc[v]
        /\ \A v \in Workers : own'[v] = IF v = w THEN server_sfd ELSE own[v]
    BY <1>0, <2>1 DEF WorkerRuns, modeVars, setupVars
  <2>3. ListenInv'
    BY <1>L, <2>2
  <2>4. SharedInv'
    BY <2>2
  <2>5. ReuseInv'
    BY <1>0, <2>2
  <2> QED  BY <2>3, <2>4, <2>5
<1>9. CASE \E w \in Workers : WorkerAccepts(w) \/ WorkerMistakes(w)
  <2>1. PICK w \in Workers : WorkerAccepts(w) \/ WorkerMistakes(w)
    BY <1>9
  <2>2. UNCHANGED <<mpc, reuse_port, i, watch, own, server_sfd, socks, sfd>>
    BY <2>1 DEF WorkerAccepts, WorkerMistakes, modeVars, setupVars, workerVars
  <2>3. \A v \in Workers : (Started(v)' <=> Started(v)) /\ (Copied(v)' <=> Copied(v))
    BY <1>0, <2>1 DEF WorkerAccepts, WorkerMistakes, workerVars
  <2>4. ListenInv'
    BY <1>L, <2>2, <2>3
  <2> QED  BY <2>2, <2>3, <2>4
<1>10. CASE \E c \in Clients : Connect(c)
  BY <1>10, <1>L DEF Connect, setupVars, workerVars, modeVars
<1>11. CASE UNCHANGED vars
  BY <1>11, <1>L DEF vars
<1> QED
  BY <1>1, <1>2, <1>3, <1>4, <1>5, <1>6, <1>7, <1>8, <1>9, <1>10, <1>11
     DEF Next, MainStep, WorkerStep

\* Lines 95 and 127: whenever a worker's thread gets to run, what it reads from
\* server_sfd_ without synchronisation is a listening socket, in shared mode the
\* one its epoll instance watches, in reuse-port mode never an earlier worker's.
THEOREM ListenerTaken == Spec => []TakesListener
<1>1. Init => StartInv /\ CopyInv
  BY StartInvInit, CopyInit
<1>2. (StartInv /\ CopyInv) /\ [Next]_vars => (StartInv /\ CopyInv)'
  BY StartInvNext, CopyNext
<1>3. CopyInv => TakesListener
  BY DEF CopyInv, ListenInv, SharedInv, ReuseInv, Started, Copied, Listening,
         TakesListener
<1> QED  BY <1>1, <1>2, <1>3, PTL DEF Spec

=============================================================================
