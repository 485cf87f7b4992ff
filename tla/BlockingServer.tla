--------------------------- MODULE BlockingServer ---------------------------
(***************************************************************************)
(* The two echo servers that block, with the repository's clients:           *)
(*   single_client_blocking_io_server.cpp         serves one connection after  *)
(*                                                the other                  *)
(*   fork_process_per_connection_server.cpp       forks a child for each       *)
(* Their accept and echo loops are the same but for who runs the second.      *)
(*                                                                         *)
(* A child has copies of all the descriptors its parent has at the fork, the   *)
(* listening socket included.  The parent never closes its own (line 79 goes    *)
(* on to the next accept()), so who holds a copy of what is part of the state:  *)
(* a connection is closed when the last copy is.  file_descriptor is taken to   *)
(* be a handle that close_fd() alone closes, as in SelectServer.              *)
(***************************************************************************)
EXTENDS Clients, FiniteSets

CONSTANTS
    Main,      \* the process that accepts
    Designs,   \* which servers: TRUE for the one that forks
    BufSize,   \* BUFF_SIZE
    MaxFds,    \* how many connections a process can hold descriptors of
    Faults     \* may fork() fail?

ASSUME BlockingAssumption ==
    /\ Main \notin Conns
    /\ Designs \subseteq BOOLEAN
    /\ BufSize \in Nat \ {0}
    /\ MaxFds \in Nat \ {0}
    /\ Faults \in BOOLEAN

Procs == {Main} \cup Conns   \* the child for a connection is named after it

VARIABLES
    forks,     \* which server it is
    up,        \* the processes that are running
    holds,     \* the connections each process has a descriptor of
    handler,   \* the next call of the echo loop for each connection
    chunk      \* what is left to echo of buffer[0 .. rlen)

clientVars == <<st, sock, cpc>>
vars == <<st, sock, cpc, forks, up, holds, handler, chunk>>

Working == {"read", "write", "wait"}

TypeOK ==
    /\ ClientsTypeOK
    /\ forks \in Designs
    /\ up \subseteq Procs
    /\ holds \in [Procs -> SUBSET Conns]
    /\ handler \in [Conns -> {"none", "fork", "done"} \cup Working]
    /\ chunk \in [Conns -> Seq(Bytes)]
    /\ \A c \in Conns : handler[c] \in {"write", "wait"} <=> chunk[c] # << >>

Init ==
    /\ ClientsInit
    /\ forks \in Designs
    /\ up = {Main}
    /\ holds = [p \in Procs |-> {}]
    /\ handler = [c \in Conns |-> "none"]
    /\ chunk = [c \in Conns |-> << >>]

\* Connections are taken as long as some process has a copy of the listening
\* socket.
Client(c) ==
    /\ ClientStep(c, up # {})
    /\ UNCHANGED <<forks, up, holds, handler, chunk>>

-----------------------------------------------------------------------------
(* Descriptors and processes.                                               *)

\* What becomes of the connections: those nobody holds any more are closed, and
\* those in the queue are reset with the listening socket.
Settled ==
    [c \in Conns |->
        CASE st[c] = "open" /\ c \notin UNION {holds'[p] : p \in Procs} -> "closed"
          [] st[c] = "queued" /\ up' = {} -> "lost"
          [] OTHER -> st[c]]

\* exit(), or death by SIGPIPE, of p while it serves c (if it does).
Exit(p, c) ==
    /\ up' = up \ {p}
    /\ holds' = [holds EXCEPT ![p] = {}]
    /\ st' = Settled
    /\ handler' = [d \in Conns |-> IF d = c THEN "done" ELSE handler[d]]
    /\ chunk' = [d \in Conns |-> IF d = c THEN << >> ELSE chunk[d]]
    /\ UNCHANGED <<sock, cpc, forks>>

\* The process that runs the echo loop of c.
Server(c) == IF forks THEN c ELSE Main

-----------------------------------------------------------------------------
(* The accept loop.                                                         *)

InAccept ==
    /\ Main \in up
    /\ \A c \in Conns : handler[c] \notin (IF forks THEN {"fork"} ELSE Working)

Accept(c) ==
    /\ InAccept /\ Cardinality(holds[Main]) < MaxFds
    /\ c \in Queued
    /\ st' = [st EXCEPT ![c] = "open"]
    /\ holds' = [holds EXCEPT ![Main] = @ \cup {c}]
    /\ handler' = [handler EXCEPT ![c] = IF forks THEN "fork" ELSE "read"]
    /\ UNCHANGED <<sock, cpc, forks, up, chunk>>

\* EMFILE, whether or not anybody is waiting: the handler ends the server.  It does so
\* on any other error of accept() too; none is modelled.
AcceptFails ==
    /\ InAccept /\ Cardinality(holds[Main]) >= MaxFds
    /\ Exit(Main, Main)

Fork(c) ==
    /\ Main \in up /\ handler[c] = "fork"
    /\ up' = up \cup {c}
    /\ holds' = [holds EXCEPT ![c] = holds[Main]]
    /\ handler' = [handler EXCEPT ![c] = "read"]
    /\ UNCHANGED <<clientVars, forks, chunk>>

\* Mutant: a failed fork() is an exception like the others.
ForkFailureThrown(c) ==
    /\ Faults
    /\ Main \in up /\ handler[c] = "fork"
    /\ Exit(Main, c)

\* close_fd() and on to the next connection.
ForkFails(c) ==
    /\ Faults
    /\ Main \in up /\ handler[c] = "fork"
    /\ holds' = [holds EXCEPT ![Main] = @ \ {c}]
    /\ st' = [st EXCEPT ![c] = "lost"]
    /\ handler' = [handler EXCEPT ![c] = "done"]
    /\ UNCHANGED <<sock, cpc, forks, up, chunk>>

-----------------------------------------------------------------------------
(* The echo loop, in Main or in a child.                                     *)

\* Mutant: the result of read() is not tested for 0.
ReadUntested(c) ==
    /\ handler[c] = "read"
    /\ ReadsData(sock[c], BufSize) \/ ReadsEof(sock[c], BufSize)
    /\ chunk' = [chunk EXCEPT ![c] = ReadBytes(sock[c], BufSize)]
    /\ sock' = [sock EXCEPT ![c] = AfterRead(@, BufSize)]
    /\ handler' = [handler EXCEPT ![c] = "write"]
    /\ UNCHANGED <<st, cpc, forks, up, holds>>

ReadData(c) ==
    /\ handler[c] = "read" /\ ReadsData(sock[c], BufSize)
    /\ chunk' = [chunk EXCEPT ![c] = ReadBytes(sock[c], BufSize)]
    /\ sock' = [sock EXCEPT ![c] = AfterRead(@, BufSize)]
    /\ handler' = [handler EXCEPT ![c] = "write"]
    /\ UNCHANGED <<st, cpc, forks, up, holds>>

\* Mutant: the child goes on to its next read(), like the loop of
\* linux_concurrent_server.
ReadEofIgnored(c) ==
    /\ handler[c] = "read" /\ ReadsEof(sock[c], BufSize)
    /\ UNCHANGED vars

\* close_fd(); the child exits, Main goes back to accept().
ReadEof(c) ==
    /\ handler[c] = "read" /\ ReadsEof(sock[c], BufSize)
    /\ IF forks
       THEN Exit(c, c)
       ELSE /\ holds' = [holds EXCEPT ![Main] = @ \ {c}]
            /\ st' = [st EXCEPT ![c] = "closed"]
            /\ handler' = [handler EXCEPT ![c] = "done"]
            /\ UNCHANGED <<sock, cpc, forks, up, chunk>>

\* "ERROR on reading", thrown out of the loop.
ReadError(c) ==
    /\ handler[c] = "read" /\ ReadsError(sock[c], BufSize)
    /\ Exit(Server(c), c)

\* Mutant: a write() that was cut short is begun again.
WriteRestarts(c) ==
    /\ handler[c] \in {"write", "wait"} /\ WritesData(sock[c], Len(chunk[c]))
    /\ sock' = [sock EXCEPT ![c] = AfterWrite(@, chunk[c])]
    /\ IF WriteLen(sock[c], Len(chunk[c])) = Len(chunk[c])
       THEN /\ handler' = [handler EXCEPT ![c] = "read"]
            /\ chunk' = [chunk EXCEPT ![c] = << >>]
       ELSE /\ handler' = [handler EXCEPT ![c] = "wait"]
            /\ UNCHANGED chunk
    /\ UNCHANGED <<st, cpc, forks, up, holds>>

\* write() takes what there is room for, and waits for room for the rest.
WriteData(c) ==
    LET rest == SubSeq(chunk[c], WriteLen(sock[c], Len(chunk[c])) + 1, Len(chunk[c]))
    IN
    /\ handler[c] \in {"write", "wait"} /\ WritesData(sock[c], Len(chunk[c]))
    /\ sock' = [sock EXCEPT ![c] = AfterWrite(@, chunk[c])]
    /\ chunk' = [chunk EXCEPT ![c] = rest]
    /\ handler' = [handler EXCEPT ![c] = IF rest = << >> THEN "read" ELSE "wait"]
    /\ UNCHANGED <<st, cpc, forks, up, holds>>

\* Reset while it waits: write() returns how much it has written.
WriteCut(c) ==
    /\ handler[c] = "wait" /\ sock[c].rst
    /\ chunk' = [chunk EXCEPT ![c] = << >>]
    /\ handler' = [handler EXCEPT ![c] = "read"]
    /\ UNCHANGED <<clientVars, forks, up, holds>>

\* "ERROR on  writing", thrown, or SIGPIPE.
WriteError(c) ==
    /\ handler[c] = "write" /\ (WritesError(sock[c]) \/ WritesSigpipe(sock[c]))
    /\ Exit(Server(c), c)

-----------------------------------------------------------------------------

EchoLoop(c) ==
    ReadData(c) \/ ReadEof(c) \/ ReadError(c)
        \/ WriteData(c) \/ WriteCut(c) \/ WriteError(c)

AcceptLoop ==
    AcceptFails \/ \E c \in Conns : Accept(c) \/ Fork(c) \/ ForkFails(c)

Next ==
    \/ \E c \in Conns : Client(c) \/ EchoLoop(c)
    \/ AcceptLoop

Spec == Init /\ [][Next]_vars

\* Every process is scheduled, the clients' too, and the kernel answers what is sent
\* to a closed socket.
FairSpec ==
    /\ Spec
    /\ WF_vars(AcceptLoop)
    /\ \A c \in Conns : WF_vars(EchoLoop(c)) /\ WF_vars(Client(c))

-----------------------------------------------------------------------------
(* Properties.                                                              *)

\* What ends the accept loop: of the server that forks, only its table of
\* descriptors, full of connections it never closes, and never a client; of the
\* other one, a client that resets its connection (as multi_client does, which
\* closes without reading the echo).  Errors of accept() but EMFILE are left aside.
MainEnds ==
    Main \notin up =>
        IF forks THEN Cardinality({c \in Conns : st[c] \in {"open", "closed"}}) = MaxFds
                 ELSE \E c \in Conns : st[c] = "closed" /\ sock[c].rst

\* A connection is what st says it is, whoever holds it.
Service == INSTANCE EchoService WITH
    phase <- st,
    sent  <- [c \in Conns |-> sock[c].sent],
    ended <- [c \in Conns |-> sock[c].fin \/ sock[c].rst],
    echo  <- [c \in Conns |-> sock[c].out],
    Lossy <- FALSE

\* Either server is an echo service, whichever process holds which copy: the echo
\* is exact however write() is cut and resumed, and connections are closed only
\* when their clients have ended them, or lost with a failed fork() or the queue.
EchoesAsPromised == Service!Spec

\* Nobody waits in the queue for ever: every client is accepted, or reset with the
\* last copy of the listening socket, though Main may have gone long before.
QueueServed ==
    <>[](Queued = {})

\* No client program hangs: echo_client, which reads once after each message, has
\* something to read each time, if only a part of its echo or an end of file.
ClientsFinish ==
    <>(\A c \in Conns : cpc[c] = "done")

=============================================================================
