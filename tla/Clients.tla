------------------------------- MODULE Clients -------------------------------
(***************************************************************************)
(* The two client programs of the repository:                              *)
(*   echo_client.cpp   writes a message and reads from the socket, turn by    *)
(*                     turn, and ends                                       *)
(*   multi_client.cpp  threads that connect, write and close without reading,  *)
(*                     one connection after the other; an error in one thread  *)
(*                     ends all of them                                      *)
(* BlockingServer composes these actions with a server's.                    *)
(***************************************************************************)
EXTENDS TcpSocket

CONSTANTS
    EchoClients,   \* processes that run echo_client
    Turns,         \* its turns, 10 in the code
    MsgLen,        \* write_buffer.size()
    Threads,       \* threads of one multi_client process
    Rounds,        \* connections a thread makes, 4 in the code
    Pings          \* bytes a thread writes on each, 10 messages in the code

ASSUME ClientsAssumption ==
    /\ EchoClients \cap Threads = {}
    /\ Turns \in Nat \ {0} /\ MsgLen \in Nat \ {0}
    /\ Rounds \in Nat \ {0} /\ Pings \in Nat \ {0}
    /\ Conns = (EchoClients \X {1}) \cup (Threads \X (1 .. Rounds))

VARIABLES
    st,      \* life of a connection: "idle", "queued", "open", and "closed" or
             \* "lost" by the server
    sock,    \* the server's socket of each connection
    cpc      \* the next call of the client on each connection

ClientsTypeOK ==
    /\ st \in [Conns -> {"idle", "queued", "open", "closed", "lost"}]
    /\ sock \in [Conns -> Sockets]
    /\ cpc \in [Conns -> {"connect", "write", "read", "close", "done"}]

ClientsInit ==
    /\ st = [c \in Conns |-> "idle"]
    /\ sock = [c \in Conns |-> FreshSocket]
    /\ cpc = [c \in Conns |-> "connect"]

IsEcho(c) == c[1] \in EchoClients

\* The connections of the process that made c.
SameProcess(c) == IF IsEcho(c) THEN {c} ELSE Threads \X (1 .. Rounds)

Queued == {c \in Conns : st[c] = "queued"}

Connected(c) == st[c] \in {"queued", "open"} /\ ~sock[c].rst

Unread(s) == s.got < Len(s.out)

\* It is time for connection c: the thread is done with the one before.
ItsTurn(c) == cpc[c] = "connect" /\ (c[2] > 1 => cpc[<<c[1], c[2] - 1>>] = "done")

\* Mutant: the client reads before it writes.
ConnectAndListen(c, listening) ==
    /\ listening /\ ItsTurn(c)
    /\ st' = [st EXCEPT ![c] = "queued"]
    /\ cpc' = [cpc EXCEPT ![c] = "read"]
    /\ UNCHANGED sock

Connect(c, listening) ==
    /\ listening /\ ItsTurn(c)
    /\ st' = [st EXCEPT ![c] = "queued"]
    /\ cpc' = [cpc EXCEPT ![c] = "write"]
    /\ UNCHANGED sock

\* The bytes of a write() arrive one by one, in as many reads as it pleases TCP.
\* echo_client reads after each message; a multi_client thread closes at the end.
Write(c) ==
    LET n == sock[c].sent + 1 IN
    /\ cpc[c] = "write" /\ Connected(c)
    /\ sock' = [sock EXCEPT ![c] = RecvByte(@, c)]
    /\ cpc' = [cpc EXCEPT ![c] =
                 IF IsEcho(c) THEN IF n % MsgLen = 0 THEN "read" ELSE "write"
                              ELSE IF n = Pings THEN "close" ELSE "write"]
    /\ UNCHANGED st

\* read() returns what has come, if only a part of the message.
Read(c) ==
    /\ cpc[c] = "read" /\ Connected(c)
    /\ \E n \in 1 .. Len(sock[c].out) - sock[c].got :
        sock' = [sock EXCEPT ![c].got = @ + n]
    /\ cpc' = [cpc EXCEPT ![c] = IF sock[c].sent = Turns * MsgLen THEN "close"
                                                                ELSE "write"]
    /\ UNCHANGED st

\* The kernel closes the connections of S: the peer of each sees a FIN, or a RST
\* if there is something the client has not read.
Leave(S) ==
    \E R \in SUBSET {c \in S : Unread(sock[c])} :
        sock' = [c \in Conns |-> IF c \in R THEN RecvRst(sock[c])
                                ELSE IF c \in S THEN RecvFin(sock[c]) ELSE sock[c]]

Close(c) ==
    /\ cpc[c] = "close" /\ Connected(c)
    /\ Leave({c})
    /\ cpc' = [cpc EXCEPT ![c] = "done"]
    /\ UNCHANGED st

\* The echo that is still on its way to a closed socket is answered by a RST.
Refuse(c) ==
    /\ cpc[c] = "done" /\ Connected(c) /\ sock[c].fin /\ Unread(sock[c])
    /\ sock' = [sock EXCEPT ![c] = RecvRst(@)]
    /\ UNCHANGED <<st, cpc>>

\* The server has closed the connection: reads return end of file and writes go
\* nowhere, without blocking, until the program is done with it.
FinishAlone(c) ==
    /\ cpc[c] \in {"write", "read", "close"} /\ st[c] \in {"closed", "lost"}
    /\ cpc' = [cpc EXCEPT ![c] = "done"]
    /\ UNCHANGED <<st, sock>>

\* A call fails: exit(EXIT_FAILURE), or SIGPIPE, ends the process with all its
\* connections.
Fail(c, listening) ==
    /\ \/ cpc[c] \in {"write", "read"} /\ st[c] \in {"closed", "lost"}
       \/ ItsTurn(c) /\ ~listening
    /\ Leave({d \in SameProcess(c) : cpc[d] # "done" /\ Connected(d)})
    /\ cpc' = [d \in Conns |-> IF d \in SameProcess(c) THEN "done" ELSE cpc[d]]
    /\ UNCHANGED st

ClientStep(c, listening) ==
    \/ Connect(c, listening) \/ Write(c) \/ Read(c) \/ Close(c) \/ Refuse(c)
    \/ FinishAlone(c) \/ Fail(c, listening)

=============================================================================
