----------------------------- MODULE EchoService -----------------------------
(***************************************************************************)
(* What the echo servers of this repository promise, whatever their design   *)
(* ("Echo the data back to the client"): a client connects, waits to be      *)
(* accepted, gets back the bytes it sent, and keeps its connection until it   *)
(* ends it itself or the process that serves it dies.                        *)
(*                                                                         *)
(* The servers are shown to implement Spec under a mapping of their states.   *)
(* It is about safety: which of them serve everyone in the end, and when, is   *)
(* stated in their own modules.                                             *)
(***************************************************************************)
EXTENDS Integers, Sequences

CONSTANTS
    Conns,   \* client connections
    Lossy    \* may the server leave out bytes of the echo?

VARIABLES
    phase,   \* "idle", "queued", "open", "closed" by the server, "lost" with it
    sent,    \* how many bytes the client has sent
    ended,   \* has the client shut down or reset the connection?
    echo     \* the bytes the server has written: the n-th sent is <<c, n>>

vars == <<phase, sent, ended, echo>>

Init ==
    /\ phase = [c \in Conns |-> "idle"]
    /\ sent = [c \in Conns |-> 0]
    /\ ended = [c \in Conns |-> FALSE]
    /\ echo = [c \in Conns |-> << >>]

Live(c) == phase[c] \in {"queued", "open"}

-----------------------------------------------------------------------------
(* The client.                                                              *)

Connect(c) ==
    /\ phase[c] = "idle"
    /\ phase' = [phase EXCEPT ![c] = "queued"]
    /\ UNCHANGED <<sent, ended, echo>>

Send(c) ==
    /\ Live(c) /\ ~ended[c]
    /\ sent' = [sent EXCEPT ![c] = @ + 1]
    /\ UNCHANGED <<phase, ended, echo>>

\* A client program that exits ends all its connections.
End(C) ==
    /\ \A c \in C : Live(c)
    /\ ended' = [c \in Conns |-> ended[c] \/ c \in C]
    /\ UNCHANGED <<phase, sent, echo>>

-----------------------------------------------------------------------------
(* The server.                                                              *)

Accept(c) ==
    /\ phase[c] = "queued"
    /\ phase' = [phase EXCEPT ![c] = "open"]
    /\ UNCHANGED <<sent, ended, echo>>

\* The number of the last byte echoed to c.
LastEchoed(c) == IF echo[c] = << >> THEN 0 ELSE echo[c][Len(echo[c])][2]

\* The next bytes of c go back to c, in order; a lossy server may leave some out.
Echo(c) ==
    /\ phase[c] = "open"
    /\ \E n \in 1 .. sent[c] - LastEchoed(c) :
       \E next \in [1 .. n -> LastEchoed(c) + 1 .. sent[c]] :
        /\ \A k, m \in 1 .. n : k < m => next[k] < next[m]
        /\ Lossy \/ \A k \in 1 .. n : next[k] = LastEchoed(c) + k
        /\ echo' = [echo EXCEPT ![c] = @ \o [k \in 1 .. n |-> <<c, next[k]>>]]
    /\ UNCHANGED <<phase, sent, ended>>

\* The server closes connections that their clients have ended, or it dies, or one
\* of its processes does, and loses those it was answerable for.
Stop(C) ==
    /\ \A c \in C : Live(c)
    /\ \E P \in SUBSET C :
        /\ \A c \in P : phase[c] = "open" /\ ended[c]
        /\ phase' = [c \in Conns |-> IF c \in P THEN "closed"
                                     ELSE IF c \in C THEN "lost" ELSE phase[c]]
    /\ UNCHANGED <<sent, ended, echo>>

Next ==
    \/ \E c \in Conns :
        Connect(c) \/ Send(c) \/ Accept(c) \/ Echo(c)
    \/ \E C \in SUBSET Conns : End(C) \/ Stop(C)

Spec == Init /\ [][Next]_vars

=============================================================================
