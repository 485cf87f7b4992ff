------------------------------- MODULE TcpPeer -------------------------------
(***************************************************************************)
(* The clients of a server, outside the repository's servers: each connects  *)
(* once, sends bytes, reads the echo, half-closes and resets as it pleases;  *)
(* those outside Senders only connect and reset.                            *)
(* SelectServer and EpollLoop compose these actions with a server's.        *)
(***************************************************************************)
EXTENDS TcpSocket

CONSTANTS
    Senders,     \* bound: the connections whose peer sends bytes and a FIN
    MaxBytes     \* bound: bytes a peer sends on one connection

ASSUME PeerAssumption == Senders \subseteq Conns /\ MaxBytes \in Nat

VARIABLES
    st,      \* life of a connection: "idle", "queued", "open", "closed"
    sock     \* the socket of each connection

PeerTypeOK ==
    /\ st \in [Conns -> {"idle", "queued", "open", "closed"}]
    /\ sock \in [Conns -> Sockets]

PeerInit ==
    /\ st = [c \in Conns |-> "idle"]
    /\ sock = [c \in Conns |-> FreshSocket]

Queued == {c \in Conns : st[c] = "queued"}

Connected(c) == st[c] \in {"queued", "open"} /\ ~sock[c].rst

Connect(c) ==
    /\ st[c] = "idle"
    /\ st' = [st EXCEPT ![c] = "queued"]
    /\ UNCHANGED sock

PeerSend(c) ==
    /\ c \in Senders
    /\ Connected(c) /\ ~sock[c].fin /\ sock[c].sent < MaxBytes
    /\ sock' = [sock EXCEPT ![c] = RecvByte(@, c)]
    /\ UNCHANGED st

PeerRead(c) ==
    /\ Connected(c) /\ sock[c].got < Len(sock[c].out)
    /\ sock' = [sock EXCEPT ![c] = PeerConsume(@)]
    /\ UNCHANGED st

PeerFin(c) ==
    /\ c \in Senders
    /\ Connected(c) /\ ~sock[c].fin
    /\ sock' = [sock EXCEPT ![c] = RecvFin(@)]
    /\ UNCHANGED st

PeerReset(c) ==
    /\ Connected(c)
    /\ sock' = [sock EXCEPT ![c] = RecvRst(@)]
    /\ UNCHANGED st

PeerStep(c) ==
    Connect(c) \/ PeerSend(c) \/ PeerRead(c) \/ PeerFin(c) \/ PeerReset(c)

=============================================================================
