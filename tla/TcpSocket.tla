------------------------------ MODULE TcpSocket ------------------------------
(***************************************************************************)
(* The Linux TCP socket as the servers of this repository use it.  The      *)
(* kernel is not part of the repository: these operators state what         *)
(* read(2), write(2) and epoll(7) return to the code for each state of an   *)
(* accepted connection, and nothing about segments or timers.              *)
(*                                                                         *)
(* A socket is a record:                                                   *)
(*   sent  how many bytes the peer has sent; the n-th byte of connection c  *)
(*         is <<c, n>>, so that loss, order and mix-ups are visible         *)
(*   rq    the receive queue                                               *)
(*   fin   the peer's FIN has arrived                                      *)
(*   rst   the peer's RST has arrived (the socket is then dead)             *)
(*   err   the pending socket error: it is reported, and cleared, by the    *)
(*         next read or write that looks at it                             *)
(*   out   every byte write() has taken so far                             *)
(*   got   how many of those the peer has consumed                         *)
(***************************************************************************)
EXTENDS Integers, Sequences

CONSTANTS
    Conns,    \* client connections
    SndBuf    \* capacity of a socket's send buffer, in bytes

ASSUME SndBufAssumption == SndBuf \in Nat \ {0}

\* ECONNRESET after a plain RST; EPIPE when the FIN had already arrived.
SockErrors == {"none", "ECONNRESET", "EPIPE"}

Bytes == Conns \X Nat

Sockets == [sent : Nat, rq : Seq(Bytes), fin : BOOLEAN, rst : BOOLEAN,
            err : SockErrors, out : Seq(Bytes), got : Nat]

FreshSocket == [sent |-> 0, rq |-> << >>, fin |-> FALSE, rst |-> FALSE,
                err |-> "none", out |-> << >>, got |-> 0]

-----------------------------------------------------------------------------
(* What the peer and the network do to the socket.                          *)

RecvByte(s, c) == [s EXCEPT !.sent = @ + 1, !.rq = Append(@, <<c, s.sent + 1>>)]

RecvFin(s) == [s EXCEPT !.fin = TRUE]

RecvRst(s) == [s EXCEPT !.rst = TRUE,
                        !.err = IF s.fin THEN "EPIPE" ELSE "ECONNRESET"]

PeerConsume(s) == [s EXCEPT !.got = @ + 1]

-----------------------------------------------------------------------------
(* What the server's system calls see.                                      *)

Smaller(m, n) == IF m <= n THEN m ELSE n

SendRoom(s) == SndBuf - (Len(s.out) - s.got)

\* The readiness epoll computes for the socket.
PollMask(s) ==
    UNION {IF s.rq # << >> \/ s.fin \/ s.rst THEN {"IN"} ELSE {},
           IF s.fin \/ s.rst THEN {"RDHUP"} ELSE {},
           IF SendRoom(s) > 0 \/ s.rst THEN {"OUT"} ELSE {},
           IF s.err # "none" THEN {"ERR"} ELSE {},
           IF s.rst THEN {"HUP"} ELSE {}}

\* read(fd, buffer, n) of a nonblocking socket: queued bytes come first, then
\* end of file, then the pending error.  A read of 0 bytes returns 0, which the
\* caller cannot tell from end of file.
ReadsData(s, n) == n # 0 /\ s.rq # << >>

ReadsEof(s, n) ==
    \/ n = 0
    \/ s.rq = << >> /\ (s.fin \/ (s.rst /\ s.err = "none"))

ReadsError(s, n) == n # 0 /\ s.rq = << >> /\ ~s.fin /\ s.err # "none"

ReadsAgain(s, n) ==
    n # 0 /\ s.rq = << >> /\ ~s.fin /\ ~s.rst /\ s.err = "none"

ReadLen(s, n) == Smaller(n, Len(s.rq))

ReadBytes(s, n) == SubSeq(s.rq, 1, ReadLen(s, n))

AfterRead(s, n) == [s EXCEPT !.rq = SubSeq(s.rq, ReadLen(s, n) + 1, Len(s.rq))]

ClearError(s) == [s EXCEPT !.err = "none"]

\* write(fd, buffer, n) of a nonblocking socket.  A reset socket reports its
\* pending error once; EPIPE comes with SIGPIPE, whose default action ends the
\* process (no server of this repository changes it).
WritesData(s, n) == n # 0 /\ ~s.rst /\ s.err = "none" /\ SendRoom(s) > 0

WritesNothing(s, n) ==
    ~s.rst /\ s.err = "none" /\ (n = 0 \/ SendRoom(s) <= 0)

WritesError(s) == s.err = "ECONNRESET"

WritesSigpipe(s) == s.err = "EPIPE" \/ (s.rst /\ s.err = "none")

WriteLen(s, n) == Smaller(n, SendRoom(s))

AfterWrite(s, bytes) ==
    [s EXCEPT !.out = @ \o SubSeq(bytes, 1, WriteLen(s, Len(bytes)))]

=============================================================================
