---------------------------- MODULE SelectServer ----------------------------
(***************************************************************************)
(* The single-threaded echo server on select()                             *)
(* (src/src/servers/nonblocking_io_multiplexing_select_server.cpp), after    *)
(* its listening socket is set up.  One pass of the outer loop asks select() *)
(* for the readable descriptors and scans them upwards, counting down how    *)
(* many are left; the set to ask for and its highest member are maintained   *)
(* by hand while the scan is going on.                                      *)
(*                                                                         *)
(* The class file_descriptor of that file is not in the repository.  The     *)
(* code works only if it is a handle that close_fd() alone closes (line 105  *)
(* makes one for every event, line 91 puts one connection after another     *)
(* into the same object), so that is what is modelled.                      *)
(***************************************************************************)
EXTENDS TcpPeer, FiniteSets

CONSTANTS
    ServerFd,    \* the listening socket
    FDs,         \* descriptor numbers free for accept4()
    NoConn,
    BufSize,     \* BUFF_SIZE
    Faults       \* may select() be interrupted by a signal?

ASSUME SelectAssumption ==
    /\ ServerFd \in Nat
    /\ FDs \subseteq Nat
    /\ ServerFd \notin FDs
    /\ NoConn \notin Conns
    /\ BufSize \in Nat \ {0}
    /\ Faults \in BOOLEAN

VARIABLES
    proc,      \* how the process is: "up", or what ended it
    fdt,       \* the process's descriptor table
    watched,   \* read_fd_backup_set
    ready,     \* read_fd_set
    max_sfd,
    left,      \* sfd_ready_no
    i,         \* the descriptor the scan is at
    pc,        \* the next call
    chunk      \* buffer[0 .. rlen), once read() has filled it

scanVars == <<ready, left, i>>
setVars == <<watched, max_sfd>>
vars == <<st, sock, proc, fdt, watched, ready, max_sfd, left, i, pc, chunk>>

TypeOK ==
    /\ PeerTypeOK
    /\ proc \in {"up", "exit", "sigpipe"}
    /\ fdt \in [FDs -> Conns \cup {NoConn}]
    /\ watched \subseteq FDs \cup {ServerFd}
    /\ ready \subseteq FDs \cup {ServerFd}
    /\ max_sfd \in Int
    /\ left \in 0 .. Cardinality(ready)
    /\ i \in Nat
    /\ pc \in {"select", "scan", "accept", "read", "write", "close"}
    /\ chunk \in Seq(Bytes)

Init ==
    /\ PeerInit
    /\ proc = "up"
    /\ fdt = [f \in FDs |-> NoConn]
    /\ watched = {ServerFd}
    /\ ready = {}
    /\ max_sfd = ServerFd
    /\ left = 0
    /\ i = 0
    /\ pc = "select"
    /\ chunk = << >>

Peer(c) ==
    /\ proc = "up"
    /\ PeerStep(c)
    /\ UNCHANGED <<proc, fdt, setVars, scanVars, pc, chunk>>

-----------------------------------------------------------------------------

At(call) == proc = "up" /\ pc = call

OpenFds == {f \in FDs : fdt[f] # NoConn}

\* What select() reports in the read set.
Readable(f) ==
    IF f = ServerFd THEN Queued # {}
                    ELSE "IN" \in PollMask(sock[fdt[f]])

\* Mutant: select() is given the backup set itself (no memcpy at line 72).
SelectInPlace ==
    LET R == {f \in watched : f <= max_sfd /\ Readable(f)} IN
    /\ At("select") /\ R # {}
    /\ ready' = R
    /\ watched' = R
    /\ left' = Cardinality(R)
    /\ i' = 0
    /\ pc' = "scan"
    /\ UNCHANGED <<st, sock, proc, fdt, max_sfd, chunk>>

\* Mutant: the counter starts at the number of descriptors that were asked for.
SelectCountsWatched ==
    LET R == {f \in watched : f <= max_sfd /\ Readable(f)} IN
    /\ At("select") /\ R # {}
    /\ ready' = R
    /\ left' = Cardinality(watched)
    /\ i' = 0
    /\ pc' = "scan"
    /\ UNCHANGED <<st, sock, proc, fdt, setVars, chunk>>

Select ==
    LET R == {f \in watched : f <= max_sfd /\ Readable(f)} IN
    /\ At("select") /\ R # {}
    /\ ready' = R
    /\ left' = Cardinality(R)
    /\ i' = 0
    /\ pc' = "scan"
    /\ UNCHANGED <<st, sock, proc, fdt, setVars, chunk>>

\* The handler at line 152.
Exit ==
    /\ proc' = "exit"
    /\ UNCHANGED <<st, sock, fdt, setVars, scanVars, pc, chunk>>

\* EINTR
SelectFails == At("select") /\ Faults /\ Exit

\* The scan's condition (line 82): it goes no further than max_sfd is by now, and
\* only while sfd_ready_no is positive.
ScanAhead == {f \in ready : i <= f /\ f <= max_sfd}

ScanTo(f) ==
    /\ At("scan") /\ left > 0
    /\ f \in ScanAhead /\ \A g \in ScanAhead : f <= g
    /\ left' = left - 1
    /\ i' = f
    /\ pc' = IF f = ServerFd THEN "accept" ELSE "read"
    /\ UNCHANGED <<st, sock, proc, fdt, setVars, ready, chunk>>

ScanEnds ==
    /\ At("scan") /\ (left <= 0 \/ ScanAhead = {})
    /\ pc' = "select"
    /\ UNCHANGED <<st, sock, proc, fdt, setVars, scanVars, chunk>>

\* The body of the scan is done with descriptor i.
NextFd == pc' = "scan" /\ i' = i + 1

-----------------------------------------------------------------------------
(* The listening socket is readable: accept until EAGAIN.                   *)

FreeFds == {f \in FDs : fdt[f] = NoConn}

IsLowestFree(f) == f \in FreeFds /\ \A g \in FreeFds : f <= g

Larger(a, b) == IF a >= b THEN a ELSE b

\* Mutant: max_sfd is the last descriptor accepted.
AcceptTakesLast(f) ==
    /\ At("accept") /\ IsLowestFree(f)
    /\ \E c \in Queued :
        /\ st' = [st EXCEPT ![c] = "open"]
        /\ fdt' = [fdt EXCEPT ![f] = c]
    /\ watched' = watched \cup {f}
    /\ max_sfd' = f
    /\ UNCHANGED <<sock, proc, scanVars, pc, chunk>>

Accept(f) ==
    /\ At("accept") /\ IsLowestFree(f)
    /\ \E c \in Queued :
        /\ st' = [st EXCEPT ![c] = "open"]
        /\ fdt' = [fdt EXCEPT ![f] = c]
    /\ watched' = watched \cup {f}
    /\ max_sfd' = Larger(max_sfd, f)
    /\ UNCHANGED <<sock, proc, scanVars, pc, chunk>>

AcceptNone ==
    /\ At("accept") /\ Queued = {} /\ FreeFds # {}
    /\ NextFd
    /\ UNCHANGED <<st, sock, proc, fdt, setVars, ready, left, chunk>>

\* EMFILE, which Linux reports whether or not anybody is waiting, ends the server.
AcceptFails == At("accept") /\ FreeFds = {} /\ Exit

-----------------------------------------------------------------------------
(* A connection is readable: read and echo until EAGAIN, end or error.      *)

Sock == sock[fdt[i]]

ReadData ==
    /\ At("read") /\ ReadsData(Sock, BufSize)
    /\ chunk' = ReadBytes(Sock, BufSize)
    /\ sock' = [sock EXCEPT ![fdt[i]] = AfterRead(@, BufSize)]
    /\ pc' = "write"
    /\ UNCHANGED <<st, proc, fdt, setVars, scanVars>>

ReadAgain ==
    /\ At("read") /\ ReadsAgain(Sock, BufSize)
    /\ NextFd
    /\ UNCHANGED <<st, sock, proc, fdt, setVars, ready, left, chunk>>

ReadEof ==
    /\ At("read") /\ ReadsEof(Sock, BufSize)
    /\ pc' = "close"
    /\ UNCHANGED <<st, sock, proc, fdt, setVars, scanVars, chunk>>

\* Mutant: an error is taken for EAGAIN.
ReadErrorIgnored ==
    /\ At("read") /\ ReadsError(Sock, BufSize)
    /\ NextFd
    /\ UNCHANGED <<st, sock, proc, fdt, setVars, ready, left, chunk>>

ReadError ==
    /\ At("read") /\ ReadsError(Sock, BufSize)
    /\ sock' = [sock EXCEPT ![fdt[i]] = ClearError(@)]
    /\ pc' = "close"
    /\ UNCHANGED <<st, proc, fdt, setVars, scanVars, chunk>>

\* Mutant: the buffer is not left after a short write.
WriteKeepsChunk ==
    /\ At("write") /\ WritesData(Sock, Len(chunk))
    /\ sock' = [sock EXCEPT ![fdt[i]] = AfterWrite(@, chunk)]
    /\ pc' = IF WriteLen(Sock, Len(chunk)) < Len(chunk) THEN "write" ELSE "read"
    /\ UNCHANGED <<st, proc, fdt, setVars, scanVars, chunk>>

\* What a short write leaves of the buffer is dropped: the next read() is into
\* the same buffer.
WriteData ==
    /\ At("write") /\ WritesData(Sock, Len(chunk))
    /\ sock' = [sock EXCEPT ![fdt[i]] = AfterWrite(@, chunk)]
    /\ chunk' = << >>
    /\ pc' = "read"
    /\ UNCHANGED <<st, proc, fdt, setVars, scanVars>>

\* EAGAIN drops the whole of it, and leaves the loop.
WriteAgain ==
    /\ At("write") /\ WritesNothing(Sock, Len(chunk))
    /\ chunk' = << >>
    /\ NextFd
    /\ UNCHANGED <<st, sock, proc, fdt, setVars, ready, left>>

WriteError ==
    /\ At("write") /\ WritesError(Sock)
    /\ sock' = [sock EXCEPT ![fdt[i]] = ClearError(@)]
    /\ chunk' = << >>
    /\ pc' = "close"
    /\ UNCHANGED <<st, proc, fdt, setVars, scanVars>>

WriteSigpipe ==
    /\ At("write") /\ WritesSigpipe(Sock)
    /\ proc' = "sigpipe"
    /\ UNCHANGED <<st, sock, fdt, setVars, scanVars, pc, chunk>>

\* connection_is_closed: close, leave the set, and look for the new max_sfd, down
\* to -1 when the set is empty.
Close ==
    /\ At("close")
    /\ st' = [st EXCEPT ![fdt[i]] = "closed"]
    /\ fdt' = [fdt EXCEPT ![i] = NoConn]
    /\ watched' = watched \ {i}
    /\ IF i = max_sfd
       THEN \E m \in {-1} \cup watched' :
                /\ m < i
                /\ \A f \in watched' : f < i => f <= m
                /\ max_sfd' = m
       ELSE UNCHANGED max_sfd
    /\ NextFd
    /\ UNCHANGED <<sock, proc, ready, left, chunk>>

-----------------------------------------------------------------------------

ServerStep ==
    \/ Select
    \/ \E f \in FDs \cup {ServerFd} : ScanTo(f)
    \/ ScanEnds
    \/ \E f \in FDs : Accept(f)
    \/ AcceptNone \/ AcceptFails
    \/ ReadData \/ ReadAgain \/ ReadEof \/ ReadError
    \/ WriteData \/ WriteAgain \/ WriteError \/ WriteSigpipe
    \/ Close

Next ==
    \/ \E c \in Conns : Peer(c)
    \/ ServerStep
    \/ SelectFails

Spec == Init /\ [][Next]_vars

\* The process is scheduled.  Nothing is assumed of the peers.
FairSpec == Spec /\ WF_vars(ServerStep)

-----------------------------------------------------------------------------
(* Properties.                                                              *)

\* The set given to select() is that of the open descriptors: no connection is
\* forgotten, and no closed descriptor makes select() fail with EBADF.
WatchesOpenFds == watched = {ServerFd} \cup OpenFds

\* max_sfd + 1, the first argument of select() and the end of the scan, covers
\* all of the set, and the search at line 144 ends at a member of it.
HighestWatched == max_sfd \in watched /\ \A f \in watched : f <= max_sfd

Unhandled == {f \in ready : IF pc = "scan" THEN i <= f ELSE i < f}

\* sfd_ready_no ends the scan when, and not before, every descriptor that was
\* reported has been handled, though max_sfd moves both ways during the scan; and
\* each of them is still open and readable when its turn comes.
ScanCoversReady ==
    pc # "select" /\ proc = "up" =>
        /\ left = Cardinality(Unhandled)
        /\ \A f \in Unhandled : f <= max_sfd /\ f \in watched /\ Readable(f)

\* A connection nobody has closed when the process ends is lost with it.
Service == INSTANCE EchoService WITH
    phase <- [c \in Conns |->
                IF proc # "up" /\ st[c] \in {"queued", "open"} THEN "lost" ELSE st[c]],
    sent  <- [c \in Conns |-> sock[c].sent],
    ended <- [c \in Conns |-> sock[c].fin \/ sock[c].rst],
    echo  <- [c \in Conns |-> sock[c].out],
    Lossy <- TRUE

\* "Echo the data back to the client" (line 127): the n-th byte a client gets back is
\* the n-th it sent.  The code does not keep this: see WriteData and WriteAgain.
EchoIsExact ==
    \A c \in Conns : \A n \in DOMAIN sock[c].out : sock[c].out[n] = <<c, n>>

\* What is left of the echo where bytes are dropped: those that do come back go to
\* the connection they came from, in their order and never twice, and only
\* connections their peers have ended are closed, whatever descriptor numbers are
\* recycled during a scan.
EchoesInOrder == Service!Spec

\* No peer sends for ever.
PeersPause == <>[][\A c \in Conns : sock'[c].sent = sock[c].sent]_vars

\* No connection is forgotten behind others: provided that no peer sends for ever,
\* all that are queued are accepted, what a peer has sent is read, and a connection
\* that its peer has ended is closed.  Without the premise the code promises nothing:
\* it stays with one connection until read() returns EAGAIN (lines 108-136).
NobodyForgotten ==
    PeersPause =>
    \A c \in Conns :
        /\ (st[c] = "queued") ~> (st[c] # "queued" \/ proc # "up")
        /\ (sock[c].rq # << >> /\ st[c] = "open") ~>
               (sock[c].rq = << >> \/ st[c] = "closed" \/ proc # "up")
        /\ ((sock[c].fin \/ sock[c].rst) /\ st[c] = "open") ~>
               (st[c] = "closed" \/ proc # "up")

=============================================================================
