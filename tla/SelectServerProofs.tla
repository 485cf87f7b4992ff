------------------------- MODULE SelectServerProofs -------------------------
(***************************************************************************)
(* Proofs about SelectServer, for any number of connections and descriptors:  *)
(* the set and the maximum that the code keeps by hand are those of the open  *)
(* descriptors, the count that ends a scan is exact, and the server is an     *)
(* echo service that may leave bytes out.                                   *)
(***************************************************************************)
EXTENDS SelectServer, TcpSocketProofs, FiniteSetTheorems

\* A descriptor is that of an open connection, and the only one.
FdInv ==
    /\ \A f \in FDs : fdt[f] # NoConn => st[fdt[f]] = "open"
    /\ \A f, g \in FDs : fdt[f] = fdt[g] /\ fdt[f] # NoConn => f = g

\* Where in the loops the server is says what descriptor i is.
PosInv ==
    /\ pc = "accept" => i = ServerFd
    /\ pc \in {"read", "write", "close"} => i \in OpenFds
    /\ pc = "close" => Ended(Sock)
    /\ pc = "write" <=> chunk # << >>

\* An error is pending only after a RST.
ErrInv == \A c \in Conns : sock[c].err # "none" => sock[c].rst

ScanInv == TypeOK /\ IsFiniteSet(ready) /\ FdInv /\ PosInv /\ ErrInv
               /\ WatchesOpenFds /\ HighestWatched /\ ScanCoversReady

-----------------------------------------------------------------------------
(* Peers and sockets.                                                       *)

\* select() reports a connection when there is something to read, or an end.
LEMMA InMask ==
    ASSUME NEW s \in Sockets
    PROVE  "IN" \in PollMask(s) <=> s.rq # << >> \/ Ended(s)
BY DEF PollMask, Ended

\* What was readable stays readable whatever the peer does.
Goes(s, t) ==
    /\ t \in Sockets
    /\ (s.err # "none" => s.rst) => (t.err # "none" => t.rst)
    /\ Ended(s) => Ended(t)
    /\ "IN" \in PollMask(s) => "IN" \in PollMask(t)

LEMMA SocketGoes ==
    ASSUME NEW s \in Sockets, NEW c \in Conns
    PROVE  Goes(s, s) /\ Goes(s, RecvByte(s, c)) /\ Goes(s, RecvFin(s))
               /\ Goes(s, RecvRst(s)) /\ Goes(s, PeerConsume(s))
<1>1. /\ RecvByte(s, c) \in Sockets /\ RecvFin(s) \in Sockets
      /\ RecvRst(s) \in Sockets /\ PeerConsume(s) \in Sockets
  BY PeerTypes
<1>2. RecvByte(s, c).rq # << >>
  <2>1. RecvByte(s, c).rq = Append(s.rq, <<c, s.sent + 1>>) /\ s.rq \in Seq(Bytes)
    BY DEF RecvByte, Sockets
  <2>2. <<c, s.sent + 1>> \in Bytes
    BY DEF Sockets, Bytes
  <2>3. /\ Len(s.rq) \in Nat /\ Len(<< >>) = 0
        /\ Len(Append(s.rq, <<c, s.sent + 1>>)) = Len(s.rq) + 1
    BY <2>1, <2>2, AppendProperties, EmptySeq
  <2> QED  BY <2>1, <2>3
<1>3. Goes(s, RecvByte(s, c))
  BY <1>1, <1>2, InMask, EndedForGood DEF Goes, RecvByte, Sockets
<1>4. Goes(s, RecvFin(s))
  BY <1>1, InMask, EndedForGood DEF Goes, RecvFin, Sockets, Ended
<1>5. Goes(s, RecvRst(s))
  BY <1>1, InMask, EndedForGood DEF Goes, RecvRst, Sockets, Ended
<1>6. Goes(s, PeerConsume(s))
  BY <1>1, InMask, EndedForGood DEF Goes, PeerConsume, Sockets
<1> QED  BY <1>3, <1>4, <1>5, <1>6 DEF Goes

LEMMA PeerGoes ==
    ASSUME PeerTypeOK, NEW c \in Conns, PeerStep(c)
    PROVE  /\ PeerTypeOK'
           /\ \A d \in Conns : Goes(sock[d], sock'[d])
           /\ \A d \in Conns : st'[d] # st[d] => st[d] = "idle" /\ st'[d] = "queued"
<1> USE DEF PeerTypeOK
<1>0. \A d \in Conns : Goes(sock[d], sock[d])
  BY SocketGoes
<1>1. CASE Connect(c)
  BY <1>0, <1>1 DEF Connect
<1>2. ASSUME NEW s \in {RecvByte(sock[c], c), PeerConsume(sock[c]), RecvFin(sock[c]), RecvRst(sock[c])},
             sock' = [sock EXCEPT ![c] = s], st' = st
      PROVE  /\ PeerTypeOK'
             /\ \A d \in Conns : Goes(sock[d], sock'[d])
  <2>1. Goes(sock[c], s) /\ s \in Sockets
    BY <1>2, SocketGoes, PeerTypes
  <2> QED  BY <1>0, <1>2, <2>1
<1>3. CASE PeerSend(c) \/ PeerRead(c) \/ PeerFin(c) \/ PeerReset(c)
  BY <1>2, <1>3 DEF PeerSend, PeerRead, PeerFin, PeerReset
<1> QED  BY <1>1, <1>3 DEF PeerStep

-----------------------------------------------------------------------------
(* The invariant of the scan over the steps.                                *)

LEMMA ScanInit == Init => ScanInv
<1> SUFFICES ASSUME Init PROVE ScanInv
  OBVIOUS
<1> USE SelectAssumption DEF Init, PeerInit
<1>1. TypeOK
  <2>1. FreshSocket \in Sockets
    BY EmptySeq DEF FreshSocket, Sockets, SockErrors
  <2>2. Cardinality({}) = 0
    BY FS_EmptySet
  <2> QED  BY <2>1, <2>2, EmptySeq DEF TypeOK, PeerTypeOK
<1>2. IsFiniteSet(ready)
  BY FS_EmptySet
<1>3. FdInv /\ PosInv /\ ErrInv /\ WatchesOpenFds
  BY DEF FdInv, PosInv, ErrInv, WatchesOpenFds, OpenFds, FreshSocket
<1>4. HighestWatched /\ ScanCoversReady
  BY DEF HighestWatched, ScanCoversReady
<1> QED  BY <1>1, <1>2, <1>3, <1>4 DEF ScanInv

\* A step that does not touch descriptors and sets.
LEMMA PeerScan ==
    ASSUME ScanInv, NEW c \in Conns, Peer(c)
    PROVE  ScanInv'
<1> USE DEF ScanInv
<1>0. /\ PeerTypeOK'
      /\ \A d \in Conns : Goes(sock[d], sock'[d])
      /\ \A d \in Conns : st'[d] # st[d] => st[d] = "idle" /\ st'[d] = "queued"
      /\ UNCHANGED <<proc, fdt, watched, max_sfd, ready, left, i, pc, chunk>>
  BY PeerGoes DEF Peer, TypeOK, scanVars, setVars
<1>1. TypeOK' /\ IsFiniteSet(ready)'
  BY <1>0 DEF TypeOK
<1>2. \A f \in FDs : fdt[f] # NoConn => fdt[f] \in Conns
  BY DEF TypeOK
<1>3. FdInv'
  BY <1>0, <1>2 DEF FdInv
<1>4. PosInv'
  <2>1. OpenFds' = OpenFds
    BY <1>0 DEF OpenFds
  <2>2. pc = "close" => Ended(Sock)'
    BY <1>0, <1>2 DEF PosInv, OpenFds, Goes, Sock
  <2> QED  BY <1>0, <2>1, <2>2 DEF PosInv
<1>5. ErrInv'
  BY <1>0 DEF ErrInv, Goes
<1>6. WatchesOpenFds' /\ HighestWatched'
  BY <1>0 DEF WatchesOpenFds, HighestWatched, OpenFds
<1>7. ScanCoversReady'
  <2>1. Unhandled' = Unhandled
    BY <1>0 DEF Unhandled
  <2>2. \A f \in watched : Readable(f) => Readable(f)'
    <3>1. Queued \subseteq Queued'
      BY <1>0 DEF Queued
    <3>2. \A f \in FDs : fdt[f] # NoConn =>
             ("IN" \in PollMask(sock[fdt[f]]) => "IN" \in PollMask(sock'[fdt[f]]))
      BY <1>0, <1>2 DEF Goes
    <3> QED  BY <1>0, <3>1, <3>2 DEF Readable, WatchesOpenFds, OpenFds
  <2> QED  BY <1>0, <2>1, <2>2 DEF ScanCoversReady
<1> QED  BY <1>1, <1>3, <1>4, <1>5, <1>6, <1>7

\* While the handler of descriptor i goes on, or when it is done with it, the rest
\* of the scan is the same.
LEMMA RestOfScan ==
    ASSUME ScanInv, pc \in {"accept", "read", "write", "close"}, ready' = ready,
           \/ i' = i /\ pc' # "scan"
           \/ i' = i + 1 /\ pc' = "scan"
    PROVE  Unhandled' = Unhandled /\ i' \in Nat
<1>1. i \in Nat /\ \A f \in ready : f \in Nat
  BY SelectAssumption DEF ScanInv, TypeOK
<1>2. \A f \in ready : i < f <=> i + 1 <= f
  BY <1>1
<1> QED  BY <1>1, <1>2 DEF Unhandled

\* The echo loop of descriptor i, up to its next call, changes no other socket.
LEMMA HandlerScan ==
    ASSUME ScanInv, NEW s \in Sockets, pc \in {"read", "write"},
           s.err # "none" => s.rst, Ended(Sock) => Ended(s),
           sock' = [sock EXCEPT ![fdt[i]] = s], chunk' \in Seq(Bytes),
           UNCHANGED <<st, proc, fdt, watched, max_sfd, ready, left>>,
           \/ i' = i /\ pc' \in {"read", "write", "close"}
           \/ i' = i + 1 /\ pc' = "scan",
           pc' = "write" <=> chunk' # << >>,
           pc' = "close" => Ended(s)
    PROVE  ScanInv'
<1> USE DEF ScanInv
<1>1. /\ i \in FDs /\ fdt[i] \in Conns /\ i # ServerFd /\ sock[fdt[i]] \in Sockets
      /\ s \in Sockets
      /\ sock \in [Conns -> Sockets] /\ fdt \in [FDs -> Conns \cup {NoConn}]
      /\ sock' \in [Conns -> Sockets] /\ sock'[fdt[i]] = s
      /\ \A d \in Conns : d # fdt[i] => sock'[d] = sock[d]
  BY SelectAssumption DEF TypeOK, PeerTypeOK, PosInv, OpenFds, Goes
<1>2. Unhandled' = Unhandled /\ i' \in Nat
  <2>1. pc \in {"accept", "read", "write", "close"}
    OBVIOUS
  <2>2. \/ i' = i /\ pc' # "scan"
        \/ i' = i + 1 /\ pc' = "scan"
    OBVIOUS
  <2> QED  BY <2>1, <2>2, RestOfScan
<1>3. TypeOK'
  BY <1>1, <1>2 DEF TypeOK, PeerTypeOK
<1>4. FdInv' /\ ErrInv'
  BY <1>1 DEF FdInv, ErrInv, Goes, Sock
<1>5. PosInv'
  <2>1. OpenFds' = OpenFds
    BY DEF OpenFds
  <2> QED  BY <1>1, <2>1 DEF PosInv, Sock
<1>6. WatchesOpenFds' /\ HighestWatched'
  BY DEF WatchesOpenFds, HighestWatched, OpenFds
<1>7. ScanCoversReady'
  <2>1. \A f \in Unhandled : i < f /\ f # i
    BY <1>1, SelectAssumption DEF Unhandled, TypeOK
  <2>2. \A f \in Unhandled : f \in watched /\ Readable(f) => Readable(f)'
    <3>1. Queued' = Queued
      BY DEF Queued
    <3>2. \A f \in FDs : f # i /\ fdt[f] # NoConn => sock'[fdt[f]] = sock[fdt[f]]
      BY <1>1 DEF FdInv
    <3> QED  BY <2>1, <3>1, <3>2 DEF Readable, WatchesOpenFds, OpenFds
  <2> QED  BY <1>2, <2>2 DEF ScanCoversReady
<1> QED  BY <1>3, <1>4, <1>5, <1>6, <1>7

\* The calls of the echo loop.
LEMMA EchoScan ==
    ASSUME ScanInv,
           \/ ReadData \/ ReadAgain \/ ReadEof \/ ReadError
           \/ WriteData \/ WriteAgain \/ WriteError
    PROVE  ScanInv'
<1> USE DEF scanVars, setVars, At
<1>1. /\ Sock \in Sockets /\ fdt[i] \in Conns
      /\ sock = [sock EXCEPT ![fdt[i]] = Sock]
      /\ Sock.err # "none" => Sock.rst
      /\ chunk \in Seq(Bytes) /\ << >> \in Seq(Bytes)
      /\ pc = "write" <=> chunk # << >>
      /\ BufSize \in Nat \ {0}
      /\ Goes(Sock, Sock)
  <2>1. pc \in {"read", "write"}
    BY DEF ReadData, ReadAgain, ReadEof, ReadError, WriteData, WriteAgain, WriteError
  <2>2. fdt[i] \in Conns /\ sock \in [Conns -> Sockets] /\ chunk \in Seq(Bytes)
    BY <2>1 DEF ScanInv, TypeOK, PeerTypeOK, PosInv, OpenFds
  <2> QED  BY <2>2, SelectAssumption, SocketGoes, EmptySeq DEF ScanInv, PosInv, ErrInv, Sock
<1>2. CASE ReadData
  <2>1. /\ AfterRead(Sock, BufSize) \in Sockets /\ ReadBytes(Sock, BufSize) \in Seq(Bytes)
        /\ ReadBytes(Sock, BufSize) # << >>
    BY <1>1, <1>2, ReadTypes, ReadSome DEF ReadData
  <2>2. /\ AfterRead(Sock, BufSize).err # "none" => AfterRead(Sock, BufSize).rst
        /\ Ended(Sock) => Ended(AfterRead(Sock, BufSize))
    BY <1>1 DEF AfterRead, Sockets, Ended
  <2>3. /\ pc = "read" /\ pc' = "write" /\ i' = i /\ chunk' = ReadBytes(Sock, BufSize)
        /\ sock' = [sock EXCEPT ![fdt[i]] = AfterRead(Sock, BufSize)]
        /\ UNCHANGED <<st, proc, fdt, watched, max_sfd, ready, left>>
    BY <1>2 DEF ReadData, Sock
  <2> QED  BY <2>1, <2>2, <2>3, HandlerScan
<1>3. CASE ReadAgain
  BY <1>1, <1>3, HandlerScan DEF ReadAgain, NextFd
<1>4. CASE ReadEof
  <2>1. Ended(Sock)
    BY <1>1, <1>4 DEF ReadEof, ReadsEof, Ended
  <2> QED  BY <1>1, <1>4, <2>1, HandlerScan DEF ReadEof
<1>5. /\ ClearError(Sock) \in Sockets /\ ClearError(Sock).err = "none"
      /\ Ended(Sock) => Ended(ClearError(Sock))
  BY <1>1, PeerTypes, EndedForGood DEF ClearError, Sockets
<1>6. CASE ReadError \/ WriteError
  <2>1. Ended(Sock)
    BY <1>1, <1>6 DEF ReadError, ReadsError, WriteError, WritesError, Ended
  <2>2. /\ pc \in {"read", "write"} /\ pc' = "close" /\ i' = i /\ chunk' = << >>
        /\ sock' = [sock EXCEPT ![fdt[i]] = ClearError(Sock)]
        /\ UNCHANGED <<st, proc, fdt, watched, max_sfd, ready, left>>
    BY <1>1, <1>6 DEF ReadError, WriteError, Sock
  <2> QED  BY <1>1, <1>5, <2>1, <2>2, HandlerScan
<1>7. CASE WriteData
  <2>1. SendRoom(Sock) > 0
    BY <1>7 DEF WriteData, WritesData
  <2>2. AfterWrite(Sock, chunk) \in Sockets
    BY <1>1, <2>1, WriteTypes
  <2>3. /\ AfterWrite(Sock, chunk).err # "none" => AfterWrite(Sock, chunk).rst
        /\ Ended(Sock) => Ended(AfterWrite(Sock, chunk))
    BY <1>1 DEF AfterWrite, Sockets, Ended
  <2>4. /\ pc = "write" /\ pc' = "read" /\ i' = i /\ chunk' = << >>
        /\ sock' = [sock EXCEPT ![fdt[i]] = AfterWrite(Sock, chunk)]
        /\ UNCHANGED <<st, proc, fdt, watched, max_sfd, ready, left>>
    BY <1>7 DEF WriteData, Sock
  <2> QED  BY <1>1, <2>2, <2>3, <2>4, HandlerScan
<1>8. CASE WriteAgain
  BY <1>1, <1>8, HandlerScan DEF WriteAgain, NextFd
<1> QED  BY <1>2, <1>3, <1>4, <1>6, <1>7, <1>8

\* select() fills the set and the counter.
LEMMA SelectScan ==
    ASSUME ScanInv, Select
    PROVE  ScanInv'
<1> USE DEF ScanInv
<1> DEFINE R == {f \in watched : f <= max_sfd /\ Readable(f)}
<1>1. /\ ready' = R /\ left' = Cardinality(R) /\ i' = 0 /\ pc' = "scan"
      /\ pc = "select"
      /\ UNCHANGED <<st, sock, proc, fdt, watched, max_sfd, chunk>>
  BY DEF Select, At, setVars
<1>2. watched \subseteq Nat /\ max_sfd \in Nat
  BY SelectAssumption DEF TypeOK, HighestWatched
<1>3. IsFiniteSet(watched)
  BY <1>2, FS_BoundedSetOfNaturals DEF HighestWatched
<1>4. IsFiniteSet(R) /\ Cardinality(R) \in Nat
  BY <1>3, FS_Subset, FS_CardinalityType
<1> HIDE DEF R
<1>5. R \subseteq watched /\ \A f \in R : f <= max_sfd /\ Readable(f)
  BY DEF R
<1>6. TypeOK' /\ IsFiniteSet(ready)'
  BY <1>1, <1>4, <1>5 DEF TypeOK, PeerTypeOK
<1>7. Unhandled' = R
  <2>1. Unhandled' = {f \in R : 0 <= f}
    BY <1>1 DEF Unhandled
  <2>2. \A f \in R : 0 <= f
    BY <1>2, <1>5
  <2> QED  BY <2>1, <2>2
<1>8. ScanCoversReady'
  <2>1. \A f : Readable(f)' <=> Readable(f)
    BY <1>1 DEF Readable, Queued
  <2> QED  BY <1>1, <1>5, <1>7, <2>1 DEF ScanCoversReady
<1>9. FdInv' /\ PosInv' /\ ErrInv' /\ WatchesOpenFds' /\ HighestWatched'
  BY <1>1 DEF FdInv, PosInv, ErrInv, WatchesOpenFds, HighestWatched, OpenFds
<1> QED  BY <1>6, <1>8, <1>9

\* The scan goes on to the next descriptor of the set.
LEMMA NextScan ==
    ASSUME ScanInv, NEW f \in FDs \cup {ServerFd}, ScanTo(f)
    PROVE  ScanInv'
<1> USE DEF ScanInv
<1>1. /\ proc = "up" /\ pc = "scan" /\ left > 0 /\ f \in ScanAhead /\ \A g \in ScanAhead : f <= g
      /\ left' = left - 1 /\ i' = f /\ pc' = (IF f = ServerFd THEN "accept" ELSE "read")
      /\ UNCHANGED <<st, sock, proc, fdt, watched, max_sfd, ready, chunk>>
  BY DEF ScanTo, At, setVars
<1>2. ready \subseteq Nat /\ i \in Nat /\ f \in Nat /\ left \in Nat
  BY <1>1, SelectAssumption DEF TypeOK
<1>3. /\ Unhandled = {g \in ready : i <= g}
      /\ \A g \in Unhandled : g <= max_sfd /\ g \in watched /\ Readable(g)
      /\ left = Cardinality(Unhandled)
  BY <1>1 DEF Unhandled, ScanCoversReady
<1>4. ScanAhead = Unhandled
  BY <1>3 DEF ScanAhead
<1>5. Unhandled' = Unhandled \ {f} /\ f \in Unhandled
  <2>1. Unhandled' = {g \in ready : f < g}
    BY <1>1 DEF Unhandled
  <2>2. \A g \in ready : f < g <=> i <= g /\ g # f
    BY <1>1, <1>2, <1>3, <1>4
  <2> QED  BY <1>1, <1>3, <1>4, <2>1, <2>2
<1>6. left' = Cardinality(Unhandled')
  <2>1. IsFiniteSet(Unhandled)
    BY <1>3, FS_Subset
  <2> QED  BY <1>1, <1>3, <1>5, <2>1, FS_RemoveElement
<1>7. ScanCoversReady'
  <2>1. \A g : Readable(g)' <=> Readable(g)
    BY <1>1 DEF Readable, Queued
  <2> QED  BY <1>1, <1>3, <1>5, <1>6, <2>1 DEF ScanCoversReady
<1>8. TypeOK' /\ IsFiniteSet(ready)'
  <2>1. Cardinality(ready) \in Nat
    BY FS_CardinalityType
  <2> QED  BY <1>1, <1>2, <2>1 DEF TypeOK, PeerTypeOK
<1>9. PosInv'
  <2>1. f # ServerFd => f \in OpenFds
    BY <1>3, <1>5 DEF WatchesOpenFds
  <2> QED  BY <1>1, <2>1 DEF PosInv, OpenFds
<1>10. FdInv' /\ ErrInv' /\ WatchesOpenFds' /\ HighestWatched'
  BY <1>1 DEF FdInv, ErrInv, WatchesOpenFds, HighestWatched, OpenFds
<1> QED  BY <1>7, <1>8, <1>9, <1>10

\* accept() gives the lowest free number to a connection, and the set and its
\* maximum follow.
LEMMA AcceptScan ==
    ASSUME ScanInv, NEW f \in FDs, Accept(f)
    PROVE  ScanInv'
<1> USE DEF ScanInv
<1>1. PICK c \in Queued : st' = [st EXCEPT ![c] = "open"] /\ fdt' = [fdt EXCEPT ![f] = c]
  BY DEF Accept
<1>2. /\ proc = "up" /\ pc = "accept" /\ fdt[f] = NoConn
      /\ watched' = watched \cup {f} /\ max_sfd' = Larger(max_sfd, f)
      /\ UNCHANGED <<sock, proc, ready, left, i, pc, chunk>>
  BY DEF Accept, At, IsLowestFree, FreeFds, scanVars
<1>3. /\ c \in Conns /\ st[c] = "queued" /\ c # NoConn /\ f \in Nat /\ ServerFd \in Nat
      /\ st \in [Conns -> {"idle", "queued", "open", "closed"}]
      /\ fdt \in [FDs -> Conns \cup {NoConn}]
      /\ watched \subseteq Nat
  BY SelectAssumption DEF Queued, TypeOK, PeerTypeOK
<1>4. /\ fdt'[f] = c /\ \A g \in FDs : g # f => fdt'[g] = fdt[g]
      /\ st'[c] = "open" /\ \A d \in Conns : d # c => st'[d] = st[d]
  BY <1>1, <1>3
<1>5. \A g \in FDs : fdt[g] # c
  BY <1>3 DEF FdInv
<1>6. TypeOK'
  <2>1. max_sfd' \in Int
    BY <1>2, <1>3 DEF Larger, TypeOK
  <2> QED  BY <1>1, <1>2, <1>3, <2>1 DEF TypeOK, PeerTypeOK
<1>7. FdInv'
  BY <1>3, <1>4, <1>5 DEF FdInv
<1>8. OpenFds' = OpenFds \cup {f}
  BY <1>3, <1>4 DEF OpenFds
<1>9. PosInv' /\ ErrInv' /\ IsFiniteSet(ready)'
  BY <1>2 DEF PosInv, ErrInv
<1>10. WatchesOpenFds'
  BY <1>2, <1>8 DEF WatchesOpenFds
<1>11. HighestWatched' /\ max_sfd <= max_sfd'
  BY <1>2, <1>3 DEF HighestWatched, Larger
<1>12. ScanCoversReady'
  <2>1. Unhandled' = Unhandled
    BY <1>2 DEF Unhandled
  <2>2. ready \subseteq FDs \cup {ServerFd} /\ watched' \subseteq Nat /\ max_sfd \in Nat /\ max_sfd' \in Nat
    BY <1>2, <1>3, <1>11 DEF TypeOK, HighestWatched, Larger
  <2>3. \A g \in Unhandled : g \in ready /\ g # ServerFd
    BY <1>2, <1>3 DEF Unhandled, PosInv
  <2>4. \A g \in Unhandled : g \in watched /\ g <= max_sfd /\ Readable(g)
    BY <1>2 DEF ScanCoversReady
  <2>5. \A g \in Unhandled : g \in FDs /\ g # f
    BY <1>2, <2>2, <2>3, <2>4 DEF WatchesOpenFds, OpenFds
  <2>6. \A g \in Unhandled : Readable(g)'
    BY <1>2, <1>4, <2>3, <2>4, <2>5 DEF Readable
  <2>7. \A g \in Unhandled : g <= max_sfd'
    <3>1. \A g \in Unhandled : g \in Nat
      BY <2>5, SelectAssumption
    <3> QED  BY <1>11, <2>2, <2>4, <3>1
  <2> QED  BY <1>2, <2>1, <2>4, <2>6, <2>7 DEF ScanCoversReady
<1> QED  BY <1>6, <1>7, <1>9, <1>10, <1>11, <1>12

\* close() takes descriptor i out of the set; the new maximum is found by going
\* down from the old one.
LEMMA CloseScan ==
    ASSUME ScanInv, Close
    PROVE  ScanInv'
<1> USE DEF ScanInv
<1>1. /\ proc = "up" /\ pc = "close" /\ pc' = "scan" /\ i' = i + 1
      /\ st' = [st EXCEPT ![fdt[i]] = "closed"] /\ fdt' = [fdt EXCEPT ![i] = NoConn]
      /\ watched' = watched \ {i}
      /\ UNCHANGED <<sock, proc, ready, left, chunk>>
  BY DEF Close, At, NextFd
<1>2. /\ i \in FDs /\ fdt[i] \in Conns /\ i # ServerFd /\ i \in Nat /\ ServerFd \in Nat
      /\ st \in [Conns -> {"idle", "queued", "open", "closed"}]
      /\ fdt \in [FDs -> Conns \cup {NoConn}]
      /\ watched \subseteq Nat
  BY <1>1, SelectAssumption DEF PosInv, OpenFds, TypeOK, PeerTypeOK
<1>3. /\ fdt'[i] = NoConn /\ \A g \in FDs : g # i => fdt'[g] = fdt[g]
      /\ \A d \in Conns : d # fdt[i] => st'[d] = st[d]
  BY <1>1, <1>2
<1>4. OpenFds' = OpenFds \ {i}
  BY <1>2, <1>3 DEF OpenFds
<1>5. WatchesOpenFds'
  BY <1>1, <1>2, <1>4 DEF WatchesOpenFds
<1>6. HighestWatched' /\ max_sfd' \in Int /\ (i # max_sfd => max_sfd' = max_sfd)
  <2>1. CASE i = max_sfd
    <3>1. PICK m \in {-1} \cup watched' :
              m < i /\ (\A f \in watched' : f < i => f <= m) /\ max_sfd' = m
      BY <2>1 DEF Close
    <3>2. \A f \in watched' : f \in Nat /\ f < i
      BY <1>1, <1>2, <2>1 DEF HighestWatched
    <3>3. ServerFd \in watched'
      BY <1>5 DEF WatchesOpenFds
    <3>4. m \in watched'
      BY <1>2, <3>1, <3>2, <3>3
    <3>5. m \in Int
      BY <3>2, <3>4
    <3> QED  BY <2>1, <3>1, <3>2, <3>4, <3>5 DEF HighestWatched
  <2>2. CASE i # max_sfd
    BY <1>1, <2>2 DEF Close, HighestWatched, TypeOK
  <2> QED  BY <2>1, <2>2
<1>7. Unhandled' = Unhandled /\ i' \in Nat
  <2>1. i' = i + 1 /\ pc' = "scan" /\ pc \in {"accept", "read", "write", "close"} /\ ready' = ready
    BY <1>1
  <2> QED  BY <2>1, RestOfScan
<1>8. TypeOK' /\ IsFiniteSet(ready)'
  BY <1>1, <1>2, <1>6, <1>7 DEF TypeOK, PeerTypeOK
<1>9. FdInv' /\ ErrInv'
  BY <1>1, <1>2, <1>3 DEF FdInv, ErrInv
<1>10. PosInv'
  BY <1>1 DEF PosInv
<1>11. ScanCoversReady'
  <2>1. \A g \in Unhandled : i < g /\ g # i /\ g \in watched /\ g <= max_sfd /\ Readable(g)
    BY <1>1, <1>2, SelectAssumption DEF Unhandled, ScanCoversReady, TypeOK
  <2>2. \A g \in Unhandled : max_sfd' = max_sfd
    <3>1. max_sfd \in Int /\ \A g \in Unhandled : g \in Nat
      BY <1>2, <2>1 DEF TypeOK
    <3> QED  BY <1>2, <1>6, <2>1, <3>1
  <2>3. \A g \in Unhandled : Readable(g)'
    <3>1. Queued \subseteq Queued'
      BY <1>2, <1>3, SelectAssumption DEF Queued, FdInv
    <3> QED  BY <1>1, <1>3, <2>1, <3>1 DEF Readable, WatchesOpenFds, OpenFds
  <2> QED  BY <1>1, <1>7, <2>1, <2>2, <2>3 DEF ScanCoversReady
<1> QED  BY <1>5, <1>6, <1>8, <1>9, <1>10, <1>11

LEMMA ScanStep == ScanInv /\ [Next]_vars => ScanInv'
<1> SUFFICES ASSUME ScanInv, [Next]_vars PROVE ScanInv'
  OBVIOUS
<1> USE DEF ScanInv
\* Only the position in the scan, or the life of the process, changes.
<1>1. ASSUME UNCHANGED <<st, sock, fdt, watched, max_sfd, ready, chunk>>,
             \/ UNCHANGED <<left, i, pc>> /\ proc' \in {proc, "exit", "sigpipe"}
             \/ UNCHANGED <<left, i, proc>> /\ pc = "scan" /\ pc' = "select"
             \/ UNCHANGED <<left, proc>> /\ pc = "accept" /\ pc' = "scan" /\ i' = i + 1
      PROVE  ScanInv'
  <2>1. FdInv' /\ PosInv' /\ ErrInv' /\ WatchesOpenFds' /\ HighestWatched' /\ IsFiniteSet(ready)'
    BY <1>1 DEF FdInv, PosInv, ErrInv, WatchesOpenFds, HighestWatched, OpenFds, Sock
  <2>2. TypeOK'
    BY <1>1 DEF TypeOK, PeerTypeOK
  <2>3. \A f : Readable(f)' <=> Readable(f)
    BY <1>1 DEF Readable, Queued
  <2>4. ASSUME UNCHANGED <<left, i, pc, ready>>, proc' = "up" => proc = "up"
        PROVE  ScanCoversReady'
    <3>1. Unhandled' = Unhandled
      BY <2>4 DEF Unhandled
    <3> QED  BY <1>1, <2>3, <2>4, <3>1 DEF ScanCoversReady
  <2>5. ASSUME pc' = "select"
        PROVE  ScanCoversReady'
    BY <2>5 DEF ScanCoversReady
  <2>6. ASSUME UNCHANGED <<left, proc>>, pc = "accept", pc' = "scan", i' = i + 1
        PROVE  ScanCoversReady'
    <3>1. Unhandled' = Unhandled
      BY <1>1, <2>6, RestOfScan
    <3> QED  BY <1>1, <2>3, <2>6, <3>1 DEF ScanCoversReady
  <2> QED  BY <1>1, <2>1, <2>2, <2>4, <2>5, <2>6
<1>2. CASE SelectFails \/ AcceptFails
  BY <1>1, <1>2 DEF SelectFails, AcceptFails, Exit, At, scanVars, setVars
<1>3. CASE WriteSigpipe
  BY <1>1, <1>3 DEF WriteSigpipe, scanVars, setVars
<1>4. CASE ScanEnds
  BY <1>1, <1>4 DEF ScanEnds, At, scanVars, setVars
<1>5. CASE AcceptNone
  BY <1>1, <1>5 DEF AcceptNone, NextFd, At, setVars
<1>6. CASE UNCHANGED vars
  BY <1>1, <1>6 DEF vars
<1>7. CASE \E c \in Conns : Peer(c)
  BY <1>7, PeerScan
<1>8. CASE ServerStep
  BY <1>3, <1>4, <1>5, <1>2, <1>8, SelectScan, NextScan, AcceptScan, EchoScan, CloseScan
  DEF ServerStep
<1> QED  BY <1>2, <1>6, <1>7, <1>8 DEF Next

LEMMA ScanInvariant == Spec => []ScanInv
<1> QED  BY ScanInit, ScanStep, PTL DEF Spec

-----------------------------------------------------------------------------

\* The variables of the server have their types; sfd_ready_no never counts more
\* than select() reported.
THEOREM SelectTypeCorrect == Spec => []TypeOK
<1>1. ScanInv => TypeOK
  BY DEF ScanInv
<1> QED  BY <1>1, ScanInvariant, PTL

\* Lines 101 and 137-139: however accept() and close() alternate during a scan, the
\* set given to select() is that of the open descriptors.
THEOREM SetIsOpenFds == Spec => []WatchesOpenFds
<1>1. ScanInv => WatchesOpenFds
  BY DEF ScanInv
<1> QED  BY <1>1, ScanInvariant, PTL

\* Lines 102 and 141-147: max_sfd is the highest member of the set, for any
\* numbers the descriptors may have.
THEOREM MaximumIsHighest == Spec => []HighestWatched
<1>1. ScanInv => HighestWatched
  BY DEF ScanInv
<1> QED  BY <1>1, ScanInvariant, PTL

\* Line 82: what ends the scan is that all that was reported has been handled, and
\* nothing reported has been closed, recycled or drained before its turn.
THEOREM ScanIsComplete == Spec => []ScanCoversReady
<1>1. ScanInv => ScanCoversReady
  BY DEF ScanInv
<1> QED  BY <1>1, ScanInvariant, PTL

-----------------------------------------------------------------------------
(* The server implements EchoService.                                       *)

\* What is left of the buffer, if it came from c.
Held(c) == IF pc = "write" /\ fdt[i] = c THEN chunk ELSE << >>

EchoInv == \A c \in Conns : LossySockFlow(c, sock[c], Held(c))

LEMMA EchoInit == Init => EchoInv
<1> SUFFICES ASSUME Init, NEW c \in Conns PROVE LossySockFlow(c, sock[c], Held(c))
  BY DEF EchoInv
<1>1. Held(c) = << >> /\ sock[c] = FreshSocket
  BY DEF Init, PeerInit, Held
<1>2. /\ FreshSocket.out = << >> /\ FreshSocket.rq = << >> /\ FreshSocket.sent = 0
      /\ Len(<< >>) = 0
  BY EmptySeq DEF FreshSocket
<1>3. LossyFlow(c, << >>, << >>, << >>, 0)
  <2>1. Runs(<< >>, c, 0) /\ LastOf(<< >>) <= 0 /\ 0 + Len(<< >>) = 0 /\ 0 \in Nat
        /\ 0 = 0 + Len(<< >>) + Len(<< >>)
    BY <1>2 DEF Runs, LastOf
  <2>2. Runs(<< >>, c, 0 + Len(<< >>))
    BY <2>1
  <2> QED  BY <2>1, <2>2 DEF LossyFlow
<1> QED  BY <1>1, <1>2, <1>3 DEF LossySockFlow

\* What a connection's peer does.
LEMMA PeerEcho ==
    ASSUME ScanInv, EchoInv, NEW c \in Conns, Peer(c)
    PROVE  EchoInv'
<1> USE DEF ScanInv, TypeOK, PeerTypeOK
<1>1. \A d \in Conns : Held(d)' = Held(d) /\ Held(d) \in Seq(Bytes)
  BY EmptySeq DEF Held, Peer, scanVars
<1>2. \A d \in Conns : LossySockFlow(d, sock[d], Held(d))
  BY DEF EchoInv
<1>3. ASSUME NEW s, sock' = [sock EXCEPT ![c] = s],
             s.sent = sock[c].sent, s.rq = sock[c].rq, s.out = sock[c].out
      PROVE  EchoInv'
  <2>1. LossySockFlow(c, s, Held(c))
    BY <1>2, <1>3 DEF LossySockFlow
  <2> QED  BY <1>1, <1>2, <1>3, <2>1 DEF EchoInv
<1>4. PeerStep(c)
  BY DEF Peer
<1>5. CASE Connect(c)
  BY <1>1, <1>2, <1>5 DEF Connect, EchoInv
<1>6. CASE PeerSend(c)
  <2>1. LossySockFlow(c, RecvByte(sock[c], c), Held(c))
    BY <1>1, <1>2, LossySentFlows
  <2> QED  BY <1>1, <1>2, <1>6, <2>1 DEF PeerSend, EchoInv
<1>7. CASE PeerRead(c)
  <2>1. /\ PeerConsume(sock[c]).sent = sock[c].sent /\ PeerConsume(sock[c]).rq = sock[c].rq
        /\ PeerConsume(sock[c]).out = sock[c].out
    BY DEF PeerConsume, Sockets
  <2> QED  BY <1>3, <1>7, <2>1 DEF PeerRead
<1>8. CASE PeerFin(c) \/ PeerReset(c)
  <2>1. \A t \in {RecvFin(sock[c]), RecvRst(sock[c])} :
           t.sent = sock[c].sent /\ t.rq = sock[c].rq /\ t.out = sock[c].out
    BY ReceivedFields
  <2> QED  BY <1>3, <1>8, <2>1 DEF PeerFin, PeerReset
<1> QED  BY <1>4, <1>5, <1>6, <1>7, <1>8 DEF PeerStep

\* The echo of a connection is changed by WriteData alone, its queue by ReadData.
LEMMA ServerEcho ==
    ASSUME ScanInv, EchoInv, ServerStep
    PROVE  EchoInv'
<1> USE DEF ScanInv, TypeOK, PeerTypeOK
<1>1. \A d \in Conns : LossySockFlow(d, sock[d], Held(d))
  BY DEF EchoInv
<1>2. \A d \in Conns : LossySockFlow(d, sock[d], << >>)
  <2>1. \A d \in Conns : /\ sock[d].out \in Seq(Bytes) /\ sock[d].rq \in Seq(Bytes)
                         /\ sock[d].sent \in Nat /\ Held(d) \in Seq(Bytes)
    BY EmptySeq DEF Sockets, Held
  <2> QED  BY <1>1, <2>1, LossyDrops DEF LossySockFlow
\* Any step that leaves bytes where they are, or drops those in the buffer.
<1>3. ASSUME pc' # "write",
             \A d \in Conns : /\ sock'[d].sent = sock[d].sent /\ sock'[d].rq = sock[d].rq
                              /\ sock'[d].out = sock[d].out
      PROVE  EchoInv'
  <2>1. \A d \in Conns : Held(d)' = << >>
    BY <1>3 DEF Held
  <2> QED  BY <1>2, <1>3, <2>1 DEF EchoInv, LossySockFlow
<1>4. ASSUME NEW c \in Conns, NEW s, sock' = [sock EXCEPT ![c] = s], fdt[i] = c, UNCHANGED <<fdt, i>>,
             LossySockFlow(c, s, IF pc' = "write" THEN chunk' ELSE << >>)
      PROVE  EchoInv'
  <2>1. /\ \A d \in Conns : d # c => Held(d)' = << >>
        /\ Held(c)' = IF pc' = "write" THEN chunk' ELSE << >>
    BY <1>4 DEF Held
  <2> QED  BY <1>2, <1>4, <2>1 DEF EchoInv
<1>5. pc \in {"read", "write"} => fdt[i] \in Conns
  BY DEF PosInv, OpenFds
<1>6. \A s \in Sockets : /\ ClearError(s).sent = s.sent /\ ClearError(s).rq = s.rq
                         /\ ClearError(s).out = s.out
  BY DEF ClearError, Sockets
<1>7. CASE ReadData
  <2>1. LossySockFlow(fdt[i], AfterRead(Sock, BufSize), ReadBytes(Sock, BufSize))
    BY <1>2, <1>5, <1>7, SelectAssumption, LossyReadFlows DEF ReadData, At, Sock
  <2> QED  BY <1>4, <1>5, <1>7, <2>1 DEF ReadData, At, Sock, scanVars
<1>8. CASE WriteData
  <2>1. /\ fdt[i] \in Conns /\ Sock \in Sockets /\ chunk \in Seq(Bytes) /\ chunk # << >>
        /\ SendRoom(Sock) > 0 /\ Held(fdt[i]) = chunk
    BY <1>5, <1>8 DEF WriteData, At, Sock, PosInv, WritesData, Held
  <2>2. LossySockFlow(fdt[i], AfterWrite(Sock, chunk), << >>)
    BY <1>1, <2>1, LossyWriteFlows DEF Sock
  <2> QED  BY <1>4, <1>8, <2>1, <2>2 DEF WriteData, Sock, scanVars
<1>9. CASE ReadError \/ WriteError
  <2>1. /\ pc' # "write" /\ fdt[i] \in Conns
        /\ sock' = [sock EXCEPT ![fdt[i]] = ClearError(sock[fdt[i]])]
    BY <1>5, <1>9 DEF ReadError, WriteError, At
  <2> QED  BY <1>3, <1>6, <2>1
<1>10. CASE WriteSigpipe
  BY <1>1, <1>10 DEF WriteSigpipe, EchoInv, Held, scanVars
<1>11. CASE sock' = sock /\ pc' # "write"
  BY <1>3, <1>11
<1>12. \/ sock' = sock /\ pc' # "write"
       \/ ReadData \/ WriteData \/ ReadError \/ WriteError \/ WriteSigpipe
  BY DEF ServerStep, Select, ScanTo, ScanEnds, Accept, AcceptNone, AcceptFails, ReadAgain, ReadEof,
         WriteAgain, Close, Exit, NextFd, At, scanVars, setVars
<1> QED  BY <1>7, <1>8, <1>9, <1>10, <1>11, <1>12

LEMMA EchoStep == ScanInv /\ EchoInv /\ [Next]_vars => EchoInv'
<1> SUFFICES ASSUME ScanInv, EchoInv, [Next]_vars PROVE EchoInv'
  OBVIOUS
<1>1. CASE SelectFails \/ UNCHANGED vars
  BY <1>1 DEF SelectFails, Exit, vars, EchoInv, Held, scanVars
<1> QED  BY <1>1, PeerEcho, ServerEcho DEF Next

LEMMA EchoInvariant == Spec => [](ScanInv /\ EchoInv)
<1>1. Init => ScanInv /\ EchoInv
  BY ScanInit, EchoInit
<1>2. (ScanInv /\ EchoInv) /\ [Next]_vars => (ScanInv /\ EchoInv)'
  BY ScanStep, EchoStep
<1> QED  BY <1>1, <1>2, PTL DEF Spec

-----------------------------------------------------------------------------
(* The echo service that may leave bytes out.                               *)

ServiceStep == [Service!Next]_Service!vars

\* The service's view of a connection.
Phase == [c \in Conns |->
            IF proc # "up" /\ st[c] \in {"queued", "open"} THEN "lost" ELSE st[c]]

ServiceSent == [c \in Conns |-> sock[c].sent]
ServiceEnded == [c \in Conns |-> sock[c].fin \/ sock[c].rst]
ServiceEcho == [c \in Conns |-> sock[c].out]

\* As long as the process is up, the phase of a connection is its state.
LEMMA PhaseUp ==
    ASSUME PeerTypeOK, PeerTypeOK', proc = "up", proc' = "up"
    PROVE  Phase = st /\ Phase' = st'
BY DEF Phase, PeerTypeOK

SameBytes(d) == sock'[d].sent = sock[d].sent /\ sock'[d].out = sock[d].out

SameEnd(d) == (sock'[d].fin \/ sock'[d].rst) = (sock[d].fin \/ sock[d].rst)

LEMMA SameSockets ==
    /\ (\A d \in Conns : SameBytes(d)) => ServiceSent' = ServiceSent /\ ServiceEcho' = ServiceEcho
    /\ (\A d \in Conns : SameEnd(d)) => ServiceEnded' = ServiceEnded
BY DEF SameBytes, SameEnd, ServiceSent, ServiceEcho, ServiceEnded

\* What the service does not see.
LEMMA Unseen ==
    ASSUME UNCHANGED <<st, proc>>, \A d \in Conns : SameBytes(d) /\ SameEnd(d)
    PROVE  ServiceStep
<1>1. UNCHANGED <<ServiceSent, ServiceEcho, ServiceEnded>>
  BY SameSockets
<1>2. UNCHANGED Phase
  BY DEF Phase
<1> QED  BY <1>1, <1>2 DEF ServiceStep, Service!vars, Phase, ServiceSent, ServiceEcho, ServiceEnded

LEMMA StopServes ==
    ASSUME NEW C \in SUBSET Conns, Service!Stop(C)
    PROVE  ServiceStep
BY DEF ServiceStep, Service!Next

\* The process ends, and with it the connections that are open or in the queue.
LEMMA Dies ==
    ASSUME PeerTypeOK, proc = "up", proc' # "up", UNCHANGED <<st, sock>>
    PROVE  ServiceStep
<1>0. PICK C \in SUBSET Conns : C = {c \in Conns : st[c] \in {"queued", "open"}}
  OBVIOUS
<1>1. Phase = st
  BY DEF Phase, PeerTypeOK
<1>2. \A c \in C : Phase[c] \in {"queued", "open"}
  BY <1>0, <1>1
<1>3. Phase' = [c \in Conns |-> IF c \in {} THEN "closed"
                                ELSE IF c \in C THEN "lost" ELSE Phase[c]]
  <2>1. \A c \in Conns : (proc' # "up" /\ st'[c] \in {"queued", "open"}) <=> c \in C
    BY <1>0
  <2> QED  BY <1>1, <2>1 DEF Phase
<1>4. UNCHANGED <<ServiceSent, ServiceEcho, ServiceEnded>>
  BY DEF ServiceSent, ServiceEcho, ServiceEnded
<1>5. \E P \in SUBSET C :
        /\ \A c \in P : Phase[c] = "open" /\ ServiceEnded[c]
        /\ Phase' = [c \in Conns |-> IF c \in P THEN "closed"
                                     ELSE IF c \in C THEN "lost" ELSE Phase[c]]
  <2>1. {} \in SUBSET C
    OBVIOUS
  <2> QED  BY <1>3, <2>1
<1>6. Service!Stop(C)
  BY <1>2, <1>4, <1>5 DEF Service!Stop, Service!Live, Phase, ServiceSent, ServiceEcho, ServiceEnded
<1> QED  BY <1>6, StopServes

LEMMA PeerServes ==
    ASSUME ScanInv, PeerTypeOK', NEW c \in Conns, Peer(c)
    PROVE  ServiceStep
<1>1. /\ PeerTypeOK /\ sock[c] \in Sockets /\ proc = "up" /\ proc' = "up"
      /\ PeerStep(c)
  BY DEF ScanInv, TypeOK, PeerTypeOK, Peer
<1>2. Phase = st /\ Phase' = st'
  BY <1>1, PhaseUp
<1>3. CASE Connect(c)
  <2>1. sock' = sock /\ Phase[c] = "idle" /\ Phase' = [Phase EXCEPT ![c] = "queued"]
    BY <1>2, <1>3 DEF Connect
  <2>2. UNCHANGED <<ServiceSent, ServiceEcho, ServiceEnded>>
    BY <2>1 DEF ServiceSent, ServiceEcho, ServiceEnded
  <2>3. Service!Connect(c)
    BY <2>1, <2>2 DEF Service!Connect, Phase, ServiceSent, ServiceEcho, ServiceEnded
  <2> QED  BY <2>3 DEF ServiceStep, Service!Next
<1>4. CASE PeerSend(c)
  <2>1. /\ Phase[c] \in {"queued", "open"} /\ ~(sock[c].fin \/ sock[c].rst)
        /\ st' = st /\ sock' = [sock EXCEPT ![c] = RecvByte(sock[c], c)]
    BY <1>2, <1>4 DEF PeerSend, Connected
  <2>2. sock'[c] = RecvByte(sock[c], c) /\ \A d \in Conns : d # c => sock'[d] = sock[d]
    BY <1>1, <2>1 DEF PeerTypeOK
  <2>3. /\ sock'[c].sent = sock[c].sent + 1 /\ sock'[c].out = sock[c].out
        /\ sock'[c].fin = sock[c].fin /\ sock'[c].rst = sock[c].rst
    BY <1>1, <2>2 DEF RecvByte, Sockets
  <2>4. ServiceSent' = [ServiceSent EXCEPT ![c] = @ + 1]
    BY <2>2, <2>3 DEF ServiceSent
  <2>5. ServiceEnded' = ServiceEnded /\ ServiceEcho' = ServiceEcho
    <3>1. \A d \in Conns : SameEnd(d) /\ sock'[d].out = sock[d].out
      BY <2>2, <2>3 DEF SameEnd
    <3> QED  BY <3>1, SameSockets DEF ServiceEcho
  <2>6. Phase' = Phase /\ ~ServiceEnded[c]
    BY <1>2, <2>1 DEF ServiceEnded
  <2>7. Service!Send(c)
    BY <2>1, <2>4, <2>5, <2>6
       DEF Service!Send, Service!Live, Phase, ServiceSent, ServiceEcho, ServiceEnded
  <2> QED  BY <2>7 DEF ServiceStep, Service!Next
<1>5. CASE PeerRead(c)
  <2>1. /\ PeerConsume(sock[c]).out = sock[c].out /\ PeerConsume(sock[c]).sent = sock[c].sent
        /\ PeerConsume(sock[c]).fin = sock[c].fin /\ PeerConsume(sock[c]).rst = sock[c].rst
    BY <1>1 DEF PeerConsume, Sockets
  <2>2. \A d \in Conns : SameBytes(d) /\ SameEnd(d)
    BY <1>1, <1>5, <2>1 DEF PeerRead, SameBytes, SameEnd, PeerTypeOK
  <2> QED  BY <1>1, <1>5, <2>2, Unseen DEF PeerRead
<1>6. CASE PeerFin(c) \/ PeerReset(c)
  <2>1. /\ Phase[c] \in {"queued", "open"} /\ st' = st
        /\ sock' = [sock EXCEPT ![c] = RecvFin(sock[c])] \/ sock' = [sock EXCEPT ![c] = RecvRst(sock[c])]
    BY <1>2, <1>6 DEF PeerFin, PeerReset, Connected
  <2>2. /\ sock'[c] \in {RecvFin(sock[c]), RecvRst(sock[c])}
        /\ \A d \in Conns : d # c => sock'[d] = sock[d]
    BY <1>1, <2>1 DEF PeerTypeOK
  <2>3. /\ sock'[c].sent = sock[c].sent /\ sock'[c].out = sock[c].out /\ Ended(sock'[c])
    BY <1>1, <2>2, ReceivedFields
  <2>4. ServiceSent' = ServiceSent /\ ServiceEcho' = ServiceEcho
    BY <2>2, <2>3 DEF ServiceSent, ServiceEcho
  <2>5. \A d \in Conns : ServiceEnded'[d] = (ServiceEnded[d] \/ d \in {c})
    BY <2>2, <2>3 DEF ServiceEnded, Ended
  <2>6. ServiceEnded' = [d \in Conns |-> ServiceEnded[d] \/ d \in {c}]
    BY <2>5 DEF ServiceEnded
  <2>7. Service!End({c})
    BY <1>2, <2>1, <2>4, <2>6
       DEF Service!End, Service!Live, Phase, ServiceSent, ServiceEcho, ServiceEnded
  <2> QED  BY <2>7 DEF ServiceStep, Service!Next
<1> QED  BY <1>1, <1>3, <1>4, <1>5, <1>6 DEF PeerStep

LEMMA AcceptServes ==
    ASSUME PeerTypeOK, PeerTypeOK', NEW f \in FDs, Accept(f)
    PROVE  ServiceStep
<1>1. PICK c \in Queued : st' = [st EXCEPT ![c] = "open"]
  BY DEF Accept
<1>2. c \in Conns /\ st[c] = "queued" /\ sock' = sock /\ Phase = st /\ Phase' = st'
  BY <1>1, PhaseUp DEF Accept, At, Queued
<1>3. UNCHANGED <<ServiceSent, ServiceEcho, ServiceEnded>>
  BY <1>2 DEF ServiceSent, ServiceEcho, ServiceEnded
<1>4. Phase[c] = "queued" /\ Phase' = [Phase EXCEPT ![c] = "open"]
  BY <1>1, <1>2
<1>5. Service!Accept(c)
  BY <1>3, <1>4 DEF Service!Accept, Phase, ServiceSent, ServiceEcho, ServiceEnded
<1> QED  BY <1>2, <1>5 DEF ServiceStep, Service!Next

\* The connection that is closed is one its peer has ended.
LEMMA CloseServes ==
    ASSUME ScanInv, PeerTypeOK', Close
    PROVE  ServiceStep
<1> USE DEF ScanInv, TypeOK
<1>1. PICK c \in Conns : c = fdt[i]
  BY DEF Close, At, PosInv, OpenFds
<1>2. /\ st[c] = "open" /\ Ended(sock[c]) /\ sock' = sock
      /\ st' = [st EXCEPT ![c] = "closed"] /\ Phase = st /\ Phase' = st'
  BY <1>1, PhaseUp DEF Close, At, PosInv, OpenFds, FdInv, Sock
<1>3. UNCHANGED <<ServiceSent, ServiceEcho, ServiceEnded>>
  BY <1>2 DEF ServiceSent, ServiceEcho, ServiceEnded
<1>4. Phase[c] = "open" /\ ServiceEnded[c]
  BY <1>2 DEF ServiceEnded, Ended
<1>5. Phase' = [d \in Conns |-> IF d \in {c} THEN "closed"
                                ELSE IF d \in {c} THEN "lost" ELSE Phase[d]]
  BY <1>2 DEF PeerTypeOK
<1>6. \E P \in SUBSET {c} :
        /\ \A d \in P : Phase[d] = "open" /\ ServiceEnded[d]
        /\ Phase' = [d \in Conns |-> IF d \in P THEN "closed"
                                     ELSE IF d \in {c} THEN "lost" ELSE Phase[d]]
  <2>1. {c} \in SUBSET {c} /\ \A d \in {c} : Phase[d] = "open" /\ ServiceEnded[d]
    BY <1>4
  <2> QED  BY <1>5, <2>1
<1>7. Service!Stop({c})
  BY <1>3, <1>4, <1>6
     DEF Service!Stop, Service!Live, Phase, ServiceSent, ServiceEcho, ServiceEnded
<1> QED  BY <1>7, StopServes

\* What write() takes are bytes of the connection, later ones than it took before.
LEMMA WriteServes ==
    ASSUME ScanInv, EchoInv, PeerTypeOK', WriteData
    PROVE  ServiceStep
<1> USE DEF ScanInv, TypeOK
<1>1. PICK c \in Conns : c = fdt[i]
  BY DEF WriteData, At, PosInv, OpenFds
<1>2. /\ st[c] = "open" /\ Phase = st /\ Phase' = st' /\ st' = st
  BY <1>1, PhaseUp DEF WriteData, At, PosInv, OpenFds, FdInv
<1>3. /\ sock[c] \in Sockets /\ chunk \in Seq(Bytes) /\ chunk # << >>
      /\ SendRoom(sock[c]) > 0 /\ Held(c) = chunk
  BY <1>1 DEF WriteData, At, Sock, PosInv, WritesData, Held, PeerTypeOK
<1>4. LossySockFlow(c, sock[c], chunk)
  BY <1>3 DEF EchoInv
<1>5. PICK n \in 1 .. sock[c].sent - LastOf(sock[c].out) :
      \E next \in [1 .. n -> LastOf(sock[c].out) + 1 .. sock[c].sent] :
        /\ \A j, l \in 1 .. n : j < l => next[j] < next[l]
        /\ AfterWrite(sock[c], chunk).out = sock[c].out \o [j \in 1 .. n |-> Byte(c, next[j])]
  BY <1>3, <1>4, LossyWriteFlows
<1>6. PICK next \in [1 .. n -> LastOf(sock[c].out) + 1 .. sock[c].sent] :
        /\ \A j, l \in 1 .. n : j < l => next[j] < next[l]
        /\ AfterWrite(sock[c], chunk).out = sock[c].out \o [j \in 1 .. n |-> Byte(c, next[j])]
  BY <1>5
<1>7. /\ AfterWrite(sock[c], chunk).sent = sock[c].sent
      /\ AfterWrite(sock[c], chunk).fin = sock[c].fin
      /\ AfterWrite(sock[c], chunk).rst = sock[c].rst
  BY <1>3 DEF AfterWrite, Sockets
<1>8. /\ sock'[c] = AfterWrite(sock[c], chunk)
      /\ \A d \in Conns : d # c => sock'[d] = sock[d]
  BY <1>1 DEF WriteData, PeerTypeOK
<1>9. ServiceSent' = ServiceSent /\ ServiceEnded' = ServiceEnded
  BY <1>7, <1>8 DEF ServiceSent, ServiceEnded
<1>10. [j \in 1 .. n |-> Byte(c, next[j])] = [j \in 1 .. n |-> <<c, next[j]>>]
  BY DEF Byte
<1>11. ServiceEcho' = [ServiceEcho EXCEPT ![c] = @ \o [j \in 1 .. n |-> <<c, next[j]>>]]
  BY <1>6, <1>8, <1>10 DEF ServiceEcho
<1>12. /\ Service!LastEchoed(c) = LastOf(sock[c].out) /\ ServiceSent[c] = sock[c].sent
       /\ Phase[c] = "open" /\ Phase' = Phase
  BY <1>2 DEF Service!LastEchoed, LastOf, ServiceSent
<1>13. \E m \in 1 .. ServiceSent[c] - Service!LastEchoed(c) :
       \E f \in [1 .. m -> Service!LastEchoed(c) + 1 .. ServiceSent[c]] :
         /\ \A j, l \in 1 .. m : j < l => f[j] < f[l]
         /\ TRUE \/ \A j \in 1 .. m : f[j] = Service!LastEchoed(c) + j
         /\ ServiceEcho' = [ServiceEcho EXCEPT ![c] = @ \o [j \in 1 .. m |-> <<c, f[j]>>]]
  BY <1>6, <1>11, <1>12
<1>14. Service!Echo(c)
  BY <1>9, <1>12, <1>13, Zenon
     DEF Service!Echo, Phase, ServiceSent, ServiceEcho, ServiceEnded
<1> QED  BY <1>14 DEF ServiceStep, Service!Next

LEMMA StepServes ==
    ASSUME ScanInv, EchoInv, [Next]_vars
    PROVE  ServiceStep
<1>0. PeerTypeOK /\ sock \in [Conns -> Sockets] /\ PeerTypeOK'
  BY ScanStep DEF ScanInv, TypeOK, PeerTypeOK
<1>1. CASE UNCHANGED vars
  BY <1>1, Unseen DEF vars, SameBytes, SameEnd
<1>2. ASSUME NEW c \in Conns, Peer(c) PROVE ServiceStep
  BY <1>0, <1>2, PeerServes
<1>3. CASE SelectFails \/ AcceptFails \/ WriteSigpipe
  BY <1>0, <1>3, Dies DEF SelectFails, AcceptFails, WriteSigpipe, Exit, At
<1>4. ASSUME NEW f \in FDs, Accept(f) PROVE ServiceStep
  BY <1>0, <1>4, AcceptServes
<1>5. CASE Close
  BY <1>0, <1>5, CloseServes
<1>6. CASE WriteData
  BY <1>0, <1>6, WriteServes
<1>7. CASE ReadData \/ ReadError \/ WriteError
  <2>1. /\ UNCHANGED <<st, proc>> /\ fdt[i] \in Conns
        /\ \E t \in {AfterRead(sock[fdt[i]], BufSize), ClearError(sock[fdt[i]])} :
              sock' = [sock EXCEPT ![fdt[i]] = t]
    BY <1>7 DEF ReadData, ReadError, WriteError, At, ScanInv, TypeOK, PosInv, OpenFds
  <2>2. \A s \in Sockets : \A t \in {AfterRead(s, BufSize), ClearError(s)} :
          t.sent = s.sent /\ t.fin = s.fin /\ t.rst = s.rst /\ t.out = s.out
    BY DEF AfterRead, ClearError, Sockets
  <2>3. \A d \in Conns : SameBytes(d) /\ SameEnd(d)
    BY <1>0, <2>1, <2>2 DEF SameBytes, SameEnd
  <2> QED  BY <2>1, <2>3, Unseen
<1>8. CASE UNCHANGED <<st, proc, sock>>
  BY <1>8, Unseen DEF SameBytes, SameEnd
<1>9. ServerStep => \/ UNCHANGED <<st, proc, sock>> \/ AcceptFails \/ WriteSigpipe
                    \/ \E f \in FDs : Accept(f)
                    \/ Close \/ WriteData \/ ReadData \/ ReadError \/ WriteError
  BY DEF ServerStep, Select, ScanTo, ScanEnds, AcceptNone, ReadAgain, ReadEof, WriteAgain
<1> QED  BY <1>1, <1>2, <1>3, <1>4, <1>5, <1>6, <1>7, <1>8, <1>9 DEF Next

\* What the select() server keeps of the promise of an echo service, for any number of
\* clients, bytes and descriptors: though WriteData and WriteAgain drop what write()
\* did not take, an echo goes to the connection its bytes came from, in their order
\* and never twice, and the only connections closed are those their peers have ended.
THEOREM SelectEchoesInOrder == Spec => EchoesInOrder
<1>1. Init => Service!Init
  <2> SUFFICES ASSUME Init PROVE Service!Init
    OBVIOUS
  <2>1. \A c \in Conns : sock[c] = FreshSocket /\ st[c] = "idle"
    BY DEF Init, PeerInit
  <2>2. /\ FreshSocket.sent = 0 /\ FreshSocket.out = << >>
        /\ (FreshSocket.fin \/ FreshSocket.rst) = FALSE
    BY DEF FreshSocket
  <2>3. /\ Phase = [c \in Conns |-> "idle"]
        /\ ServiceSent = [c \in Conns |-> 0]
        /\ ServiceEnded = [c \in Conns |-> FALSE]
        /\ ServiceEcho = [c \in Conns |-> << >>]
    BY <2>1, <2>2 DEF Phase, ServiceSent, ServiceEnded, ServiceEcho
  <2> QED  BY <2>3 DEF Service!Init, Phase, ServiceSent, ServiceEnded, ServiceEcho
<1>2. (ScanInv /\ EchoInv) /\ [Next]_vars => ServiceStep
  BY StepServes
<1> QED  BY <1>1, <1>2, EchoInvariant, PTL DEF Spec, EchoesInOrder, Service!Spec, ServiceStep

=============================================================================
