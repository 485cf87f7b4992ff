--------------------------- MODULE TcpSocketProofs ---------------------------
(***************************************************************************)
(* Lemmas about the operators of TcpSocket, cited by the proofs about the    *)
(* servers.                                                                *)
(***************************************************************************)
EXTENDS TcpSocket, SequenceTheorems, TLAPS

\* read() takes at most the bytes it was asked for off the queue.
LEMMA ReadTypes ==
    ASSUME NEW s \in Sockets, NEW n \in Nat
    PROVE  /\ AfterRead(s, n) \in Sockets
           /\ ReadBytes(s, n) \in Seq(Bytes)
           /\ Len(ReadBytes(s, n)) \in 0 .. n
<1>1. s.rq \in Seq(Bytes) /\ Len(s.rq) \in Nat
  BY DEF Sockets
<1>2. ReadLen(s, n) \in Nat /\ ReadLen(s, n) <= n /\ ReadLen(s, n) <= Len(s.rq)
  BY <1>1 DEF ReadLen, Smaller
<1>3. ReadBytes(s, n) \in Seq(Bytes) /\ Len(ReadBytes(s, n)) = ReadLen(s, n)
  <2>1. \A i \in 1 .. ReadLen(s, n) : s.rq[i] \in Bytes
    BY <1>1, <1>2, ElementOfSeq
  <2>. QED  BY <1>2, <2>1, SubSeqProperties DEF ReadBytes
<1>4. SubSeq(s.rq, ReadLen(s, n) + 1, Len(s.rq)) \in Seq(Bytes)
  <2>1. \A i \in ReadLen(s, n) + 1 .. Len(s.rq) : s.rq[i] \in Bytes
    BY <1>1, <1>2, ElementOfSeq
  <2>. QED  BY <1>1, <1>2, <2>1, SubSeqProperties
<1>5. AfterRead(s, n) \in Sockets
  BY <1>4 DEF AfterRead, Sockets
<1>. QED  BY <1>2, <1>3, <1>5

LEMMA ReadSome ==
    ASSUME NEW s \in Sockets, NEW n \in Nat, ReadsData(s, n)
    PROVE  ReadBytes(s, n) # << >>
<1>1. s.rq \in Seq(Bytes) /\ Len(s.rq) \in Nat \ {0} /\ n # 0
  BY EmptySeq DEF Sockets, ReadsData
<1>2. ReadLen(s, n) \in 1 .. Len(s.rq)
  BY <1>1 DEF ReadLen, Smaller
<1>3. Len(ReadBytes(s, n)) = ReadLen(s, n)
  <2>1. \A i \in 1 .. ReadLen(s, n) : s.rq[i] \in Bytes
    BY <1>1, <1>2, ElementOfSeq
  <2>. QED  BY <1>2, <2>1, SubSeqProperties DEF ReadBytes
<1>. QED  BY <1>2, <1>3, EmptySeq

\* write() takes a prefix of what it is given.
LEMMA WriteTypes ==
    ASSUME NEW s \in Sockets, NEW bytes \in Seq(Bytes), SendRoom(s) > 0
    PROVE  /\ AfterWrite(s, bytes) \in Sockets
           /\ WriteLen(s, Len(bytes)) \in Nat
<1>1. SendRoom(s) \in Int
  BY SndBufAssumption DEF SendRoom, Sockets
<1>2. /\ WriteLen(s, Len(bytes)) \in Nat
      /\ WriteLen(s, Len(bytes)) <= Len(bytes)
  BY <1>1 DEF WriteLen, Smaller
<1>3. SubSeq(bytes, 1, WriteLen(s, Len(bytes))) \in Seq(Bytes)
  <2>1. \A i \in 1 .. WriteLen(s, Len(bytes)) : bytes[i] \in Bytes
    BY <1>2, ElementOfSeq
  <2>. QED  BY <1>2, <2>1, SubSeqProperties
<1>4. s.out \o SubSeq(bytes, 1, WriteLen(s, Len(bytes))) \in Seq(Bytes)
  BY <1>3, ConcatProperties DEF Sockets
<1>5. AfterWrite(s, bytes) \in Sockets
  <2>1. \A q \in Seq(Bytes) : [s EXCEPT !.out = q] \in Sockets
    BY DEF Sockets
  <2>. QED  BY <1>4, <2>1 DEF AfterWrite
<1>. QED  BY <1>2, <1>5

\* Bytes, FINs and RSTs leave a socket a socket.
LEMMA PeerTypes ==
    ASSUME NEW s \in Sockets, NEW c \in Conns
    PROVE  /\ RecvByte(s, c) \in Sockets
           /\ RecvFin(s) \in Sockets
           /\ RecvRst(s) \in Sockets
           /\ PeerConsume(s) \in Sockets
           /\ ClearError(s) \in Sockets
<1>1. <<c, s.sent + 1>> \in Bytes
  BY DEF Sockets, Bytes
<1>2. RecvByte(s, c) \in Sockets
  <2>1. Append(s.rq, <<c, s.sent + 1>>) \in Seq(Bytes)
    BY <1>1, AppendProperties DEF Sockets
  <2>2. \A m \in Nat, q \in Seq(Bytes) :
           [s EXCEPT !.sent = m, !.rq = q] \in Sockets
    BY DEF Sockets
  <2>3. s.sent + 1 \in Nat
    BY DEF Sockets
  <2>. QED  BY <2>1, <2>2, <2>3 DEF RecvByte
<1>3. RecvFin(s) \in Sockets
  BY DEF RecvFin, Sockets
<1>4. RecvRst(s) \in Sockets
  BY DEF RecvRst, Sockets, SockErrors
<1>5. PeerConsume(s) \in Sockets
  BY DEF PeerConsume, Sockets
<1>6. ClearError(s) \in Sockets
  BY DEF ClearError, Sockets, SockErrors
<1>. QED  BY <1>2, <1>3, <1>4, <1>5, <1>6

\* Nothing that happens to a socket takes a FIN or a RST back.
Ended(s) == s.fin \/ s.rst

LEMMA EndedForGood ==
    ASSUME NEW s \in Sockets, Ended(s)
    PROVE  /\ \A c \in Conns : Ended(RecvByte(s, c))
           /\ Ended(RecvFin(s))
           /\ Ended(RecvRst(s))
           /\ Ended(PeerConsume(s))
           /\ Ended(ClearError(s))
           /\ \A n \in Nat : Ended(AfterRead(s, n))
BY DEF Ended, RecvByte, RecvFin, RecvRst, PeerConsume, ClearError, AfterRead, Sockets

-----------------------------------------------------------------------------
(* Bytes on their way through a server.                                     *)

\* The n-th byte of c.
Byte(c, n) == <<c, n>>

\* q is what comes after the first k bytes of c.
Runs(q, c, k) == \A n \in 1 .. Len(q) : q[n] = Byte(c, k + n)

\* The bytes of c on their way: what is echoed, what is left of the buffer and what
\* is in the receive queue are the bytes sent, one after the other.
Flow(c, out, rest, rq, sent) ==
    /\ Runs(out, c, 0)
    /\ Runs(rest, c, Len(out))
    /\ Runs(rq, c, Len(out) + Len(rest))
    /\ sent = Len(out) + Len(rest) + Len(rq)

SockFlow(c, s, rest) == Flow(c, s.out, rest, s.rq, s.sent)

LEMMA RunsAppend ==
    ASSUME NEW c, NEW k \in Nat, NEW q \in Seq(Bytes), Runs(q, c, k),
           NEW b \in Bytes, b = Byte(c, k + Len(q) + 1)
    PROVE  Runs(Append(q, b), c, k) /\ Len(Append(q, b)) = Len(q) + 1
<1>1. /\ Len(q) \in Nat
      /\ Len(Append(q, b)) = Len(q) + 1
      /\ \A n \in 1 .. Len(q) : Append(q, b)[n] = q[n]
      /\ Append(q, b)[Len(q) + 1] = b
  BY AppendProperties
<1>2. ASSUME NEW n \in 1 .. Len(q) + 1 PROVE Append(q, b)[n] = Byte(c, k + n)
  <2>1. CASE n = Len(q) + 1
    <3>1. k + n = k + Len(q) + 1
      BY <1>1, <2>1
    <3> QED  BY <1>1, <2>1, <3>1
  <2>2. CASE n # Len(q) + 1
    BY <1>1, <2>2 DEF Runs
  <2> QED  BY <2>1, <2>2
<1> QED  BY <1>1, <1>2 DEF Runs

LEMMA RunsSplit ==
    ASSUME NEW c, NEW k \in Nat, NEW q \in Seq(Bytes), NEW m \in 0 .. Len(q), Runs(q, c, k)
    PROVE  /\ Runs(SubSeq(q, 1, m), c, k)
           /\ Runs(SubSeq(q, m + 1, Len(q)), c, k + m)
           /\ SubSeq(q, 1, m) \in Seq(Bytes)
           /\ Len(SubSeq(q, 1, m)) = m
           /\ Len(SubSeq(q, m + 1, Len(q))) = Len(q) - m
<1>1. Len(q) \in Nat /\ \A n \in 1 .. Len(q) : q[n] \in Bytes
  BY ElementOfSeq
<1>2. /\ SubSeq(q, 1, m) \in Seq(Bytes)
      /\ Len(SubSeq(q, 1, m)) = m
      /\ \A n \in 1 .. m : SubSeq(q, 1, m)[n] = q[n]
  BY <1>1, SubSeqProperties
<1>3. /\ Len(SubSeq(q, m + 1, Len(q))) = Len(q) - m
      /\ \A n \in 1 .. Len(q) - m : SubSeq(q, m + 1, Len(q))[n] = q[m + n]
  BY <1>1, SubSeqProperties
<1>4. Runs(SubSeq(q, 1, m), c, k)
  BY <1>1, <1>2 DEF Runs
<1>5. ASSUME NEW n \in 1 .. Len(q) - m
      PROVE  SubSeq(q, m + 1, Len(q))[n] = Byte(c, k + m + n)
  <2>1. m + n \in 1 .. Len(q) /\ k + (m + n) = k + m + n
    BY <1>1
  <2> QED  BY <1>3, <2>1 DEF Runs
<1> QED  BY <1>2, <1>3, <1>4, <1>5 DEF Runs

LEMMA RunsConcat ==
    ASSUME NEW c, NEW p \in Seq(Bytes), NEW q \in Seq(Bytes),
           Runs(p, c, 0), Runs(q, c, Len(p))
    PROVE  Runs(p \o q, c, 0) /\ Len(p \o q) = Len(p) + Len(q)
<1>1. /\ Len(p) \in Nat /\ Len(q) \in Nat
      /\ Len(p \o q) = Len(p) + Len(q)
      /\ \A n \in 1 .. Len(p) + Len(q) : (p \o q)[n] =
              IF n <= Len(p) THEN p[n] ELSE q[n - Len(p)]
  BY ConcatProperties
<1>2. ASSUME NEW n \in 1 .. Len(p) + Len(q) PROVE (p \o q)[n] = Byte(c, 0 + n)
  <2>1. CASE n <= Len(p)
    BY <1>1, <2>1 DEF Runs
  <2>2. CASE ~(n <= Len(p))
    <3>1. n - Len(p) \in 1 .. Len(q) /\ Len(p) + (n - Len(p)) = n /\ 0 + n = n
      BY <1>1, <2>2
    <3>2. q[n - Len(p)] = Byte(c, Len(p) + (n - Len(p)))
      BY <3>1 DEF Runs
    <3> QED  BY <1>1, <2>2, <3>1, <3>2
  <2> QED  BY <2>1, <2>2
<1> QED  BY <1>1, <1>2 DEF Runs

\* A byte joins the queue.
LEMMA FlowSends ==
    ASSUME NEW c \in Conns, NEW out \in Seq(Bytes), NEW rest \in Seq(Bytes),
           NEW rq \in Seq(Bytes), NEW sent \in Nat, Flow(c, out, rest, rq, sent)
    PROVE  Flow(c, out, rest, Append(rq, Byte(c, sent + 1)), sent + 1)
<1>1. Len(rq) \in Nat /\ Len(out) \in Nat /\ Len(rest) \in Nat
  OBVIOUS
<1>2. Byte(c, sent + 1) \in Bytes
  BY DEF Bytes, Byte
<1>3. sent + 1 = (Len(out) + Len(rest)) + Len(rq) + 1 /\ Len(out) + Len(rest) \in Nat
  BY <1>1 DEF Flow
<1>4. /\ Runs(Append(rq, Byte(c, sent + 1)), c, Len(out) + Len(rest))
      /\ Len(Append(rq, Byte(c, sent + 1))) = Len(rq) + 1
  BY <1>2, <1>3, RunsAppend DEF Flow
<1> QED  BY <1>1, <1>3, <1>4 DEF Flow

\* The front of the queue moves to the buffer.
LEMMA FlowReads ==
    ASSUME NEW c \in Conns, NEW out \in Seq(Bytes), NEW rq \in Seq(Bytes), NEW sent \in Nat,
           Flow(c, out, << >>, rq, sent), NEW m \in 0 .. Len(rq)
    PROVE  Flow(c, out, SubSeq(rq, 1, m), SubSeq(rq, m + 1, Len(rq)), sent)
<1> DEFINE got == SubSeq(rq, 1, m)
           left == SubSeq(rq, m + 1, Len(rq))
<1>1. Len(rq) \in Nat /\ Len(out) \in Nat /\ Len(<< >>) = 0
  BY EmptySeq
<1>2. Runs(out, c, 0) /\ Runs(rq, c, Len(out)) /\ sent = Len(out) + Len(rq)
  BY <1>1 DEF Flow
<1>3. /\ Runs(got, c, Len(out)) /\ Runs(left, c, Len(out) + m)
      /\ Len(got) = m /\ Len(left) = Len(rq) - m
  BY <1>1, <1>2, RunsSplit
<1> HIDE DEF got, left
<1>4. sent = Len(out) + Len(got) + Len(left)
  BY <1>1, <1>2, <1>3
<1>5. Flow(c, out, got, left, sent)
  BY <1>2, <1>3, <1>4 DEF Flow
<1> QED  BY <1>5 DEF got, left

\* The front of the buffer moves to the echo.
LEMMA FlowWrites ==
    ASSUME NEW c \in Conns, NEW out \in Seq(Bytes), NEW rest \in Seq(Bytes),
           NEW rq \in Seq(Bytes), NEW sent \in Nat, Flow(c, out, rest, rq, sent),
           NEW n \in 1 .. Len(rest)
    PROVE  /\ n \in 1 .. sent - Len(out)
           /\ SubSeq(rest, 1, n) = [k \in 1 .. n |-> Byte(c, Len(out) + k)]
           /\ Flow(c, out \o SubSeq(rest, 1, n), SubSeq(rest, n + 1, Len(rest)), rq, sent)
<1> DEFINE front == SubSeq(rest, 1, n)
           back == SubSeq(rest, n + 1, Len(rest))
<1>1. Len(out) \in Nat /\ Len(rq) \in Nat /\ Len(rest) \in Nat
  OBVIOUS
<1>2. /\ Runs(out, c, 0) /\ Runs(rest, c, Len(out))
      /\ Runs(rq, c, Len(out) + Len(rest))
      /\ sent = Len(out) + Len(rest) + Len(rq)
  BY DEF Flow
<1>3. n \in 0 .. Len(rest)
  BY <1>1
<1>4. /\ Runs(front, c, Len(out)) /\ Runs(back, c, Len(out) + n)
      /\ front \in Seq(Bytes) /\ Len(front) = n /\ Len(back) = Len(rest) - n
  <2>1. Runs(rest, c, Len(out)) /\ Len(out) \in Nat
    BY <1>1, <1>2
  <2> QED  BY <1>3, <2>1, RunsSplit
<1>5. front = [k \in 1 .. n |-> front[k]]
  BY <1>4
<1> HIDE DEF front, back
<1>6. front = [k \in 1 .. n |-> Byte(c, Len(out) + k)]
  BY <1>4, <1>5 DEF Runs
<1>7. Runs(out \o front, c, 0) /\ Len(out \o front) = Len(out) + n
  BY <1>2, <1>4, RunsConcat
<1>8. /\ (Len(out) + n) + Len(back) = Len(out) + Len(rest)
      /\ sent = (Len(out) + n) + Len(back) + Len(rq)
      /\ n \in 1 .. sent - Len(out)
  BY <1>1, <1>2, <1>4
<1>9. Flow(c, out \o front, back, rq, sent)
  BY <1>2, <1>4, <1>7, <1>8 DEF Flow
<1> QED  BY <1>6, <1>8, <1>9 DEF front, back

-----------------------------------------------------------------------------
(* Sockets.                                                                 *)

LEMMA ReceivedFields ==
    ASSUME NEW s \in Sockets, NEW c \in Conns
    PROVE  /\ RecvByte(s, c).sent = s.sent + 1
           /\ RecvByte(s, c).rq = Append(s.rq, Byte(c, s.sent + 1))
           /\ RecvByte(s, c).out = s.out
           /\ RecvByte(s, c).rst = s.rst
           /\ Ended(RecvByte(s, c)) = Ended(s)
           /\ \A t \in {RecvFin(s), RecvRst(s)} :
                /\ t.sent = s.sent /\ t.rq = s.rq /\ t.out = s.out
                /\ Ended(t) /\ (s.rst => t.rst)
BY DEF RecvByte, RecvFin, RecvRst, Ended, Byte, Sockets

LEMMA SentFlows ==
    ASSUME NEW s \in Sockets, NEW c \in Conns, NEW rest \in Seq(Bytes), SockFlow(c, s, rest)
    PROVE  SockFlow(c, RecvByte(s, c), rest)
<1>1. s.out \in Seq(Bytes) /\ s.rq \in Seq(Bytes) /\ s.sent \in Nat
  BY DEF Sockets
<1>2. Flow(c, s.out, rest, s.rq, s.sent)
  BY DEF SockFlow
<1>3. Flow(c, s.out, rest, Append(s.rq, Byte(c, s.sent + 1)), s.sent + 1)
  BY <1>1, <1>2, FlowSends
<1> QED  BY <1>3, ReceivedFields DEF SockFlow

LEMMA ReadFlows ==
    ASSUME NEW s \in Sockets, NEW c \in Conns, NEW n \in Nat, SockFlow(c, s, << >>)
    PROVE  SockFlow(c, AfterRead(s, n), ReadBytes(s, n))
<1>1. s.out \in Seq(Bytes) /\ s.rq \in Seq(Bytes) /\ s.sent \in Nat /\ Len(s.rq) \in Nat
  BY DEF Sockets
<1>2. Flow(c, s.out, << >>, s.rq, s.sent)
  BY DEF SockFlow
<1>3. ReadLen(s, n) \in 0 .. Len(s.rq)
  BY <1>1 DEF ReadLen, Smaller
<1>4. Flow(c, s.out, SubSeq(s.rq, 1, ReadLen(s, n)),
             SubSeq(s.rq, ReadLen(s, n) + 1, Len(s.rq)), s.sent)
  BY <1>1, <1>2, <1>3, FlowReads
<1>5. /\ AfterRead(s, n).sent = s.sent
      /\ AfterRead(s, n).out = s.out
      /\ AfterRead(s, n).rq = SubSeq(s.rq, ReadLen(s, n) + 1, Len(s.rq))
  BY DEF AfterRead, Sockets
<1> QED  BY <1>4, <1>5 DEF SockFlow, ReadBytes

LEMMA WriteFlows ==
    ASSUME NEW s \in Sockets, NEW c \in Conns, NEW rest \in Seq(Bytes), rest # << >>,
           SendRoom(s) > 0, SockFlow(c, s, rest)
    PROVE  LET n == WriteLen(s, Len(rest)) IN
           /\ n \in 1 .. s.sent - Len(s.out)
           /\ AfterWrite(s, rest).out = s.out \o [k \in 1 .. n |-> Byte(c, Len(s.out) + k)]
           /\ SockFlow(c, AfterWrite(s, rest), SubSeq(rest, n + 1, Len(rest)))
<1> DEFINE n == WriteLen(s, Len(rest))
<1>1. s.out \in Seq(Bytes) /\ s.rq \in Seq(Bytes) /\ s.sent \in Nat /\ Len(rest) \in Nat \ {0}
  BY EmptySeq DEF Sockets
<1>2. Flow(c, s.out, rest, s.rq, s.sent)
  BY DEF SockFlow
<1>3. SendRoom(s) \in Int
  BY SndBufAssumption DEF SendRoom, Sockets
<1>4. n \in 1 .. Len(rest)
  BY <1>1, <1>3 DEF WriteLen, Smaller
<1>5. /\ AfterWrite(s, rest).sent = s.sent
      /\ AfterWrite(s, rest).rq = s.rq
      /\ AfterWrite(s, rest).out = s.out \o SubSeq(rest, 1, n)
  BY DEF AfterWrite, Sockets
<1> HIDE DEF n
<1>6. /\ n \in 1 .. s.sent - Len(s.out)
      /\ SubSeq(rest, 1, n) = [k \in 1 .. n |-> Byte(c, Len(s.out) + k)]
      /\ Flow(c, s.out \o SubSeq(rest, 1, n), SubSeq(rest, n + 1, Len(rest)), s.rq, s.sent)
  BY <1>1, <1>2, <1>4, FlowWrites
<1> QED  BY <1>5, <1>6 DEF SockFlow, n

-----------------------------------------------------------------------------
(* Bytes on their way through a server that may leave some out.              *)

\* The number of the last byte of q.
LastOf(q) == IF q = << >> THEN 0 ELSE q[Len(q)][2]

\* What is left of the buffer and what is in the receive queue are the last bytes
\* sent, none of which is echoed yet.
LossyFlow(c, out, rest, rq, sent) ==
    \E k \in Nat :
        /\ LastOf(out) <= k
        /\ Runs(rest, c, k)
        /\ Runs(rq, c, k + Len(rest))
        /\ sent = k + Len(rest) + Len(rq)

LossySockFlow(c, s, rest) == LossyFlow(c, s.out, rest, s.rq, s.sent)

LEMMA LastTypes ==
    ASSUME NEW q \in Seq(Bytes)
    PROVE  LastOf(q) \in Nat
<1>1. CASE q = << >>
  BY <1>1 DEF LastOf
<1>2. CASE q # << >>
  <2>1. Len(q) \in 1 .. Len(q)
    BY <1>2, EmptySeq
  <2>2. q[Len(q)] \in Bytes
    BY <2>1, ElementOfSeq
  <2>3. q[Len(q)][2] \in Nat
    BY <2>2 DEF Bytes
  <2>. QED  BY <1>2, <2>3 DEF LastOf
<1>. QED  BY <1>1, <1>2

\* A byte joins the queue.
LEMMA LossySends ==
    ASSUME NEW c \in Conns, NEW out \in Seq(Bytes), NEW rest \in Seq(Bytes),
           NEW rq \in Seq(Bytes), NEW sent \in Nat, LossyFlow(c, out, rest, rq, sent)
    PROVE  LossyFlow(c, out, rest, Append(rq, Byte(c, sent + 1)), sent + 1)
<1>1. PICK k \in Nat :
        /\ LastOf(out) <= k /\ Runs(rest, c, k) /\ Runs(rq, c, k + Len(rest))
        /\ sent = k + Len(rest) + Len(rq)
  BY DEF LossyFlow
<1>2. Len(rq) \in Nat /\ Len(rest) \in Nat
  OBVIOUS
<1>3. Byte(c, sent + 1) \in Bytes
  BY DEF Bytes, Byte
<1>4. sent + 1 = (k + Len(rest)) + Len(rq) + 1 /\ k + Len(rest) \in Nat
  BY <1>1, <1>2
<1>5. /\ Runs(Append(rq, Byte(c, sent + 1)), c, k + Len(rest))
      /\ Len(Append(rq, Byte(c, sent + 1))) = Len(rq) + 1
  BY <1>1, <1>3, <1>4, RunsAppend
<1>. QED  BY <1>1, <1>2, <1>4, <1>5 DEF LossyFlow

\* The rest of the buffer is dropped.
LEMMA LossyDrops ==
    ASSUME NEW c \in Conns, NEW out \in Seq(Bytes), NEW rest \in Seq(Bytes),
           NEW rq \in Seq(Bytes), NEW sent \in Nat, LossyFlow(c, out, rest, rq, sent)
    PROVE  LossyFlow(c, out, << >>, rq, sent)
<1>1. PICK k \in Nat :
        /\ LastOf(out) <= k /\ Runs(rest, c, k) /\ Runs(rq, c, k + Len(rest))
        /\ sent = k + Len(rest) + Len(rq)
  BY DEF LossyFlow
<1>2. Len(rq) \in Nat /\ Len(rest) \in Nat /\ Len(<< >>) = 0 /\ LastOf(out) \in Nat
  BY EmptySeq, LastTypes
<1> DEFINE m == k + Len(rest)
<1>3. /\ m \in Nat /\ LastOf(out) <= m /\ m + Len(<< >>) = m
      /\ sent = m + Len(<< >>) + Len(rq)
  BY <1>1, <1>2
<1>4. Runs(<< >>, c, m)
  BY <1>2 DEF Runs
<1>5. Runs(rq, c, m + Len(<< >>))
  BY <1>1, <1>3
<1> HIDE DEF m
<1>. QED  BY <1>3, <1>4, <1>5 DEF LossyFlow

\* The front of the queue moves to the buffer.
LEMMA LossyReads ==
    ASSUME NEW c \in Conns, NEW out \in Seq(Bytes), NEW rq \in Seq(Bytes), NEW sent \in Nat,
           NEW m \in 0 .. Len(rq), LossyFlow(c, out, << >>, rq, sent)
    PROVE  LossyFlow(c, out, SubSeq(rq, 1, m), SubSeq(rq, m + 1, Len(rq)), sent)
<1> DEFINE got == SubSeq(rq, 1, m)
           left == SubSeq(rq, m + 1, Len(rq))
<1>1. Len(rq) \in Nat /\ Len(<< >>) = 0
  BY EmptySeq
<1>2. ASSUME NEW k \in Nat, LastOf(out) <= k, Runs(rq, c, k), sent = k + Len(rq)
      PROVE  LossyFlow(c, out, got, left, sent)
  <2>1. /\ Runs(got, c, k) /\ Runs(left, c, k + m)
        /\ Len(got) = m /\ Len(left) = Len(rq) - m
    <3>1. m \in 0 .. Len(rq) /\ rq \in Seq(Bytes) /\ Runs(rq, c, k) /\ k \in Nat
      BY <1>2
    <3>2. Runs(got, c, k) /\ Len(got) = m
      BY <3>1, RunsSplit
    <3>3. Runs(left, c, k + m)
      BY <3>1, RunsSplit
    <3>4. Len(left) = Len(rq) - m
      BY <3>1, RunsSplit
    <3> QED  BY <3>2, <3>3, <3>4
  <2> HIDE DEF got, left
  <2>2. Runs(left, c, k + Len(got)) /\ sent = k + Len(got) + Len(left)
    BY <1>1, <1>2, <2>1
  <2> QED  BY <1>2, <2>1, <2>2 DEF LossyFlow
<1>3. PICK k \in Nat :
        /\ LastOf(out) <= k /\ Runs(rq, c, k + Len(<< >>)) /\ sent = k + Len(<< >>) + Len(rq)
  BY DEF LossyFlow
<1>4. k + Len(<< >>) = k
  BY <1>1
<1> QED  BY <1>2, <1>3, <1>4

\* The front of the buffer moves to the echo.
LEMMA LossyWrites ==
    ASSUME NEW c \in Conns, NEW out \in Seq(Bytes), NEW rest \in Seq(Bytes),
           NEW rq \in Seq(Bytes), NEW sent \in Nat, LossyFlow(c, out, rest, rq, sent),
           NEW n \in 1 .. Len(rest)
    PROVE  /\ n \in 1 .. sent - LastOf(out)
           /\ \E next \in [1 .. n -> LastOf(out) + 1 .. sent] :
                /\ \A j, l \in 1 .. n : j < l => next[j] < next[l]
                /\ SubSeq(rest, 1, n) = [j \in 1 .. n |-> Byte(c, next[j])]
           /\ LossyFlow(c, out \o SubSeq(rest, 1, n), SubSeq(rest, n + 1, Len(rest)), rq, sent)
<1> DEFINE front == SubSeq(rest, 1, n)
           back == SubSeq(rest, n + 1, Len(rest))
           last == LastOf(out)
<1>1. PICK k \in Nat :
        /\ last <= k /\ Runs(rest, c, k) /\ Runs(rq, c, k + Len(rest))
        /\ sent = k + Len(rest) + Len(rq)
  BY DEF LossyFlow
<1>2. Len(out) \in Nat /\ Len(rq) \in Nat /\ Len(rest) \in Nat /\ last \in Nat
  BY LastTypes
<1>3. n \in 0 .. Len(rest)
  BY <1>2
<1>4. /\ Runs(front, c, k) /\ Runs(back, c, k + n)
      /\ front \in Seq(Bytes) /\ Len(front) = n /\ Len(back) = Len(rest) - n
  BY <1>1, <1>3, RunsSplit
<1>5. front = [j \in 1 .. n |-> front[j]]
  BY <1>4
<1>6. /\ out \o front \in Seq(Bytes) /\ Len(out \o front) = Len(out) + n
      /\ \A j \in 1 .. Len(out) + Len(front) : (out \o front)[j] =
              IF j <= Len(out) THEN out[j] ELSE front[j - Len(out)]
  BY <1>4, ConcatProperties
<1> HIDE DEF front, back, last
<1> DEFINE next == [j \in 1 .. n |-> k + j]
<1>7. /\ n \in 1 .. sent - last
      /\ next \in [1 .. n -> last + 1 .. sent]
      /\ \A j, l \in 1 .. n : j < l => next[j] < next[l]
  BY <1>1, <1>2
<1>8. front = [j \in 1 .. n |-> Byte(c, next[j])]
  BY <1>4, <1>5 DEF Runs
<1> HIDE DEF next
<1>9. \E f \in [1 .. n -> last + 1 .. sent] :
        /\ \A j, l \in 1 .. n : j < l => f[j] < f[l]
        /\ front = [j \in 1 .. n |-> Byte(c, f[j])]
  BY <1>7, <1>8
<1>10. LastOf(out \o front) = k + n
  <2>1. (out \o front)[Len(out) + n] = front[n]
    <3>1. Len(out) + n \in 1 .. Len(out) + Len(front) /\ ~(Len(out) + n <= Len(out))
          /\ (Len(out) + n) - Len(out) = n
      BY <1>2, <1>4
    <3>. QED  BY <1>6, <3>1
  <2>2. front[n] = Byte(c, k + n)
    BY <1>4 DEF Runs
  <2>3. Byte(c, k + n)[2] = k + n
    BY DEF Byte
  <2>4. out \o front # << >>
    BY <1>2, <1>6, EmptySeq
  <2>. QED  BY <1>6, <2>1, <2>2, <2>3, <2>4 DEF LastOf
<1>11. /\ k + n \in Nat /\ k + n <= k + n
       /\ (k + n) + Len(back) = k + Len(rest)
       /\ sent = (k + n) + Len(back) + Len(rq)
  BY <1>1, <1>2, <1>4
<1>12. LossyFlow(c, out \o front, back, rq, sent)
  BY <1>1, <1>4, <1>10, <1>11 DEF LossyFlow
<1>. QED  BY <1>7, <1>9, <1>12 DEF front, back, last

LEMMA LossySentFlows ==
    ASSUME NEW s \in Sockets, NEW c \in Conns, NEW rest \in Seq(Bytes), LossySockFlow(c, s, rest)
    PROVE  LossySockFlow(c, RecvByte(s, c), rest)
<1>1. s.out \in Seq(Bytes) /\ s.rq \in Seq(Bytes) /\ s.sent \in Nat
  BY DEF Sockets
<1>2. LossyFlow(c, s.out, rest, s.rq, s.sent)
  BY DEF LossySockFlow
<1>3. LossyFlow(c, s.out, rest, Append(s.rq, Byte(c, s.sent + 1)), s.sent + 1)
  BY <1>1, <1>2, LossySends
<1>. QED  BY <1>3, ReceivedFields DEF LossySockFlow

LEMMA LossyReadFlows ==
    ASSUME NEW s \in Sockets, NEW c \in Conns, NEW n \in Nat, LossySockFlow(c, s, << >>)
    PROVE  LossySockFlow(c, AfterRead(s, n), ReadBytes(s, n))
<1>1. s.out \in Seq(Bytes) /\ s.rq \in Seq(Bytes) /\ s.sent \in Nat /\ Len(s.rq) \in Nat
  BY DEF Sockets
<1>2. LossyFlow(c, s.out, << >>, s.rq, s.sent)
  BY DEF LossySockFlow
<1>3. ReadLen(s, n) \in 0 .. Len(s.rq)
  BY <1>1 DEF ReadLen, Smaller
<1>4. LossyFlow(c, s.out, SubSeq(s.rq, 1, ReadLen(s, n)),
                SubSeq(s.rq, ReadLen(s, n) + 1, Len(s.rq)), s.sent)
  BY <1>1, <1>2, <1>3, LossyReads
<1>5. /\ AfterRead(s, n).sent = s.sent
      /\ AfterRead(s, n).out = s.out
      /\ AfterRead(s, n).rq = SubSeq(s.rq, ReadLen(s, n) + 1, Len(s.rq))
  BY DEF AfterRead, Sockets
<1>. QED  BY <1>4, <1>5 DEF LossySockFlow, ReadBytes

LEMMA LossyWriteFlows ==
    ASSUME NEW s \in Sockets, NEW c \in Conns, NEW rest \in Seq(Bytes), rest # << >>,
           SendRoom(s) > 0, LossySockFlow(c, s, rest)
    PROVE  /\ LossySockFlow(c, AfterWrite(s, rest), << >>)
           /\ \E n \in 1 .. s.sent - LastOf(s.out) :
              \E next \in [1 .. n -> LastOf(s.out) + 1 .. s.sent] :
                /\ \A j, l \in 1 .. n : j < l => next[j] < next[l]
                /\ AfterWrite(s, rest).out = s.out \o [j \in 1 .. n |-> Byte(c, next[j])]
<1> DEFINE n == WriteLen(s, Len(rest))
           back == SubSeq(rest, n + 1, Len(rest))
<1>1. s.out \in Seq(Bytes) /\ s.rq \in Seq(Bytes) /\ s.sent \in Nat /\ Len(rest) \in Nat \ {0}
  BY EmptySeq DEF Sockets
<1>2. LossyFlow(c, s.out, rest, s.rq, s.sent)
  BY DEF LossySockFlow
<1>3. SendRoom(s) \in Int
  BY SndBufAssumption DEF SendRoom, Sockets
<1>4. n \in 1 .. Len(rest)
  BY <1>1, <1>3 DEF WriteLen, Smaller
<1>5. /\ AfterWrite(s, rest).sent = s.sent
      /\ AfterWrite(s, rest).rq = s.rq
      /\ AfterWrite(s, rest).out = s.out \o SubSeq(rest, 1, n)
  BY DEF AfterWrite, Sockets
<1> HIDE DEF n
<1>6. /\ n \in 1 .. s.sent - LastOf(s.out)
      /\ \E next \in [1 .. n -> LastOf(s.out) + 1 .. s.sent] :
            /\ \A j, l \in 1 .. n : j < l => next[j] < next[l]
            /\ SubSeq(rest, 1, n) = [j \in 1 .. n |-> Byte(c, next[j])]
      /\ LossyFlow(c, s.out \o SubSeq(rest, 1, n), back, s.rq, s.sent)
  BY <1>1, <1>2, <1>4, LossyWrites
<1>7. s.out \o SubSeq(rest, 1, n) \in Seq(Bytes) /\ back \in Seq(Bytes)
  <2>1. \A j \in 1 .. Len(rest) : rest[j] \in Bytes
    BY ElementOfSeq
  <2>2. SubSeq(rest, 1, n) \in Seq(Bytes) /\ back \in Seq(Bytes)
    BY <1>1, <1>4, <2>1, SubSeqProperties
  <2>. QED  BY <1>1, <2>2, ConcatProperties
<1> HIDE DEF back
<1>8. LossyFlow(c, s.out \o SubSeq(rest, 1, n), << >>, s.rq, s.sent)
  BY <1>1, <1>6, <1>7, LossyDrops
<1>9. LossySockFlow(c, AfterWrite(s, rest), << >>)
  BY <1>5, <1>8 DEF LossySockFlow
<1>. QED  BY <1>5, <1>6, <1>9

=============================================================================
