------------------------ MODULE NetConnectionProofs ------------------------
(***************************************************************************)
(* Proofs about NetConnection for any number of sequence numbers, any size *)
(* of packets and buffers and any network.  The types are those of every   *)
(* behaviour; what a connection promises is proved for one that is not     *)
(* taken over, whose window fits in m_Buffer and in half of the sequence   *)
(* numbers: with a takeover the runs show that it does not hold.           *)
(***************************************************************************)
EXTENDS NetConnection, FiniteSetTheorems, TLAPS

-----------------------------------------------------------------------------
(* Sequence numbers. *)

\* The difference of two numbers less than a circle apart, on the circle.
LEMMA CircleDifference ==
    ASSUME NEW a \in Nat, NEW b \in Nat, a <= b, b - a < MaxSequence
    PROVE  \/ (b % MaxSequence) - (a % MaxSequence) = b - a
           \/ (b % MaxSequence) - (a % MaxSequence) = b - a - MaxSequence
<1> DEFINE qa == a \div MaxSequence
           qb == b \div MaxSequence
           ra == a % MaxSequence
           rb == b % MaxSequence
<1>0. MaxSequence \in Nat \ {0}
  BY ConnectionAssumption
<1>1. a = (MaxSequence * qa) + ra /\ qa \in Int /\ ra \in Nat /\ ra < MaxSequence
  BY <1>0
<1>2. b = (MaxSequence * qb) + rb /\ qb \in Int /\ rb \in Nat /\ rb < MaxSequence
  BY <1>0
<1> HIDE DEF qa, qb, ra, rb
<1>3. rb - ra = b - a - (MaxSequence * (qb - qa))
  BY <1>0, <1>1, <1>2
<1>4. CASE qb - qa = 0
  <2>1. rb - ra = b - a
    BY <1>0, <1>1, <1>2, <1>3, <1>4
  <2> QED
    BY <2>1 DEF ra, rb
<1>5. CASE qb - qa = 1
  <2>1. rb - ra = b - a - MaxSequence
    BY <1>0, <1>1, <1>2, <1>3, <1>5
  <2> QED
    BY <2>1 DEF ra, rb
<1>6. CASE qb - qa >= 2
  <2>1. MaxSequence * (qb - qa) >= MaxSequence * 2
    BY <1>0, <1>1, <1>2, <1>6
  <2> QED
    BY <2>1, <1>0, <1>1, <1>2, <1>3
<1>7. CASE qb - qa <= -1
  <2>1. MaxSequence * (qb - qa) <= -MaxSequence
    BY <1>0, <1>1, <1>2, <1>7
  <2> QED
    BY <2>1, <1>0, <1>1, <1>2, <1>3
<1> QED
  BY <1>1, <1>2, <1>4, <1>5, <1>6, <1>7

LEMMA OnCircle ==
    ASSUME NEW a \in Nat
    PROVE  a % MaxSequence \in 0..MaxSequence - 1
BY ConnectionAssumption

\* Two numbers less than a circle apart have different sequence numbers.
LEMMA CircleInjective ==
    ASSUME NEW a \in Nat, NEW b \in Nat,
           a - b < MaxSequence, b - a < MaxSequence,
           a % MaxSequence = b % MaxSequence
    PROVE  a = b
<1>0. MaxSequence \in Nat \ {0}
  BY ConnectionAssumption
<1>1. CASE a <= b
  <2>1. 0 = b - a \/ 0 = b - a - MaxSequence
    BY <1>1, CircleDifference, OnCircle
  <2> QED
    BY <1>0, <2>1
<1>2. CASE b <= a
  <2>1. 0 = a - b \/ 0 = a - b - MaxSequence
    BY <1>2, CircleDifference, OnCircle
  <2> QED
    BY <1>0, <2>1
<1> QED
  BY <1>1, <1>2

\* A number on the circle is its own remainder, and so is one a circle below.
LEMMA CircleRemainder ==
    ASSUME NEW z \in Int, -MaxSequence <= z, z < MaxSequence
    PROVE  z % MaxSequence = IF z < 0 THEN z + MaxSequence ELSE z
<1> DEFINE q == z \div MaxSequence
           r == z % MaxSequence
<1>0. MaxSequence \in Nat \ {0}
  BY ConnectionAssumption
<1>1. z = (MaxSequence * q) + r /\ q \in Int /\ r \in Nat /\ r < MaxSequence
  BY <1>0
<1> HIDE DEF q, r
<1>2. CASE q = 0
  BY <1>0, <1>1, <1>2 DEF r
<1>3. CASE q = -1
  BY <1>0, <1>1, <1>3 DEF r
<1>4. CASE q >= 1
  <2>1. MaxSequence * q >= MaxSequence
    BY <1>0, <1>1, <1>4
  <2> QED
    BY <2>1, <1>0, <1>1
<1>5. CASE q <= -2
  <2>1. MaxSequence * q <= MaxSequence * (-2)
    BY <1>0, <1>1, <1>5
  <2> QED
    BY <2>1, <1>0, <1>1
<1> QED
  BY <1>1, <1>2, <1>3, <1>4, <1>5

\* NextSeq leads to the sequence number of the next message.
LEMMA NextSeqFollows ==
    ASSUME NEW n \in Nat, MaxSequence > 1
    PROVE  NextSeq(n % MaxSequence) = (n + 1) % MaxSequence
<1> DEFINE r == n % MaxSequence
           s == (n + 1) % MaxSequence
<1>0. MaxSequence \in Nat \ {0}
  BY ConnectionAssumption
<1>1. r \in 0..MaxSequence - 1 /\ s \in 0..MaxSequence - 1
  BY OnCircle
<1>2. s - r = 1 \/ s - r = 1 - MaxSequence
  <2>1. /\ n + 1 \in Nat /\ n <= n + 1 /\ (n + 1) - n = 1
        /\ (n + 1) - n < MaxSequence
    BY <1>0
  <2>2. s - r = (n + 1) - n \/ s - r = (n + 1) - n - MaxSequence
    BY <2>1, CircleDifference
  <2> QED
    BY <2>1, <2>2
<1> HIDE DEF r, s
<1>3. CASE r + 1 < MaxSequence
  <2>0. r + 1 \in Int /\ -MaxSequence <= r + 1 /\ ~(r + 1 < 0)
    BY <1>0, <1>1
  <2>1. (r + 1) % MaxSequence = r + 1
    BY <1>3, <2>0, CircleRemainder
  <2> QED
    BY <1>0, <1>1, <1>2, <1>3, <2>1 DEF r, s, NextSeq
<1>4. CASE r + 1 = MaxSequence
  <2>1. (r + 1) % MaxSequence = 0
    BY <1>0, <1>4
  <2> QED
    BY <1>0, <1>1, <1>2, <1>4, <2>1 DEF r, s, NextSeq
<1> QED
  BY <1>0, <1>1, <1>3, <1>4

LEMMA HalfType == Half \in Nat /\ 2 * Half <= MaxSequence /\ MaxSequence <= (2 * Half) + 1
BY ConnectionAssumption DEF Half

\* The backroom of a number are the half circle up to it, and not those shortly
\* after it.
LEMMA Backroom ==
    ASSUME NEW x \in Nat, NEW a \in Nat
    PROVE  /\ x <= a /\ a - x <= Half /\ MaxSequence > 1
                => IsSeqInBackroom(x % MaxSequence, a % MaxSequence)
           /\ a < x /\ x - a < MaxSequence - Half
                => ~IsSeqInBackroom(x % MaxSequence, a % MaxSequence)
<1> DEFINE rx == x % MaxSequence
           ra == a % MaxSequence
<1>0. MaxSequence \in Nat \ {0}
  BY ConnectionAssumption
<1>1. rx \in 0..MaxSequence - 1 /\ ra \in 0..MaxSequence - 1
  BY OnCircle
<1>2. Half \in Nat /\ 2 * Half <= MaxSequence
  BY HalfType
<1>3. ASSUME x <= a, a - x <= Half, MaxSequence > 1
      PROVE  ra - rx = a - x \/ ra - rx = a - x - MaxSequence
  <2>1. a - x < MaxSequence
    BY <1>0, <1>2, <1>3
  <2> QED
    BY <1>3, <2>1, CircleDifference
<1>4. ASSUME a < x, x - a < MaxSequence - Half
      PROVE  rx - ra = x - a \/ rx - ra = x - a - MaxSequence
  <2>1. x - a < MaxSequence /\ a <= x
    BY <1>0, <1>2, <1>4
  <2> QED
    BY <1>4, <2>1, CircleDifference
<1> HIDE DEF rx, ra
<1>5. ASSUME x <= a, a - x <= Half, MaxSequence > 1
      PROVE  IsSeqInBackroom(rx, ra)
  BY <1>0, <1>1, <1>2, <1>3, <1>5 DEF IsSeqInBackroom
<1>6. ASSUME a < x, x - a < MaxSequence - Half
      PROVE  ~IsSeqInBackroom(rx, ra)
  BY <1>0, <1>1, <1>2, <1>4, <1>6 DEF IsSeqInBackroom
<1> QED
  BY <1>5, <1>6 DEF rx, ra

-----------------------------------------------------------------------------
(* Chunks. *)

\* The chunks in s carry messages up to n and their sequence numbers.
Numbered(s, n) ==
    \A i \in 1..Len(s): s[i].id \in 1..n /\ s[i].seq = s[i].id % MaxSequence

LEMMA Part ==
    ASSUME NEW S, NEW s \in Seq(S), NEW m \in Nat \ {0}, NEW n \in Nat, n <= Len(s)
    PROVE  /\ SubSeq(s, m, n) \in Seq(S)
           /\ Len(SubSeq(s, m, n)) = IF m <= n THEN n - m + 1 ELSE 0
           /\ \A i \in 1..Len(SubSeq(s, m, n)): /\ m + i - 1 \in 1..Len(s)
                                               /\ SubSeq(s, m, n)[i] = s[m + i - 1]
OBVIOUS

LEMMA NumberedPart ==
    ASSUME NEW s \in Seq(Chunk), NEW m \in Nat \ {0}, NEW k \in Nat, k <= Len(s),
           NEW n \in Nat, Numbered(s, n)
    PROVE  Numbered(SubSeq(s, m, k), n)
BY Part DEF Numbered

LEMMA NumberedBoth ==
    ASSUME NEW s \in Seq(Chunk), NEW t \in Seq(Chunk), NEW n \in Nat,
           Numbered(s, n), Numbered(t, n)
    PROVE  Numbered(s \o t, n)
<1> SUFFICES ASSUME NEW i \in 1..Len(s \o t)
             PROVE  (s \o t)[i].id \in 1..n /\ (s \o t)[i].seq = (s \o t)[i].id % MaxSequence
  BY DEF Numbered
<1>1. CASE i <= Len(s)
  <2>1. (s \o t)[i] = s[i] /\ i \in 1..Len(s)
    BY <1>1
  <2> QED
    BY <2>1 DEF Numbered
<1>2. CASE i > Len(s)
  <2>1. (s \o t)[i] = t[i - Len(s)] /\ i - Len(s) \in 1..Len(t)
    BY <1>2
  <2> QED
    BY <2>1 DEF Numbered
<1> QED
  BY <1>1, <1>2

LEMMA NumberedMore ==
    ASSUME NEW s \in Seq(Chunk), NEW n \in Nat, NEW k \in Nat, n <= k, Numbered(s, n)
    PROVE  Numbered(s, k)
BY DEF Numbered

LEMMA PacketType ==
    ASSUME TypeOK, NEW e \in End, NEW c \in Construct
    PROVE  /\ PacketOf(e, c) \in Packet
           /\ PacketOf(e, c).to = Peer(e) /\ PacketOf(e, c).ack = ack[e]
           /\ PacketOf(e, c).after = Len(got[e]) /\ PacketOf(e, c).chunks = c.chunks
<1>1. ack[e] \in 0..MaxSequence - 1 /\ Len(got[e]) \in Nat
  BY DEF TypeOK
<1>2. Peer(e) \in End
  BY DEF Peer, End
<1>3. c.chunks \in Seq(Chunk) /\ c.resend \in BOOLEAN
  BY DEF Construct
<1> QED
  BY <1>1, <1>2, <1>3 DEF PacketOf, Packet

\* How the chunks queued are divided into packets.
LEMMA Division ==
    ASSUME TypeOK, NEW e \in End, NEW more \in Seq(Chunk)
    PROVE  /\ Queued(e, more) \in Seq(Chunk)
           /\ Len(Queued(e, more)) = Len(construct[e].chunks) + Len(more)
           /\ FullPackets(e, more) \in Nat
           /\ FullPackets(e, more) * PacketSize <= Len(Queued(e, more))
           /\ IF more = <<>> THEN FullPackets(e, more) = 0
              ELSE Len(Queued(e, more)) - (FullPackets(e, more) * PacketSize) \in 1..PacketSize
<1>0. PacketSize \in Nat \ {0}
  BY ConnectionAssumption
<1>1. construct[e].chunks \in Seq(Chunk)
  BY DEF TypeOK, Construct
<1>2. /\ Queued(e, more) \in Seq(Chunk)
      /\ Len(Queued(e, more)) = Len(construct[e].chunks) + Len(more)
  BY <1>1 DEF Queued
<1>3. CASE more = <<>>
  BY <1>0, <1>1, <1>2, <1>3 DEF FullPackets
<1>4. CASE more # <<>>
  <2> DEFINE L == Len(Queued(e, more)) - 1
             n == L \div PacketSize
             r == L % PacketSize
  <2>1. L \in Nat
    BY <1>1, <1>2, <1>4
  <2>2. L = (PacketSize * n) + r /\ n \in Int /\ r \in 0..PacketSize - 1
    BY <1>0, <2>1
  <2>3. FullPackets(e, more) = n
    BY <1>4 DEF FullPackets
  <2>4. Len(Queued(e, more)) = L + 1
    BY <1>2
  <2> HIDE DEF L, n, r
  <2>5. n >= 0
    <3>1. CASE n <= -1
      <4>1. PacketSize * n <= -PacketSize
        BY <1>0, <2>2, <3>1
      <4> QED
        BY <1>0, <2>1, <2>2, <4>1
    <3> QED
      BY <2>2, <3>1
  <2>6. n * PacketSize = PacketSize * n /\ n * PacketSize \in Int
    BY <1>0, <2>2
  <2>7. n * PacketSize = L - r
    BY <1>0, <2>1, <2>2, <2>6
  <2>8. n * PacketSize <= L + 1 /\ (L + 1) - (n * PacketSize) \in 1..PacketSize
    BY <1>0, <2>1, <2>2, <2>6, <2>7
  <2> QED
    BY <1>2, <1>4, <2>2, <2>3, <2>4, <2>5, <2>8
<1> QED
  BY <1>3, <1>4

\* What Queue leaves under construction.
LEMMA RemainingChunks ==
    ASSUME TypeOK, NEW e \in End, NEW more \in Seq(Chunk), NEW n \in Nat
    PROVE  /\ Remaining(e, more) \in Construct
           /\ Len(construct[e].chunks) <= PacketSize => Len(Remaining(e, more).chunks) <= PacketSize
           /\ Numbered(construct[e].chunks, n) /\ Numbered(more, n)
                => Numbered(Remaining(e, more).chunks, n)
<1> DEFINE q == Queued(e, more)
           k == FullPackets(e, more)
           c == Remaining(e, more).chunks
<1>0. PacketSize \in Nat \ {0} /\ construct[e].chunks \in Seq(Chunk) /\ construct[e].resend \in BOOLEAN
  BY ConnectionAssumption DEF TypeOK, Construct
<1>1. /\ q \in Seq(Chunk) /\ k \in Nat /\ k * PacketSize <= Len(q)
      /\ Len(q) = Len(construct[e].chunks) + Len(more)
      /\ IF more = <<>> THEN k = 0 ELSE Len(q) - (k * PacketSize) \in 1..PacketSize
  BY Division
<1>2. k * PacketSize \in Nat
  BY <1>0, <1>1
<1>3. /\ c = SubSeq(q, (k * PacketSize) + 1, Len(q))
      /\ Remaining(e, more) = [chunks |-> c, resend |-> construct[e].resend /\ k = 0]
  BY DEF Remaining
<1>4. q = construct[e].chunks \o more
  BY DEF Queued
<1> HIDE DEF q, k, c
<1>5. (k * PacketSize) + 1 \in Nat \ {0} /\ Len(q) \in Nat
  BY <1>1, <1>2
<1>6. c \in Seq(Chunk) /\ Len(c) = Len(q) - (k * PacketSize)
  <2>1. /\ c \in Seq(Chunk)
        /\ Len(c) = IF (k * PacketSize) + 1 <= Len(q) THEN Len(q) - ((k * PacketSize) + 1) + 1 ELSE 0
    BY <1>1, <1>3, <1>5, Part
  <2> QED
    BY <1>1, <1>2, <1>5, <2>1
<1>7. Remaining(e, more) \in Construct
  BY <1>0, <1>3, <1>6 DEF Construct
<1>8. Len(construct[e].chunks) <= PacketSize => Len(c) <= PacketSize
  <2>1. CASE more = <<>>
    <3>1. k * PacketSize = 0 /\ Len(q) = Len(construct[e].chunks)
      BY <1>0, <1>1, <2>1
    <3> QED
      BY <1>6, <3>1
  <2>2. CASE more # <<>>
    BY <1>0, <1>1, <1>6, <2>2
  <2> QED
    BY <2>1, <2>2
<1>9. Numbered(construct[e].chunks, n) /\ Numbered(more, n) => Numbered(c, n)
  <2> HAVE Numbered(construct[e].chunks, n) /\ Numbered(more, n)
  <2>1. Numbered(q, n)
    BY <1>0, <1>4, NumberedBoth
  <2>2. Numbered(SubSeq(q, (k * PacketSize) + 1, Len(q)), n)
    BY <1>1, <1>5, <2>1, NumberedPart
  <2> QED
    BY <1>3, <2>2
<1> QED
  BY <1>7, <1>8, <1>9 DEF c

\* The packets that Queue flushes are full.
LEMMA FlushedPackets ==
    ASSUME TypeOK, NEW e \in End, NEW more \in Seq(Chunk), NEW n \in Nat,
           NEW p \in Flushed(e, more)
    PROVE  /\ p \in Packet
           /\ p.to = Peer(e) /\ p.ack = ack[e] /\ p.after = Len(got[e])
           /\ Len(p.chunks) <= PacketSize
           /\ Numbered(construct[e].chunks, n) /\ Numbered(more, n) => Numbered(p.chunks, n)
<1> DEFINE q == Queued(e, more)
           k == FullPackets(e, more)
<1>0. PacketSize \in Nat \ {0} /\ construct[e].chunks \in Seq(Chunk) /\ construct[e].resend \in BOOLEAN
  BY ConnectionAssumption DEF TypeOK, Construct
<1>1. q \in Seq(Chunk) /\ k \in Nat /\ k * PacketSize <= Len(q)
  BY Division
<1>2. PICK j \in 1..k: p = PacketOf(e, [chunks |-> Slice(q, j), resend |-> construct[e].resend /\ j = 1])
  BY DEF Flushed
<1>3. q = construct[e].chunks \o more
  BY DEF Queued
<1> HIDE DEF q, k
<1>4. /\ j * PacketSize \in Nat /\ (j - 1) * PacketSize \in Nat
      /\ (j - 1) * PacketSize = (j * PacketSize) - PacketSize
      /\ j * PacketSize <= Len(q)
  <2>1. j * PacketSize <= k * PacketSize /\ k * PacketSize \in Nat
    BY <1>0, <1>1
  <2>2. /\ j * PacketSize \in Nat /\ (j - 1) * PacketSize \in Nat
        /\ (j - 1) * PacketSize = (j * PacketSize) - PacketSize
    BY <1>0, <1>1
  <2> QED
    BY <1>1, <2>1, <2>2
<1>5. /\ Slice(q, j) = SubSeq(q, ((j - 1) * PacketSize) + 1, j * PacketSize)
      /\ ((j - 1) * PacketSize) + 1 \in Nat \ {0}
  BY <1>4 DEF Slice
<1>6. Slice(q, j) \in Seq(Chunk) /\ Len(Slice(q, j)) <= PacketSize
  <2>1. ((j - 1) * PacketSize) + 1 <= j * PacketSize
    BY <1>0, <1>4
  <2>2. /\ Slice(q, j) \in Seq(Chunk)
        /\ Len(Slice(q, j)) = (j * PacketSize) - (((j - 1) * PacketSize) + 1) + 1
    BY <1>1, <1>4, <1>5, <2>1, Part
  <2> QED
    BY <1>0, <1>4, <2>2
<1>7. Numbered(construct[e].chunks, n) /\ Numbered(more, n) => Numbered(Slice(q, j), n)
  <2> HAVE Numbered(construct[e].chunks, n) /\ Numbered(more, n)
  <2>1. Numbered(q, n)
    BY <1>0, <1>3, NumberedBoth
  <2>2. Numbered(SubSeq(q, ((j - 1) * PacketSize) + 1, j * PacketSize), n)
    BY <1>1, <1>4, <1>5, <2>1, NumberedPart
  <2> QED
    BY <1>5, <2>2
<1>8. p = PacketOf(e, [chunks |-> Slice(q, j), resend |-> construct[e].resend /\ j = 1])
  BY <1>2
<1>9. /\ [chunks |-> Slice(q, j), resend |-> construct[e].resend /\ j = 1] \in Construct
      /\ p.chunks = Slice(q, j)
  BY <1>0, <1>6, <1>8 DEF PacketOf, Construct
<1> QED
  BY <1>6, <1>7, <1>8, <1>9, PacketType

\* What Queue leaves under construction and sends.
LEMMA Queueing ==
    ASSUME TypeOK, NEW e \in End, NEW more \in Seq(Chunk), NEW flush \in BOOLEAN,
           NEW onTheirWay \in SUBSET net, Queue(e, more, flush, onTheirWay)
    PROVE  /\ construct' \in [End -> Construct]
           /\ net' \subseteq Packet
           /\ \A x \in End \ {e}: construct'[x] = construct[x]
           /\ \A p \in net' \ net: p.to = Peer(e) /\ p.ack = ack[e] /\ p.after = Len(got[e])
           /\ \A n \in Nat:
                 /\ Len(construct[e].chunks) <= PacketSize
                 /\ Numbered(construct[e].chunks, n) /\ Numbered(more, n)
                 => /\ Len(construct'[e].chunks) <= PacketSize
                    /\ Numbered(construct'[e].chunks, n)
                    /\ \A p \in net' \ net: Len(p.chunks) <= PacketSize /\ Numbered(p.chunks, n)
<1> DEFINE rest == Remaining(e, more)
           last == IF flush THEN Flush(e, rest) ELSE {}
           c == IF flush THEN Nothing ELSE rest
<1>0. PacketSize \in Nat \ {0} /\ construct \in [End -> Construct] /\ net \subseteq Packet
  BY ConnectionAssumption DEF TypeOK
<1>1. construct' = [construct EXCEPT ![e] = c]
  BY DEF Queue
<1>2. net' \subseteq onTheirWay \cup (Flushed(e, more) \cup last)
  BY DEF Queue, Transmit
<1>3. rest \in Construct
  BY RemainingChunks, 0 \in Nat
<1>4. Nothing \in Construct /\ Len(Nothing.chunks) = 0
  BY DEF Nothing, Construct
<1>5. c \in Construct
  BY <1>3, <1>4
<1>6. last \subseteq {PacketOf(e, rest)}
  BY DEF Flush
<1>7. \A p \in last: /\ p \in Packet /\ p.to = Peer(e) /\ p.ack = ack[e]
                     /\ p.after = Len(got[e]) /\ p.chunks = rest.chunks
  BY <1>3, <1>6, PacketType
<1>8. \A p \in Flushed(e, more):
         /\ p \in Packet /\ p.to = Peer(e) /\ p.ack = ack[e] /\ p.after = Len(got[e])
  BY FlushedPackets, 0 \in Nat
<1>9. ASSUME NEW n \in Nat, Len(construct[e].chunks) <= PacketSize,
             Numbered(construct[e].chunks, n), Numbered(more, n)
      PROVE  /\ Len(c.chunks) <= PacketSize /\ Numbered(c.chunks, n)
             /\ \A p \in Flushed(e, more) \cup last:
                   Len(p.chunks) <= PacketSize /\ Numbered(p.chunks, n)
  <2>1. Len(rest.chunks) <= PacketSize /\ Numbered(rest.chunks, n)
    BY <1>9, RemainingChunks
  <2>2. Len(Nothing.chunks) <= PacketSize /\ Numbered(Nothing.chunks, n)
    BY <1>0, <1>4 DEF Numbered
  <2>3. \A p \in Flushed(e, more): Len(p.chunks) <= PacketSize /\ Numbered(p.chunks, n)
    BY <1>9, FlushedPackets
  <2> HIDE DEF rest, last
  <2> QED
    BY <1>7, <2>1, <2>2, <2>3
<1> HIDE DEF rest, last, c
<1>10. construct'[e] = c /\ construct' \in [End -> Construct]
       /\ \A x \in End \ {e}: construct'[x] = construct[x]
  BY <1>0, <1>1, <1>5
<1>11. net' \ net \subseteq Flushed(e, more) \cup last
  BY <1>2
<1>12. net' \subseteq Packet /\ \A p \in net' \ net: p.to = Peer(e) /\ p.ack = ack[e] /\ p.after = Len(got[e])
  BY <1>0, <1>7, <1>8, <1>11
<1> QED
  BY <1>9, <1>10, <1>11, <1>12

-----------------------------------------------------------------------------
(* Types. *)

\* A connection is given up only while the client may still come back.
GivenUpInv == \A e \in End: state[e] = "error" => reconnects < MaxReconnects

LEMMA InitTypes == Init => TypeOK /\ GivenUpInv
<1> SUFFICES ASSUME Init
             PROVE  TypeOK /\ GivenUpInv
  OBVIOUS
<1>1. 0 \in 0..MaxSequence - 1 /\ 0 \in 0..MaxReconnects /\ 0 \in 0..MaxReuses
  BY ConnectionAssumption
<1>2. Nothing \in Construct
  BY DEF Nothing, Construct
<1>3. <<>> \in Seq(Chunk) /\ <<>> \in Seq(Nat)
  OBVIOUS
<1>4. /\ sequence \in [End -> 0..MaxSequence - 1] /\ ack \in [End -> 0..MaxSequence - 1]
      /\ peerAck \in [End -> 0..MaxSequence - 1] /\ sent \in [End -> Nat]
  BY <1>1 DEF Init, Each
<1>5. /\ buffer \in [End -> Seq(Chunk)] /\ inbox \in [End -> Seq(Chunk)]
      /\ got \in [End -> Seq(Nat)] /\ construct \in [End -> Construct]
  BY <1>2, <1>3 DEF Init, Each
<1>6. state \in [End -> {"online", "error"}]
  BY DEF Init, Each
<1>7. /\ net = {} /\ parked = {} /\ freed = FALSE /\ borrowed = {}
      /\ reconnects = 0 /\ reuses = 0 /\ \A e \in End: state[e] # "error"
  BY DEF Init, Each
<1> QED
  BY <1>1, <1>4, <1>5, <1>6, <1>7 DEF TypeOK, GivenUpInv

LEMMA BufferTypes ==
    ASSUME TypeOK, NEW e \in End, NEW a
    PROVE  AfterAck(buffer[e], a) \in Seq(Chunk)
<1> DEFINE b == buffer[e]
           n == Cardinality(Acked(b, a))
<1>1. b \in Seq(Chunk)
  BY DEF TypeOK
<1>2. IsFiniteSet(Acked(b, a)) /\ n <= Len(b) /\ n \in Nat
  <2>1. IsFiniteSet(1..Len(b)) /\ Cardinality(1..Len(b)) = Len(b)
    BY <1>1, FS_Interval
  <2>2. Acked(b, a) \subseteq 1..Len(b)
    BY DEF Acked
  <2> QED
    BY <2>1, <2>2, FS_Subset, FS_CardinalityType
<1> HIDE DEF b, n
<1>3. SubSeq(b, n + 1, Len(b)) \in Seq(Chunk)
  BY <1>1, <1>2, Part
<1> QED
  BY <1>3 DEF AfterAck, b, n

LEMMA ForeignChunk ==
    ASSUME NEW c \in Chunk
    PROVE  [c EXCEPT !.id = Foreign] \in Chunk
<1>1. Foreign \in Nat
  BY DEF Foreign
<1> QED
  BY <1>1 DEF Chunk

LEMMA DisownTypes ==
    ASSUME NEW c \in Construct
    PROVE  Disown(c) \in Construct
<1>1. c.chunks \in Seq(Chunk)
  BY DEF Construct
<1>2. [i \in 1..Len(c.chunks) |-> [c.chunks[i] EXCEPT !.id = Foreign]] \in Seq(Chunk)
  <2>1. \A i \in 1..Len(c.chunks): [c.chunks[i] EXCEPT !.id = Foreign] \in Chunk
    BY <1>1, ForeignChunk
  <2>2. Len(c.chunks) \in Nat
    BY <1>1
  <2> QED
    BY <2>1, <2>2
<1> QED
  BY <1>2 DEF Disown, Construct

LEMMA NextTypes == TypeOK /\ GivenUpInv /\ [Next]_vars => TypeOK' /\ GivenUpInv'
<1> SUFFICES ASSUME TypeOK, GivenUpInv, [Next]_vars
             PROVE  TypeOK' /\ GivenUpInv'
  OBVIOUS
<1> USE DEF endVars, slotVars
<1>0. /\ \A x \in Int: x % MaxSequence \in 0..MaxSequence - 1
      /\ 0 \in 0..MaxSequence - 1
  BY ConnectionAssumption
<1>1. ASSUME NEW e \in End, Send(e)
      PROVE  TypeOK'
  <2> DEFINE chunk == [seq |-> NextSeq(sequence[e]), id |-> sent[e] + 1]
  <2>1. chunk \in Chunk
    <3>1. sequence[e] + 1 \in Int /\ sent[e] + 1 \in Nat
      BY ConnectionAssumption DEF TypeOK
    <3>2. NextSeq(sequence[e]) \in 0..MaxSequence - 1
      BY <1>0, <3>1 DEF NextSeq
    <3> QED
      BY <3>1, <3>2 DEF Chunk
  <2>2. <<chunk>> \in Seq(Chunk)
    BY <2>1
  <2>3. \E flush \in BOOLEAN: Queue(e, <<chunk>>, flush, net)
    BY <1>1 DEF Send
  <2>4. construct' \in [End -> Construct] /\ net' \subseteq Packet
    BY <2>2, <2>3, Queueing
  <2>5. /\ sequence' = [sequence EXCEPT ![e] = chunk.seq]
        /\ sent' = [sent EXCEPT ![e] = @ + 1]
        /\ UNCHANGED <<state, ack, peerAck, inbox, got, slotVars>>
        /\ \/ buffer' = [buffer EXCEPT ![e] = Append(@, chunk)]
           \/ buffer' = [buffer EXCEPT ![e] = @]
    BY <1>1 DEF Send
  <2>6. chunk.seq \in 0..MaxSequence - 1
    BY <2>1 DEF Chunk
  <2> HIDE DEF chunk
  <2>7. sequence' \in [End -> 0..MaxSequence - 1] /\ sent' \in [End -> Nat]
    BY <2>5, <2>6 DEF TypeOK
  <2>8. buffer' \in [End -> Seq(Chunk)]
    <3>1. buffer[e] \in Seq(Chunk) /\ Append(buffer[e], chunk) \in Seq(Chunk)
      BY <2>1 DEF TypeOK
    <3> QED
      BY <2>5, <3>1 DEF TypeOK
  <2> QED
    BY <2>4, <2>5, <2>7, <2>8 DEF TypeOK
<1>2. ASSUME NEW e \in End, SendRefused(e)
      PROVE  TypeOK'
  <2>1. sequence[e] + 1 \in Int
    BY ConnectionAssumption DEF TypeOK
  <2>2. NextSeq(sequence[e]) \in 0..MaxSequence - 1
    BY <1>0, <2>1 DEF NextSeq
  <2> QED
    BY <1>2, <2>2 DEF SendRefused, TypeOK
<1>3. ASSUME NEW e \in End, Update(e)
      PROVE  TypeOK'
  <2>1. PICK due \in BOOLEAN, flush \in BOOLEAN, keepalive \in BOOLEAN: UpdateWith(e, due, flush, keepalive)
    BY <1>3 DEF Update
  <2> DEFINE more == IF due THEN SubSeq(buffer[e], 1, 1) ELSE <<>>
  <2>2. more \in Seq(Chunk)
    <3>1. CASE due
      <4>1. buffer[e] \in Seq(Chunk) /\ buffer[e] # <<>>
        BY <2>1, <3>1 DEF UpdateWith, TypeOK
      <4>2. 1 <= Len(buffer[e])
        BY <4>1
      <4> QED
        BY <3>1, <4>1, <4>2, Part
    <3> QED
      BY <3>1
  <2>3. construct' \in [End -> Construct] /\ net' \subseteq Packet
    <3>1. CASE keepalive
      <4>1. Transmit({PacketOf(e, Nothing)}, net) /\ construct' = construct
        BY <2>1, <3>1 DEF UpdateWith
      <4>2. Nothing \in Construct
        BY DEF Nothing, Construct
      <4>3. PacketOf(e, Nothing) \in Packet
        BY <4>2, PacketType
      <4> QED
        BY <4>1, <4>3 DEF Transmit, TypeOK
    <3>2. CASE ~keepalive
      <4>1. Queue(e, more, flush, net)
        BY <2>1, <3>2 DEF UpdateWith
      <4> QED
        BY <2>2, <4>1, Queueing
    <3> QED
      BY <3>1, <3>2
  <2>4. UNCHANGED <<state, sequence, ack, peerAck, buffer, inbox, sent, got, slotVars>>
    BY <2>1 DEF UpdateWith
  <2> QED
    BY <2>3, <2>4 DEF TypeOK
<1>4. ASSUME NEW e \in End, TimeOut(e)
      PROVE  TypeOK'
  BY <1>4 DEF TimeOut, TypeOK
<1>5. ASSUME NEW e \in End, FetchChunk(e)
      PROVE  TypeOK'
  <2>1. Head(inbox[e]) \in Chunk /\ Tail(inbox[e]) \in Seq(Chunk)
    BY <1>5 DEF FetchChunk, TypeOK
  <2>2. Head(inbox[e]).seq \in 0..MaxSequence - 1 /\ Head(inbox[e]).id \in Nat
    BY <2>1 DEF Chunk
  <2> QED
    <3>1. Append(got[e], Head(inbox[e]).id) \in Seq(Nat)
      BY <2>2 DEF TypeOK
    <3>2. /\ got' \in [End -> Seq(Nat)] /\ inbox' \in [End -> Seq(Chunk)]
          /\ ack' \in [End -> 0..MaxSequence - 1]
      BY <1>5, <2>1, <2>2, <3>1 DEF FetchChunk, TypeOK
    <3> QED
      BY <1>5, <3>2 DEF FetchChunk, TypeOK
<1>6. ASSUME NEW e \in End, SkipChunk(e)
      PROVE  TypeOK'
  <2>1. Tail(inbox[e]) \in Seq(Chunk)
    BY <1>6 DEF SkipChunk, TypeOK
  <2>2. construct' \in [End -> Construct]
    BY <1>6 DEF SkipChunk, TypeOK, Construct
  <2> QED
    BY <1>6, <2>1, <2>2 DEF SkipChunk, TypeOK
<1>7. ASSUME NEW e \in End, NEW p \in net, Feed(e, p)
      PROVE  TypeOK'
  <2>1. p.ack \in 0..MaxSequence - 1 /\ p.chunks \in Seq(Chunk)
    BY DEF TypeOK, Packet
  <2>2. construct' \in [End -> Construct] /\ net' \subseteq Packet
    <3> DEFINE more == IF p.resend THEN buffer[e] ELSE <<>>
    <3>1. more \in Seq(Chunk)
      BY DEF TypeOK
    <3>2. PICK again \in BOOLEAN: Queue(e, more, FALSE, IF again THEN net ELSE net \ {p})
      BY <1>7 DEF Feed
    <3>3. (IF again THEN net ELSE net \ {p}) \in SUBSET net
      OBVIOUS
    <3> HIDE DEF more
    <3> QED
      BY <3>1, <3>2, <3>3, Queueing
  <2>3. AfterAck(buffer[e], p.ack) \in Seq(Chunk)
    BY BufferTypes
  <2>4. /\ peerAck' = [peerAck EXCEPT ![e] = p.ack]
        /\ buffer' = [buffer EXCEPT ![e] = AfterAck(@, p.ack)]
        /\ inbox' = [inbox EXCEPT ![e] = p.chunks]
        /\ UNCHANGED <<state, sequence, ack, sent, got, slotVars>>
    BY <1>7 DEF Feed
  <2> QED
    BY <2>1, <2>2, <2>3, <2>4 DEF TypeOK
<1>8. ASSUME NEW e \in End, NEW p \in net, FeedRefused(e, p)
      PROVE  TypeOK'
  BY <1>8 DEF FeedRefused, TypeOK
<1>9. ASSUME Reconnect
      PROVE  TypeOK'
  <2>1. peerAck["server"] \in 0..MaxSequence - 1 /\ Disown(construct["server"]) \in Construct
    BY DisownTypes DEF TypeOK, End
  <2>2. Nothing \in Construct
    BY DEF Nothing, Construct
  <2>3. reconnects' \in 0..MaxReconnects
    BY <1>9, ConnectionAssumption DEF Reconnect, TypeOK, GivenUpInv, End
  <2>4. /\ sequence' \in [End -> 0..MaxSequence - 1] /\ ack' \in [End -> 0..MaxSequence - 1]
        /\ peerAck' \in [End -> 0..MaxSequence - 1] /\ sent' \in [End -> Nat]
    BY <1>0, <1>9 DEF Reconnect, Each
  <2>5. /\ buffer' \in [End -> Seq(Chunk)] /\ inbox' \in [End -> Seq(Chunk)]
        /\ got' \in [End -> Seq(Nat)] /\ construct' \in [End -> Construct]
    BY <1>9, <2>2 DEF Reconnect, Each
  <2>6. parked' \subseteq [peerAck: 0..MaxSequence - 1, construct: Construct]
    BY <1>9, <2>1 DEF Reconnect
  <2>7. /\ net' = {} /\ freed' = FALSE /\ borrowed' = {} /\ reuses' = reuses
        /\ state' \in [End -> {"online", "error"}]
    BY <1>9 DEF Reconnect, Each
  <2> QED
    BY <2>3, <2>4, <2>5, <2>6, <2>7 DEF TypeOK
<1>10. ASSUME TakeOver
       PROVE  TypeOK'
  <2>1. PICK old \in parked: /\ peerAck' = [peerAck EXCEPT !["server"] = old.peerAck]
                             /\ construct' = [construct EXCEPT !["server"] = old.construct]
    BY <1>10 DEF TakeOver
  <2>2. old.peerAck \in 0..MaxSequence - 1 /\ old.construct \in Construct
    BY DEF TypeOK
  <2>3. {buffer["server"][i].id: i \in 1..Len(buffer["server"])} \subseteq Nat
    <3>1. buffer["server"] \in Seq(Chunk)
      BY DEF TypeOK, End
    <3>2. \A i \in 1..Len(buffer["server"]): buffer["server"][i].id \in Nat
      <4>1. \A i \in 1..Len(buffer["server"]): buffer["server"][i] \in Chunk
        BY <3>1
      <4> QED
        BY <4>1 DEF Chunk
    <3> QED
      BY <3>2
  <2>4. peerAck' \in [End -> 0..MaxSequence - 1] /\ construct' \in [End -> Construct]
    BY <2>1, <2>2 DEF TypeOK
  <2>5. inbox' \in [End -> Seq(Chunk)]
    <3>1. <<>> \in Seq(Chunk)
      OBVIOUS
    <3> QED
      BY <1>10, <3>1 DEF TakeOver, TypeOK
  <2>6. parked' = {} /\ freed' = TRUE /\ borrowed' \subseteq Nat
        /\ UNCHANGED <<state, sequence, ack, buffer, net, sent, got, reconnects, reuses>>
    BY <1>10, <2>3 DEF TakeOver
  <2> QED
    BY <2>4, <2>5, <2>6 DEF TypeOK
<1>11. ASSUME ReuseSlot
       PROVE  TypeOK'
  <2> DEFINE b == buffer["server"]
             new == [i \in 1..Len(b) |-> IF b[i].id \in borrowed THEN [b[i] EXCEPT !.id = Foreign] ELSE b[i]]
  <2>1. b \in Seq(Chunk)
    BY DEF TypeOK, End
  <2>2. \A i \in 1..Len(b): b[i] \in Chunk /\ [b[i] EXCEPT !.id = Foreign] \in Chunk
    BY <2>1, ForeignChunk
  <2>3. Len(b) \in Nat
    BY <2>1
  <2>4. new \in Seq(Chunk)
    BY <2>2, <2>3
  <2>5. buffer' = [buffer EXCEPT !["server"] = new]
    BY <1>11 DEF ReuseSlot
  <2> HIDE DEF b, new
  <2>6. reuses' \in 0..MaxReuses
    BY <1>11, ConnectionAssumption DEF ReuseSlot, TypeOK
  <2> QED
    BY <1>11, <2>4, <2>5, <2>6 DEF ReuseSlot, TypeOK
<1>12. ASSUME UNCHANGED vars
       PROVE  TypeOK'
  BY <1>12 DEF vars, TypeOK
<1>13. GivenUpInv'
  <2>1. ASSUME NEW e \in End, TimeOut(e)
        PROVE  GivenUpInv'
    BY <2>1 DEF TimeOut, GivenUpInv
  <2>2. ASSUME Reconnect
        PROVE  GivenUpInv'
    BY <2>2 DEF Reconnect, GivenUpInv, Each
  <2>3. ASSUME UNCHANGED <<state, reconnects>>
        PROVE  GivenUpInv'
    BY <2>3 DEF GivenUpInv
  <2> QED
    BY <2>1, <2>2, <2>3 DEF Next, vars, Send, SendRefused, Update, UpdateWith, FetchChunk, SkipChunk,
       Feed, FeedRefused, TakeOver, ReuseSlot
<1> QED
  BY <1>1, <1>2, <1>3, <1>4, <1>5, <1>6, <1>7, <1>8, <1>9, <1>10, <1>11, <1>12, <1>13 DEF Next

\* The variables keep their types, also in a connection that is taken over and
\* in a slot that is used again.
THEOREM ConnectionTypes == Spec => []TypeOK
BY InitTypes, NextTypes, PTL DEF Spec

-----------------------------------------------------------------------------
(* The invariant of a connection that is not taken over. *)

\* How many of its messages e knows to have arrived: those not in m_Buffer.
Acknowledged(e) == sent[e] - Len(buffer[e])

\* m_Sequence and m_Ack are the numbers of messages sent and received, which
\* are received in order.
CounterInv ==
    \A e \in End:
        /\ state[e] = "online" => sequence[e] = sent[e] % MaxSequence
        /\ ack[e] = Len(got[e]) % MaxSequence
        /\ Len(got[e]) <= sent[Peer(e)]
        /\ \A i \in 1..Len(got[e]): got[e][i] = i

\* m_Buffer has the messages that follow the last one acknowledged.
BufferInv ==
    \A e \in End:
        /\ Len(buffer[e]) <= Window
        /\ Acknowledged(e) \in 0..Len(got[Peer(e)])
        /\ peerAck[e] = Acknowledged(e) % MaxSequence
        /\ \A i \in 1..Len(buffer[e]): buffer[e][i].id = Acknowledged(e) + i
        /\ Numbered(buffer[e], sent[e])

ConstructInv ==
    \A e \in End: Len(construct[e].chunks) <= PacketSize /\ Numbered(construct[e].chunks, sent[e])

NetInv ==
    \A p \in net:
        /\ Len(p.chunks) <= PacketSize /\ Numbered(p.chunks, sent[Peer(p.to)])
        /\ p.ack = p.after % MaxSequence /\ p.after <= Len(got[Peer(p.to)])

\* The chunks to be unpacked are not too old, whatever precedes them in their packet.
InboxInv ==
    \A e \in End:
        /\ Numbered(inbox[e], sent[Peer(e)])
        /\ \A i \in 1..Len(inbox[e]):
              (Len(got[e]) + Len(inbox[e])) - inbox[e][i].id <= Half + PacketSize

ConnectionInv == /\ TypeOK /\ CounterInv /\ BufferInv /\ ConstructInv
                 /\ NetInv /\ InboxInv /\ ~freed
\* m_Buffer has room for the window, which with half of the numbers, like the
\* chunks of a packet, is less than the whole circle.
Fitting == /\ Window <= BufferSize
           /\ Window + Half < MaxSequence
           /\ PacketSize + Half < MaxSequence

LEMMA FittingBounds ==
    ASSUME Fitting
    PROVE  MaxSequence \in Nat /\ MaxSequence > 1 /\ Window <= Half /\ Window < MaxSequence
BY ConnectionAssumption, HalfType DEF Fitting

LEMMA Peers ==
    ASSUME NEW e \in End
    PROVE  Peer(e) \in End /\ Peer(e) # e /\ Peer(Peer(e)) = e /\ End = {e, Peer(e)}
BY DEF Peer, End

\* From a round to s, a window on, are the numbers between a and s, among those
\* not too far behind.
LEMMA ValidAck ==
    ASSUME NEW a \in Nat, NEW s \in Nat, NEW x \in Nat,
           a <= s, x <= s, s - a < MaxSequence, s - x < MaxSequence
    PROVE  a <= x <=> LET ra == a % MaxSequence
                          rs == s % MaxSequence
                          rx == x % MaxSequence
                      IN  IF rs >= ra THEN ra <= rx /\ rx <= rs
                                      ELSE ra <= rx \/ rx <= rs
<1> DEFINE ra == a % MaxSequence
           rs == s % MaxSequence
           rx == x % MaxSequence
<1>0. MaxSequence \in Nat \ {0}
  BY ConnectionAssumption
<1>1. /\ ra \in 0..MaxSequence - 1 /\ rs \in 0..MaxSequence - 1 /\ rx \in 0..MaxSequence - 1
  BY OnCircle
<1>2. rs - ra = s - a \/ rs - ra = s - a - MaxSequence
  BY CircleDifference
<1>3. rs - rx = s - x \/ rs - rx = s - x - MaxSequence
  BY CircleDifference
<1>4. a <= x => rx - ra = x - a \/ rx - ra = x - a - MaxSequence
  <2> HAVE a <= x
  <2>1. x - a < MaxSequence
    BY <1>0
  <2> QED
    BY <2>1, CircleDifference
<1>5. x <= a => ra - rx = a - x \/ ra - rx = a - x - MaxSequence
  <2> HAVE x <= a
  <2>1. a - x < MaxSequence
    BY <1>0
  <2> QED
    BY <2>1, CircleDifference
<1> HIDE DEF ra, rs, rx
<1>6. a <= x <=> IF rs >= ra THEN ra <= rx /\ rx <= rs ELSE ra <= rx \/ rx <= rs
  <2>1. ASSUME a <= x
        PROVE  IF rs >= ra THEN ra <= rx /\ rx <= rs ELSE ra <= rx \/ rx <= rs
    BY <1>0, <1>1, <1>2, <1>3, <1>4, <2>1
  <2>2. ASSUME x < a
        PROVE  ~(IF rs >= ra THEN ra <= rx /\ rx <= rs ELSE ra <= rx \/ rx <= rs)
    BY <1>0, <1>1, <1>2, <1>3, <1>5, <2>2
  <2> QED
    BY <2>1, <2>2
<1> QED
  BY <1>6 DEF ra, rs, rx

\* What is queued is numbered, and so is what is sent of it.
LEMMA QueueInv ==
    ASSUME TypeOK, CounterInv, ConstructInv, NetInv,
           NEW e \in End, NEW more \in Seq(Chunk), NEW flush \in BOOLEAN,
           NEW onTheirWay \in SUBSET net, Queue(e, more, flush, onTheirWay),
           sent' \in [End -> Nat], \A x \in End: sent[x] <= sent'[x], got' = got,
           Numbered(more, sent'[e])
    PROVE  ConstructInv' /\ NetInv'
<1>1. /\ \A x \in End \ {e}: construct'[x] = construct[x]
      /\ \A p \in net' \ net: p.to = Peer(e) /\ p.ack = ack[e] /\ p.after = Len(got[e])
  BY Queueing
<1>2. \A x \in End: /\ sent[x] \in Nat /\ sent'[x] \in Nat /\ construct[x].chunks \in Seq(Chunk)
  BY DEF TypeOK, Construct
<1>3. \A x \in End: Len(construct[x].chunks) <= PacketSize /\ Numbered(construct[x].chunks, sent'[x])
  BY <1>2, NumberedMore DEF ConstructInv
<1>4. /\ Len(construct'[e].chunks) <= PacketSize /\ Numbered(construct'[e].chunks, sent'[e])
      /\ \A p \in net' \ net: Len(p.chunks) <= PacketSize /\ Numbered(p.chunks, sent'[e])
  BY <1>2, <1>3, Queueing
<1>5. ConstructInv'
  <2> SUFFICES ASSUME NEW x \in End
               PROVE  Len(construct'[x].chunks) <= PacketSize /\ Numbered(construct'[x].chunks, sent'[x])
    BY DEF ConstructInv, Numbered
  <2> QED
    BY <1>1, <1>3, <1>4
<1>6. NetInv'
  <2> SUFFICES ASSUME NEW p \in net'
               PROVE  /\ Len(p.chunks) <= PacketSize /\ Numbered(p.chunks, sent'[Peer(p.to)])
                      /\ p.ack = p.after % MaxSequence /\ p.after <= Len(got'[Peer(p.to)])
    BY DEF NetInv, Numbered
  <2>1. CASE p \in net
    <3>1. p.chunks \in Seq(Chunk) /\ Peer(p.to) \in End
      BY <2>1, Peers DEF TypeOK, Packet
    <3> QED
      BY <1>2, <2>1, <3>1, NumberedMore DEF NetInv
  <2>2. CASE p \notin net
    <3>1. p.to = Peer(e) /\ p.ack = ack[e] /\ p.after = Len(got[e]) /\ Peer(p.to) = e
      BY <1>1, <2>2, Peers
    <3>2. Len(got[e]) \in Nat /\ ack[e] = Len(got[e]) % MaxSequence
      BY DEF CounterInv, TypeOK
    <3> QED
      BY <1>4, <2>2, <3>1, <3>2
  <2> QED
    BY <2>1, <2>2
<1> QED
  BY <1>5, <1>6

\* What is sent, and not known to have arrived, is what m_Buffer has.
LEMMA Outstanding ==
    ASSUME Fitting, TypeOK, CounterInv, BufferInv, NEW e \in End, state[e] = "online"
    PROVE  (sequence[e] - peerAck[e]) % MaxSequence = Len(buffer[e])
<1> DEFINE a == Acknowledged(e)
           z == sequence[e] - peerAck[e]
<1>0. MaxSequence \in Nat \ {0} /\ Window < MaxSequence
  BY ConnectionAssumption, FittingBounds
<1>1. /\ sent[e] \in Nat /\ Len(buffer[e]) \in Nat /\ a \in Nat
      /\ a = sent[e] - Len(buffer[e]) /\ Len(buffer[e]) <= Window
  BY DEF TypeOK, BufferInv, Acknowledged
<1>2. sequence[e] = sent[e] % MaxSequence /\ peerAck[e] = a % MaxSequence
  BY DEF CounterInv, BufferInv
<1>3. Window \in Nat
  BY ConnectionAssumption
<1> HIDE DEF a
<1>4. a <= sent[e] /\ sent[e] - a < MaxSequence /\ sent[e] - a = Len(buffer[e])
  BY <1>0, <1>1, <1>3
<1>5. z = sent[e] - a \/ z = sent[e] - a - MaxSequence
  BY <1>1, <1>2, <1>4, CircleDifference
<1> HIDE DEF z
<1>6. z = Len(buffer[e]) \/ z = Len(buffer[e]) - MaxSequence
  BY <1>4, <1>5
<1>7. z \in Int /\ -MaxSequence <= z /\ z < MaxSequence
  BY <1>0, <1>1, <1>3, <1>4, <1>6
<1>8. z % MaxSequence = IF z < 0 THEN z + MaxSequence ELSE z
  BY <1>7, CircleRemainder
<1>9. z % MaxSequence = Len(buffer[e])
  BY <1>0, <1>1, <1>4, <1>6, <1>8
<1> QED
  BY <1>9 DEF z

\* A chunk that is sent finds room in m_Buffer and gets the next number.
LEMMA SendInv ==
    ASSUME Fitting, ConnectionInv, TypeOK', NEW e \in End, Send(e)
    PROVE  ConnectionInv'
<1> DEFINE chunk == [seq |-> NextSeq(sequence[e]), id |-> sent[e] + 1]
<1>0. /\ TypeOK /\ CounterInv /\ BufferInv /\ ConstructInv /\ NetInv /\ InboxInv
      /\ MaxSequence \in Nat \ {0} /\ Window \in Nat /\ BufferSize \in Nat
  BY ConnectionAssumption DEF ConnectionInv
<1>1. /\ \A x \in End: /\ sent[x] \in Nat /\ buffer[x] \in Seq(Chunk) /\ inbox[x] \in Seq(Chunk)
                       /\ Len(buffer[x]) \in Nat /\ Len(got[x]) \in Nat
      /\ sent \in [End -> Nat] /\ buffer \in [End -> Seq(Chunk)]
      /\ sequence \in [End -> 0..MaxSequence - 1]
  <2>1. /\ sent \in [End -> Nat] /\ buffer \in [End -> Seq(Chunk)] /\ inbox \in [End -> Seq(Chunk)]
        /\ sequence \in [End -> 0..MaxSequence - 1] /\ got \in [End -> Seq(Nat)]
    BY <1>0 DEF TypeOK
  <2>2. \A x \in End: Len(buffer[x]) \in Nat /\ Len(got[x]) \in Nat
    BY <2>1
  <2> QED
    BY <2>1, <2>2
<1>2. state[e] = "online" /\ (sequence[e] - peerAck[e]) % MaxSequence < Window
  BY DEF Send
<1>3. Len(buffer[e]) < Window
  BY <1>0, <1>2, Outstanding
<1>4. Len(buffer[e]) < BufferSize
  BY <1>0, <1>1, <1>3 DEF Fitting
<1>5. /\ sequence' = [sequence EXCEPT ![e] = chunk.seq]
      /\ sent' = [sent EXCEPT ![e] = @ + 1]
      /\ buffer' = [buffer EXCEPT ![e] = Append(@, chunk)]
      /\ \E flush \in BOOLEAN: Queue(e, <<chunk>>, flush, net)
      /\ UNCHANGED <<state, ack, peerAck, inbox, got>> /\ freed' = freed
  BY <1>4 DEF Send, slotVars
<1>6. chunk.id = sent[e] + 1 /\ chunk.seq = (sent[e] + 1) % MaxSequence
  BY <1>0, <1>1, <1>2, NextSeqFollows, FittingBounds DEF CounterInv
<1>7. chunk \in Chunk
  <2>1. (sent[e] + 1) % MaxSequence \in 0..MaxSequence - 1
    <3>1. sent[e] + 1 \in Nat
      BY <1>1
    <3> QED
      BY <3>1, OnCircle
  <2>2. chunk.seq \in 0..MaxSequence - 1 /\ sent[e] + 1 \in Nat
    BY <1>1, <1>6, <2>1
  <2> QED
    BY <2>2 DEF Chunk
<1> HIDE DEF chunk
<1>8. /\ sent'[e] = sent[e] + 1 /\ sequence'[e] = (sent[e] + 1) % MaxSequence
      /\ buffer'[e] = Append(buffer[e], chunk)
      /\ \A x \in End \ {e}: sent'[x] = sent[x] /\ sequence'[x] = sequence[x] /\ buffer'[x] = buffer[x]
      /\ \A x \in End: sent[x] <= sent'[x]
      /\ sent' \in [End -> Nat]
  BY <1>1, <1>5, <1>6
<1>9. <<chunk>> \in Seq(Chunk) /\ Numbered(<<chunk>>, sent'[e])
  BY <1>1, <1>6, <1>7, <1>8 DEF Numbered
<1>10. ConstructInv' /\ NetInv'
  BY <1>0, <1>5, <1>8, <1>9, QueueInv
<1>11. CounterInv'
  <2> SUFFICES ASSUME NEW x \in End
               PROVE  /\ state[x] = "online" => sequence'[x] = sent'[x] % MaxSequence
                      /\ ack[x] = Len(got[x]) % MaxSequence
                      /\ Len(got[x]) <= sent'[Peer(x)]
                      /\ \A i \in 1..Len(got[x]): got[x][i] = i
    BY <1>5 DEF CounterInv
  <2>1. Len(got[x]) <= sent'[Peer(x)]
    <3>1. /\ Peer(x) \in End /\ Len(got[x]) <= sent[Peer(x)] /\ sent[Peer(x)] <= sent'[Peer(x)]
          /\ sent[Peer(x)] \in Nat /\ sent'[Peer(x)] \in Nat /\ Len(got[x]) \in Nat
      BY <1>0, <1>1, <1>8, Peers DEF CounterInv
    <3> QED
      BY <3>1
  <2> QED
    BY <1>0, <1>8, <2>1 DEF CounterInv
<1>12. BufferInv'
  <2> SUFFICES ASSUME NEW x \in End
               PROVE  /\ Len(buffer'[x]) <= Window
                      /\ Acknowledged(x)' \in 0..Len(got[Peer(x)])
                      /\ peerAck[x] = Acknowledged(x)' % MaxSequence
                      /\ \A i \in 1..Len(buffer'[x]): buffer'[x][i].id = Acknowledged(x)' + i
                      /\ Numbered(buffer'[x], sent'[x])
    BY <1>5 DEF BufferInv, Acknowledged, Numbered
  <2>1. CASE x = e
    <3> DEFINE b == buffer[e]
    <3>1. b \in Seq(Chunk) /\ Len(b) \in Nat /\ Len(b) < Window
      BY <1>1, <1>3
    <3>2. /\ Len(Append(b, chunk)) = Len(b) + 1
          /\ Append(b, chunk)[Len(b) + 1] = chunk
          /\ \A i \in 1..Len(b): Append(b, chunk)[i] = b[i]
      BY <1>7, <3>1
    <3>3. Acknowledged(e)' = Acknowledged(e)
      BY <1>1, <1>8, <3>1, <3>2 DEF Acknowledged
    <3>4. /\ Acknowledged(e) \in 0..Len(got[Peer(e)])
          /\ peerAck[e] = Acknowledged(e) % MaxSequence
          /\ \A i \in 1..Len(b): b[i].id = Acknowledged(e) + i
          /\ Numbered(b, sent[e])
      BY <1>0 DEF BufferInv
    <3>5. Acknowledged(e) + Len(b) + 1 = sent[e] + 1
      BY <1>1 DEF Acknowledged
    <3> HIDE DEF b
    <3>6. \A i \in 1..Len(b) + 1: Append(b, chunk)[i].id = Acknowledged(e) + i
      <4> SUFFICES ASSUME NEW i \in 1..Len(b) + 1
                   PROVE  Append(b, chunk)[i].id = Acknowledged(e) + i
        OBVIOUS
      <4>1. CASE i \in 1..Len(b)
        BY <3>2, <3>4, <4>1
      <4>2. CASE i = Len(b) + 1
        <5>1. Acknowledged(e) \in Int
          BY <1>1, <3>4, Peers
        <5> QED
          BY <1>6, <3>1, <3>2, <3>5, <4>2, <5>1
      <4> QED
        BY <3>1, <4>1, <4>2
    <3>7. Numbered(Append(b, chunk), sent[e] + 1)
      <4> SUFFICES ASSUME NEW i \in 1..Len(b) + 1
                   PROVE  LET c == Append(b, chunk)[i]
                          IN  c.id \in 1..sent[e] + 1 /\ c.seq = c.id % MaxSequence
        BY <3>2 DEF Numbered
      <4>1. CASE i \in 1..Len(b)
        BY <1>1, <3>2, <3>4, <4>1 DEF Numbered
      <4>2. CASE i = Len(b) + 1
        BY <1>1, <1>6, <3>2, <4>2
      <4> QED
        BY <3>1, <4>1, <4>2
    <3>8. Len(Append(b, chunk)) <= Window
      BY <1>0, <3>1, <3>2
    <3>9. buffer'[e] = Append(b, chunk) /\ sent'[e] = sent[e] + 1
      BY <1>8 DEF b
    <3> QED
      BY <2>1, <3>2, <3>3, <3>4, <3>6, <3>7, <3>8, <3>9
  <2>2. CASE x # e
    BY <1>0, <1>8, <2>2 DEF BufferInv, Acknowledged
  <2> QED
    BY <2>1, <2>2
<1>13. InboxInv'
  <2>1. \A x \in End: Numbered(inbox[x], sent'[Peer(x)])
    BY <1>0, <1>1, <1>8, Peers, NumberedMore DEF InboxInv
  <2> QED
    BY <1>0, <1>5, <2>1 DEF InboxInv, Numbered
<1> QED
  BY <1>5, <1>10, <1>11, <1>12, <1>13 DEF ConnectionInv

LEMMA UpdateInv ==
    ASSUME ConnectionInv, TypeOK', NEW e \in End, Update(e)
    PROVE  ConnectionInv'
<1>1. PICK due \in BOOLEAN, flush \in BOOLEAN, keepalive \in BOOLEAN: UpdateWith(e, due, flush, keepalive)
  BY DEF Update
<1> DEFINE more == IF due THEN SubSeq(buffer[e], 1, 1) ELSE <<>>
<1>0. /\ TypeOK /\ CounterInv /\ BufferInv /\ ConstructInv /\ NetInv /\ InboxInv /\ ~freed
      /\ sent \in [End -> Nat] /\ sent[e] \in Nat /\ buffer[e] \in Seq(Chunk)
      /\ got \in [End -> Seq(Nat)]
  BY DEF ConnectionInv, TypeOK
<1>2. UNCHANGED <<state, sequence, ack, peerAck, buffer, inbox, sent, got, freed>>
  BY <1>1 DEF UpdateWith, slotVars
<1>3. more \in Seq(Chunk) /\ Numbered(more, sent[e])
  <2>1. CASE due
    <3>1. 1 <= Len(buffer[e])
      BY <1>0, <1>1, <2>1 DEF UpdateWith
    <3>2. Numbered(buffer[e], sent[e])
      BY <1>0 DEF BufferInv
    <3>3. SubSeq(buffer[e], 1, 1) \in Seq(Chunk) /\ Numbered(SubSeq(buffer[e], 1, 1), sent[e])
      BY <1>0, <3>1, <3>2, Part, NumberedPart
    <3> QED
      BY <2>1, <3>3
  <2>2. CASE ~due
    BY <2>2 DEF Numbered
  <2> QED
    BY <2>1, <2>2
<1>4. ConstructInv' /\ NetInv'
  <2>1. CASE keepalive
    <3>1. Transmit({PacketOf(e, Nothing)}, net) /\ construct' = construct
      BY <1>1, <2>1 DEF UpdateWith
    <3>2. net' \subseteq net \cup {PacketOf(e, Nothing)}
      BY <3>1 DEF Transmit
    <3>3. Nothing \in Construct /\ Nothing.chunks = <<>>
      BY DEF Nothing, Construct
    <3>4. /\ PacketOf(e, Nothing).to = Peer(e) /\ PacketOf(e, Nothing).ack = ack[e]
          /\ PacketOf(e, Nothing).after = Len(got[e]) /\ PacketOf(e, Nothing).chunks = <<>>
      BY <1>0, <3>3, PacketType
    <3>5. /\ Len(<<>>) <= PacketSize /\ Numbered(<<>>, sent[e])
          /\ Len(got[e]) <= Len(got[e])
      BY <1>0, ConnectionAssumption DEF Numbered
    <3>6. \A p \in net': /\ Len(p.chunks) <= PacketSize /\ Numbered(p.chunks, sent[Peer(p.to)])
                         /\ p.ack = p.after % MaxSequence /\ p.after <= Len(got[Peer(p.to)])
      BY <1>0, <3>2, <3>4, <3>5, Peers DEF NetInv, CounterInv
    <3> QED
      BY <1>0, <1>2, <3>1, <3>6 DEF NetInv, ConstructInv, Numbered
  <2>2. CASE ~keepalive
    <3>1. Queue(e, more, flush, net)
      BY <1>1, <2>2 DEF UpdateWith
    <3>2. sent' \in [End -> Nat] /\ got' = got /\ Numbered(more, sent'[e])
          /\ \A x \in End: sent[x] <= sent'[x]
      BY <1>0, <1>2, <1>3
    <3> HIDE DEF more
    <3> QED
      BY <1>0, <1>3, <3>1, <3>2, QueueInv
  <2> QED
    BY <2>1, <2>2
<1> QED
  BY <1>0, <1>2, <1>4 DEF ConnectionInv, CounterInv, BufferInv, Acknowledged, InboxInv, Numbered

\* A chunk that is in sequence is the next message, since it is neither half a
\* circle old nor ahead by more than the window.
LEMMA NextMessage ==
    ASSUME Fitting, ConnectionInv, NEW e \in End, inbox[e] # <<>>, InSequence(e, Head(inbox[e]))
    PROVE  /\ Head(inbox[e]).id = Len(got[e]) + 1 /\ Len(got[e]) + 1 <= sent[Peer(e)]
           /\ Head(inbox[e]).seq = (Len(got[e]) + 1) % MaxSequence
<1> DEFINE c == Head(inbox[e])
           n == Len(got[e]) + 1
<1>0. /\ TypeOK /\ CounterInv /\ BufferInv /\ InboxInv /\ Peer(e) \in End /\ Peer(Peer(e)) = e
      /\ MaxSequence \in Nat \ {0} /\ Window \in Nat /\ PacketSize \in Nat /\ Half \in Nat
      /\ Window < MaxSequence /\ PacketSize + Half < MaxSequence /\ MaxSequence > 1
  BY Peers, ConnectionAssumption, HalfType, FittingBounds DEF ConnectionInv, Fitting
<1>1. /\ inbox[e] \in Seq(Chunk) /\ Len(inbox[e]) \in Nat /\ Len(inbox[e]) >= 1
      /\ c = inbox[e][1] /\ Len(got[e]) \in Nat /\ sent[Peer(e)] \in Nat
      /\ Len(buffer[Peer(e)]) \in Nat
  <2>1. /\ inbox \in [End -> Seq(Chunk)] /\ got \in [End -> Seq(Nat)] /\ sent \in [End -> Nat]
        /\ buffer \in [End -> Seq(Chunk)]
    BY <1>0 DEF TypeOK
  <2>2. inbox[e] \in Seq(Chunk) /\ inbox[e] # <<>>
    BY <2>1
  <2>3. Len(inbox[e]) \in Nat /\ Len(inbox[e]) >= 1 /\ c = inbox[e][1]
    BY <2>2
  <2>4. Len(got[e]) \in Nat /\ sent[Peer(e)] \in Nat /\ Len(buffer[Peer(e)]) \in Nat
    BY <1>0, <2>1
  <2> QED
    BY <2>2, <2>3, <2>4
<1>2. /\ c.id \in 1..sent[Peer(e)] /\ c.seq = c.id % MaxSequence
      /\ (Len(got[e]) + Len(inbox[e])) - c.id <= Half + PacketSize
  <2>1. 1 \in 1..Len(inbox[e])
    BY <1>1
  <2>2. inbox[e][1].id \in 1..sent[Peer(e)] /\ inbox[e][1].seq = inbox[e][1].id % MaxSequence
    BY <1>0, <2>1 DEF InboxInv, Numbered
  <2>3. (Len(got[e]) + Len(inbox[e])) - inbox[e][1].id <= Half + PacketSize
    BY <1>0, <2>1 DEF InboxInv
  <2> QED
    BY <1>1, <2>2, <2>3
<1>3. /\ Len(buffer[Peer(e)]) <= Window
      /\ sent[Peer(e)] - Len(buffer[Peer(e)]) <= Len(got[e])
  BY <1>0, <1>1 DEF BufferInv, Acknowledged
<1>4. c.seq = n % MaxSequence
  BY <1>0, <1>1, NextSeqFollows DEF InSequence, CounterInv
<1> HIDE DEF c
<1>5. c.id \in Nat /\ n \in Nat /\ c.id - n < MaxSequence /\ n - c.id < MaxSequence
  <2>1. c.id \in Nat /\ n \in Nat
    BY <1>1, <1>2
  <2>2. c.id <= sent[Peer(e)] /\ sent[Peer(e)] <= Len(got[e]) + Window
    BY <1>0, <1>1, <1>2, <1>3
  <2>3. c.id - n < MaxSequence
    BY <1>0, <1>1, <2>1, <2>2
  <2>4. n - c.id <= Half + PacketSize
    <3> DEFINE g == Len(got[e])
               m == Len(inbox[e])
               k == c.id
    <3>1. g \in Nat /\ m \in Nat /\ m >= 1 /\ k \in Nat /\ (g + m) - k <= Half + PacketSize
      BY <1>1, <1>2, <2>1
    <3> HIDE DEF g, m, k
    <3>2. (g + 1) - k <= Half + PacketSize
      BY <1>0, <3>1
    <3> QED
      BY <3>2 DEF g, k
  <2>5. n - c.id < MaxSequence
    BY <1>0, <1>1, <2>1, <2>4
  <2> QED
    BY <2>1, <2>3, <2>5
<1>6. c.id = n
  BY <1>2, <1>4, <1>5, CircleInjective
<1> QED
  BY <1>1, <1>2, <1>4, <1>6 DEF c

\* The chunks that remain to be unpacked after the first.
LEMMA InboxTail ==
    ASSUME NEW s \in Seq(Chunk), s # <<>>, NEW n \in Nat, Numbered(s, n)
    PROVE  /\ Numbered(Tail(s), n) /\ Len(Tail(s)) = Len(s) - 1 /\ Len(s) \in Nat
           /\ \A i \in 1..Len(Tail(s)): i + 1 \in 1..Len(s) /\ Tail(s)[i] = s[i + 1]
<1>1. /\ Len(Tail(s)) = Len(s) - 1 /\ Len(s) \in Nat
      /\ \A i \in 1..Len(Tail(s)): i + 1 \in 1..Len(s) /\ Tail(s)[i] = s[i + 1]
  OBVIOUS
<1> QED
  BY <1>1 DEF Numbered

LEMMA FetchInv ==
    ASSUME Fitting, ConnectionInv, TypeOK', NEW e \in End, FetchChunk(e)
    PROVE  ConnectionInv'
<1>0. /\ TypeOK /\ CounterInv /\ BufferInv /\ ConstructInv /\ NetInv /\ InboxInv /\ ~freed
  BY DEF ConnectionInv
<1> DEFINE c == Head(inbox[e])
           n == Len(got[e]) + 1
<1>1. /\ inbox[e] # <<>>
      /\ ack' = [ack EXCEPT ![e] = c.seq]
      /\ got' = [got EXCEPT ![e] = Append(@, c.id)]
      /\ inbox' = [inbox EXCEPT ![e] = Tail(@)]
      /\ UNCHANGED <<state, sequence, peerAck, buffer, construct, net, sent, freed>>
  BY DEF FetchChunk, slotVars
<1>2. c.id = n /\ n <= sent[Peer(e)] /\ c.seq = n % MaxSequence
  BY NextMessage DEF FetchChunk
<1>3. /\ ack \in [End -> 0..MaxSequence - 1] /\ got \in [End -> Seq(Nat)]
      /\ inbox \in [End -> Seq(Chunk)] /\ sent \in [End -> Nat] /\ net \subseteq Packet
  BY <1>0 DEF TypeOK
<1>4. \A x \in End: Len(got[x]) \in Nat /\ got[x] \in Seq(Nat) /\ Peer(x) \in End
  BY <1>3, Peers
<1> HIDE DEF c
<1>5. /\ ack'[e] = n % MaxSequence /\ got'[e] = Append(got[e], n) /\ inbox'[e] = Tail(inbox[e])
      /\ \A x \in End \ {e}: ack'[x] = ack[x] /\ got'[x] = got[x] /\ inbox'[x] = inbox[x]
  BY <1>1, <1>2, <1>3
<1>6. /\ Len(got'[e]) = n /\ got'[e][n] = n
      /\ \A i \in 1..Len(got[e]): got'[e][i] = got[e][i]
  BY <1>4, <1>5
<1>7. \A x \in End: Len(got[x]) <= Len(got'[x]) /\ Len(got'[x]) \in Nat
  BY <1>4, <1>5, <1>6
<1>8. CounterInv'
  <2> SUFFICES ASSUME NEW x \in End
               PROVE  /\ state[x] = "online" => sequence[x] = sent[x] % MaxSequence
                      /\ ack'[x] = Len(got'[x]) % MaxSequence
                      /\ Len(got'[x]) <= sent[Peer(x)]
                      /\ \A i \in 1..Len(got'[x]): got'[x][i] = i
    BY <1>1 DEF CounterInv
  <2>1. CASE x = e
    <3>1. \A i \in 1..n: got'[e][i] = i
      <4> SUFFICES ASSUME NEW i \in 1..n
                   PROVE  got'[e][i] = i
        OBVIOUS
      <4>1. CASE i \in 1..Len(got[e])
        BY <1>0, <1>6, <4>1 DEF CounterInv
      <4>2. CASE i = n
        BY <1>6, <4>2
      <4> QED
        BY <1>4, <4>1, <4>2
    <3> QED
      BY <1>0, <1>2, <1>5, <1>6, <2>1, <3>1 DEF CounterInv
  <2>2. CASE x # e
    BY <1>0, <1>5, <2>2 DEF CounterInv
  <2> QED
    BY <2>1, <2>2
<1>9. BufferInv'
  <2> SUFFICES ASSUME NEW x \in End
               PROVE  Acknowledged(x) \in 0..Len(got'[Peer(x)])
    BY <1>0, <1>1 DEF BufferInv, Acknowledged, Numbered
  <2>1. Acknowledged(x) \in 0..Len(got[Peer(x)])
    BY <1>0 DEF BufferInv
  <2>2. Len(got[Peer(x)]) <= Len(got'[Peer(x)]) /\ Len(got'[Peer(x)]) \in Nat /\ Len(got[Peer(x)]) \in Nat
    BY <1>4, <1>7
  <2> QED
    BY <2>1, <2>2
<1>10. NetInv'
  <2> SUFFICES ASSUME NEW p \in net
               PROVE  p.after <= Len(got'[Peer(p.to)])
    BY <1>0, <1>1 DEF NetInv, Numbered
  <2>1. p.after \in Nat /\ Peer(p.to) \in End
    BY <1>3, Peers DEF Packet
  <2>2. p.after <= Len(got[Peer(p.to)])
    BY <1>0 DEF NetInv
  <2>3. /\ Len(got[Peer(p.to)]) <= Len(got'[Peer(p.to)])
        /\ Len(got'[Peer(p.to)]) \in Nat /\ Len(got[Peer(p.to)]) \in Nat
    BY <1>4, <1>7, <2>1
  <2> QED
    BY <2>1, <2>2, <2>3
<1>11. InboxInv'
  <2> SUFFICES ASSUME NEW x \in End
               PROVE  /\ Numbered(inbox'[x], sent[Peer(x)])
                      /\ \A i \in 1..Len(inbox'[x]):
                            (Len(got'[x]) + Len(inbox'[x])) - inbox'[x][i].id <= Half + PacketSize
    BY <1>1 DEF InboxInv, Numbered
  <2>1. CASE x = e
    <3>1. /\ inbox[e] \in Seq(Chunk) /\ Numbered(inbox[e], sent[Peer(e)]) /\ sent[Peer(e)] \in Nat
      BY <1>0, <1>3, <1>4 DEF InboxInv
    <3>2. /\ Numbered(inbox'[e], sent[Peer(e)]) /\ Len(inbox'[e]) = Len(inbox[e]) - 1
          /\ Len(inbox[e]) \in Nat
          /\ \A i \in 1..Len(inbox'[e]): i + 1 \in 1..Len(inbox[e]) /\ inbox'[e][i] = inbox[e][i + 1]
      BY <1>1, <1>5, <3>1, InboxTail
    <3> DEFINE g == Len(got[e])
               m == Len(inbox[e])
               gg == Len(got'[e])
               mm == Len(inbox'[e])
    <3>3. gg = g + 1 /\ g \in Nat /\ mm = m - 1 /\ m \in Nat
      BY <1>4, <1>6, <3>2
    <3>4. \A i \in 1..Len(inbox[e]): (g + m) - inbox[e][i].id <= Half + PacketSize
      BY <1>0 DEF InboxInv
    <3> HIDE DEF g, m, gg, mm
    <3>5. gg + mm = g + m /\ gg + mm \in Int /\ g + m \in Int
      BY <3>3
    <3>6. ASSUME NEW i \in 1..Len(inbox'[e])
          PROVE  (gg + mm) - inbox'[e][i].id <= Half + PacketSize
      <4>1. /\ inbox'[e][i].id = inbox[e][i + 1].id /\ inbox[e][i + 1].id \in Nat
            /\ (g + m) - inbox[e][i + 1].id <= Half + PacketSize
        BY <3>1, <3>2, <3>4 DEF Numbered
      <4> DEFINE k == inbox[e][i + 1].id
      <4>2. k \in Nat /\ (g + m) - k <= Half + PacketSize /\ inbox'[e][i].id = k
        BY <4>1
      <4> HIDE DEF k
      <4>3. (gg + mm) - k <= Half + PacketSize
        BY <3>5, <4>2
      <4> QED
        BY <4>2, <4>3
    <3> QED
      BY <2>1, <3>2, <3>6 DEF gg, mm
  <2>2. CASE x # e
    BY <1>0, <1>5, <2>2 DEF InboxInv
  <2> QED
    BY <2>1, <2>2
<1>12. ConstructInv' /\ ~freed'
  BY <1>0, <1>1 DEF ConstructInv, Numbered
<1> QED
  BY <1>8, <1>9, <1>10, <1>11, <1>12 DEF ConnectionInv

LEMMA SkipInv ==
    ASSUME ConnectionInv, TypeOK', NEW e \in End, SkipChunk(e)
    PROVE  ConnectionInv'
<1>0. /\ TypeOK /\ CounterInv /\ BufferInv /\ ConstructInv /\ NetInv /\ InboxInv /\ ~freed
  BY DEF ConnectionInv
<1>1. /\ inbox[e] # <<>>
      /\ inbox' = [inbox EXCEPT ![e] = Tail(@)]
      /\ \E resend: construct' = [construct EXCEPT ![e].resend = resend]
      /\ UNCHANGED <<state, sequence, ack, peerAck, buffer, net, sent, got, freed>>
  BY DEF SkipChunk, slotVars
<1>2. /\ construct \in [End -> Construct] /\ inbox \in [End -> Seq(Chunk)]
      /\ sent \in [End -> Nat] /\ got \in [End -> Seq(Nat)]
  BY <1>0 DEF TypeOK
<1>3. \A x \in End: construct'[x].chunks = construct[x].chunks
  BY <1>1, <1>2 DEF Construct
<1>4. inbox'[e] = Tail(inbox[e]) /\ \A x \in End \ {e}: inbox'[x] = inbox[x]
  BY <1>1, <1>2
<1>5. ConstructInv'
  BY <1>0, <1>1, <1>3 DEF ConstructInv, Numbered
<1>6. InboxInv'
  <2> SUFFICES ASSUME NEW x \in End
               PROVE  /\ Numbered(inbox'[x], sent[Peer(x)])
                      /\ \A i \in 1..Len(inbox'[x]):
                            (Len(got[x]) + Len(inbox'[x])) - inbox'[x][i].id <= Half + PacketSize
    BY <1>1 DEF InboxInv, Numbered
  <2>1. CASE x = e
    <3>1. /\ inbox[e] \in Seq(Chunk) /\ Numbered(inbox[e], sent[Peer(e)]) /\ sent[Peer(e)] \in Nat
      BY <1>0, <1>2, Peers DEF InboxInv
    <3>2. /\ Numbered(inbox'[e], sent[Peer(e)]) /\ Len(inbox'[e]) = Len(inbox[e]) - 1
          /\ Len(inbox[e]) \in Nat
          /\ \A i \in 1..Len(inbox'[e]): i + 1 \in 1..Len(inbox[e]) /\ inbox'[e][i] = inbox[e][i + 1]
      <4>1. inbox[e] # <<>> /\ inbox'[e] = Tail(inbox[e])
        BY <1>1, <1>4
      <4> QED
        BY <3>1, <4>1, InboxTail
    <3>3. \A i \in 1..Len(inbox[e]): (Len(got[e]) + Len(inbox[e])) - inbox[e][i].id <= Half + PacketSize
      BY <1>0 DEF InboxInv
    <3>4. \A i \in 1..Len(inbox[e]): inbox[e][i].id \in Nat
      BY <3>1 DEF Numbered
    <3>5. Len(got[e]) \in Nat /\ Half \in Nat /\ PacketSize \in Nat
      BY <1>2, ConnectionAssumption, HalfType
    <3>6. ASSUME NEW i \in 1..Len(inbox'[e])
          PROVE  (Len(got[e]) + Len(inbox'[e])) - inbox'[e][i].id <= Half + PacketSize
      <4>1. /\ inbox'[e][i].id = inbox[e][i + 1].id /\ inbox[e][i + 1].id \in Nat
            /\ Len(inbox'[e]) = Len(inbox[e]) - 1 /\ Len(inbox[e]) \in Nat
            /\ (Len(got[e]) + Len(inbox[e])) - inbox[e][i + 1].id <= Half + PacketSize
        BY <3>2, <3>3, <3>4
      <4> DEFINE g == Len(got[e])
                 m == Len(inbox[e])
                 k == inbox[e][i + 1].id
      <4>2. /\ g \in Nat /\ m \in Nat /\ k \in Nat /\ (g + m) - k <= Half + PacketSize
            /\ Len(inbox'[e]) = m - 1 /\ inbox'[e][i].id = k
        BY <3>5, <4>1
      <4> HIDE DEF g, m, k
      <4>3. (g + (m - 1)) - k <= Half + PacketSize
        BY <3>5, <4>2
      <4> QED
        BY <4>2, <4>3 DEF g
    <3> QED
      BY <2>1, <3>2, <3>6
  <2>2. CASE x # e
    BY <1>0, <1>4, <2>2 DEF InboxInv
  <2> QED
    BY <2>1, <2>2
<1> QED
  BY <1>0, <1>1, <1>5, <1>6 DEF ConnectionInv, CounterInv, BufferInv, Acknowledged, NetInv, Numbered

\* An ack that Feed takes is of the chunks acknowledged or of later ones.
LEMMA AckTaken ==
    ASSUME Fitting, ConnectionInv, NEW e \in End, NEW p \in net, Arrives(e, p), AckValid(e, p.ack)
    PROVE  /\ p.after \in Nat /\ p.ack = p.after % MaxSequence
           /\ Acknowledged(e) <= p.after /\ p.after <= sent[e] /\ p.after <= Len(got[Peer(e)])
<1> DEFINE a == Acknowledged(e)
           s == sent[e]
           x == p.after
           g == Len(got[Peer(e)])
<1>0. /\ TypeOK /\ CounterInv /\ BufferInv /\ NetInv
      /\ Peer(e) \in End /\ Peer(Peer(e)) = e
      /\ MaxSequence \in Nat /\ Window \in Nat /\ Half \in Nat
      /\ Window + Half < MaxSequence /\ Window < MaxSequence
  BY Peers, ConnectionAssumption, HalfType, FittingBounds DEF ConnectionInv, Fitting
<1>1. p.to = e /\ state[e] = "online" /\ g - x <= Half
  BY DEF Arrives, Fresh
<1>2. x \in Nat /\ s \in Nat /\ g \in Nat /\ Len(buffer[e]) \in Nat
  <2>1. p \in Packet /\ sent \in [End -> Nat] /\ got \in [End -> Seq(Nat)] /\ buffer \in [End -> Seq(Chunk)]
    BY <1>0 DEF TypeOK
  <2> QED
    BY <1>0, <2>1 DEF Packet
<1>3. p.ack = x % MaxSequence /\ x <= g
  BY <1>0, <1>1 DEF NetInv
<1>4. /\ a \in 0..g /\ peerAck[e] = a % MaxSequence /\ sequence[e] = s % MaxSequence
      /\ a = s - Len(buffer[e]) /\ Len(buffer[e]) <= Window /\ g <= s
  <2>1. Len(got[Peer(e)]) <= sent[Peer(Peer(e))] /\ sequence[e] = sent[e] % MaxSequence
    BY <1>0, <1>1 DEF CounterInv
  <2>2. /\ a \in 0..Len(got[Peer(e)]) /\ peerAck[e] = a % MaxSequence
        /\ Len(buffer[e]) <= Window
    BY <1>0 DEF BufferInv
  <2>3. a = s - Len(buffer[e])
    BY DEF Acknowledged
  <2> QED
    BY <1>0, <2>1, <2>2, <2>3
<1>5. IF sequence[e] >= peerAck[e] THEN peerAck[e] <= p.ack /\ p.ack <= sequence[e]
                                   ELSE peerAck[e] <= p.ack \/ p.ack <= sequence[e]
  BY DEF AckValid
<1> HIDE DEF a, s, x, g
<1>6. a \in Nat /\ a <= s /\ x <= s /\ s - a < MaxSequence /\ s - x < MaxSequence
  BY <1>0, <1>1, <1>2, <1>3, <1>4
<1>7. a <= x
  BY <1>2, <1>3, <1>4, <1>5, <1>6, ValidAck
<1> QED
  BY <1>2, <1>3, <1>6, <1>7 DEF a, s, x, g

\* Dropping the x - a chunks up to x from l, the last of which is s.
LEMMA Dropping ==
    ASSUME NEW a \in Nat, NEW x \in Nat, NEW s \in Nat, NEW l \in Nat,
           a = s - l, a <= x, x <= s
    PROVE  x - a \in Nat /\ x - a <= l /\ a + (x - a) = x /\ s - (l - (x - a)) = x
OBVIOUS

\* AckChunks drops the chunks up to the one acknowledged.
LEMMA ChunksDropped ==
    ASSUME Fitting, ConnectionInv, NEW e \in End, NEW x \in Nat,
           Acknowledged(e) <= x, x <= sent[e]
    PROVE  AfterAck(buffer[e], x % MaxSequence)
              = SubSeq(buffer[e], x - Acknowledged(e) + 1, Len(buffer[e]))
<1> DEFINE b == buffer[e]
           a == Acknowledged(e)
           d == x - a
           y == x % MaxSequence
<1>0. /\ TypeOK /\ BufferInv /\ MaxSequence \in Nat /\ MaxSequence > 1
      /\ Window \in Nat /\ Half \in Nat /\ Window <= Half /\ Window + Half < MaxSequence
  BY ConnectionAssumption, HalfType, FittingBounds DEF ConnectionInv, Fitting
<1>1. b \in Seq(Chunk) /\ Len(b) \in Nat /\ sent[e] \in Nat
  <2>1. sent \in [End -> Nat] /\ buffer \in [End -> Seq(Chunk)]
    BY <1>0 DEF TypeOK
  <2> QED
    BY <2>1
<1>2. /\ a \in Nat /\ a = sent[e] - Len(b) /\ Len(b) <= Window /\ a <= x
      /\ \A i \in 1..Len(b): b[i].id = a + i /\ b[i].seq = (a + i) % MaxSequence
  <2>1. /\ Len(b) <= Window /\ a \in 0..Len(got[Peer(e)])
        /\ \A i \in 1..Len(b): b[i].id = a + i
        /\ Numbered(b, sent[e])
    BY <1>0 DEF BufferInv
  <2>2. a = sent[e] - Len(b)
    BY DEF Acknowledged
  <2>3. a \in Nat
    BY <1>1, <2>1, <2>2
  <2> QED
    BY <2>1, <2>2, <2>3 DEF Numbered
<1> HIDE DEF b, a
<1>3. /\ d \in Nat /\ d <= Len(b) /\ a + d = x
      /\ a \in Nat /\ Len(b) \in Nat /\ Len(b) <= Window
  <2>1. a \in Nat /\ a <= x /\ Len(b) \in Nat /\ a = sent[e] - Len(b) /\ Len(b) <= Window
    BY <1>1, <1>2
  <2>2. x \in Nat /\ x <= sent[e] /\ sent[e] \in Nat
    BY <1>1
  <2>3. x - a \in Nat /\ x - a <= Len(b) /\ a + (x - a) = x
    BY <2>1, <2>2, Dropping
  <2> QED
    BY <2>1, <2>3
<1> HIDE DEF d
<1>4. Acked(b, y) = 1..d
  <2>1. ASSUME NEW i \in 1..Len(b)
        PROVE  IsSeqInBackroom(b[i].seq, y) <=> i <= d
    <3>1. a + i \in Nat /\ b[i].seq = (a + i) % MaxSequence
      BY <1>1, <1>2
    <3>2. CASE i <= d
      <4>1. a + i <= x /\ x - (a + i) <= Half
        BY <1>0, <1>3, <3>2
      <4> QED
        BY <1>0, <3>1, <3>2, <4>1, Backroom
    <3>3. CASE i > d
      <4>1. x < a + i /\ (a + i) - x < MaxSequence - Half
        BY <1>0, <1>3, <3>3
      <4>2. ~(i <= d)
        BY <1>3, <3>3
      <4> QED
        BY <3>1, <4>1, <4>2, Backroom
    <3> QED
      BY <1>3, <3>2, <3>3
  <2> HIDE DEF y
  <2>2. \A i \in 1..Len(b): (\A k \in 1..i: IsSeqInBackroom(b[k].seq, y)) <=> i <= d
    <3> SUFFICES ASSUME NEW i \in 1..Len(b)
                 PROVE  (\A k \in 1..i: IsSeqInBackroom(b[k].seq, y)) <=> i <= d
      OBVIOUS
    <3>1. \A k \in 1..i: k \in 1..Len(b) /\ k <= i
      BY <1>1
    <3>2. i \in 1..i
      OBVIOUS
    <3>3. ASSUME i <= d, NEW k \in 1..i
          PROVE  IsSeqInBackroom(b[k].seq, y)
      <4>1. k <= d
        BY <1>3, <3>3
      <4> QED
        BY <2>1, <3>1, <4>1
    <3> QED
      BY <2>1, <3>2, <3>3
  <2>3. 1..d = {i \in 1..Len(b): i <= d}
    BY <1>1, <1>3
  <2> QED
    BY <2>2, <2>3 DEF Acked
<1>5. Cardinality(1..d) = d
  BY <1>3, FS_Interval
<1>6. AfterAck(b, y) = SubSeq(b, d + 1, Len(b))
  BY <1>4, <1>5 DEF AfterAck
<1> QED
  BY <1>6 DEF b, a, d

LEMMA FeedInv ==
    ASSUME Fitting, ConnectionInv, TypeOK', NEW e \in End, NEW p \in net, Feed(e, p)
    PROVE  ConnectionInv'
<1>0. /\ TypeOK /\ CounterInv /\ BufferInv /\ ConstructInv /\ NetInv /\ InboxInv /\ ~freed
      /\ Peer(e) \in End /\ Peer(Peer(e)) = e /\ PacketSize \in Nat /\ Half \in Nat
      /\ Window \in Nat
  BY Peers, ConnectionAssumption, HalfType DEF ConnectionInv
<1>1. /\ sent \in [End -> Nat] /\ got \in [End -> Seq(Nat)] /\ buffer \in [End -> Seq(Chunk)]
      /\ inbox \in [End -> Seq(Chunk)] /\ peerAck \in [End -> 0..MaxSequence - 1]
      /\ p \in Packet
  BY <1>0 DEF TypeOK
<1>2. /\ Arrives(e, p) /\ AckValid(e, p.ack) /\ p.to = e /\ Fresh(p)
      /\ peerAck' = [peerAck EXCEPT ![e] = p.ack]
      /\ buffer' = [buffer EXCEPT ![e] = AfterAck(@, p.ack)]
      /\ inbox' = [inbox EXCEPT ![e] = p.chunks]
      /\ UNCHANGED <<state, sequence, ack, sent, got, freed>>
  BY DEF Feed, Arrives, slotVars
<1> DEFINE a == Acknowledged(e)
           b == buffer[e]
           x == p.after
           d == x - a
<1>3. x \in Nat /\ p.ack = x % MaxSequence /\ a <= x /\ x <= sent[e] /\ x <= Len(got[Peer(e)])
  BY <1>2, AckTaken
<1>4. /\ peerAck'[e] = x % MaxSequence /\ buffer'[e] = SubSeq(b, d + 1, Len(b)) /\ inbox'[e] = p.chunks
      /\ \A y \in End \ {e}: peerAck'[y] = peerAck[y] /\ buffer'[y] = buffer[y] /\ inbox'[y] = inbox[y]
  BY <1>1, <1>2, <1>3, ChunksDropped
<1>5. /\ b \in Seq(Chunk) /\ Len(b) \in Nat /\ sent[e] \in Nat /\ a = sent[e] - Len(b)
      /\ Len(b) <= Window /\ Numbered(b, sent[e])
      /\ \A i \in 1..Len(b): b[i].id = a + i
  BY <1>0, <1>1 DEF BufferInv, Acknowledged
<1>6. a \in Nat
  BY <1>0, <1>1 DEF BufferInv
<1>7. ConstructInv' /\ NetInv'
  <2> DEFINE more == IF p.resend THEN b ELSE <<>>
  <2>1. more \in Seq(Chunk)
    BY <1>5
  <2>2. Numbered(more, sent'[e])
    BY <1>2, <1>5 DEF Numbered
  <2>3. PICK again \in BOOLEAN: Queue(e, more, FALSE, IF again THEN net ELSE net \ {p})
    BY DEF Feed
  <2>4. (IF again THEN net ELSE net \ {p}) \in SUBSET net
    OBVIOUS
  <2>5. /\ sent' \in [End -> Nat] /\ got' = got /\ \A y \in End: sent[y] <= sent'[y]
    BY <1>1, <1>2
  <2> HIDE DEF more
  <2> QED
    BY <1>0, <2>1, <2>2, <2>3, <2>4, <2>5, QueueInv
<1> HIDE DEF a, b, x
<1>8. CounterInv'
  BY <1>0, <1>2 DEF CounterInv
<1>9. BufferInv'
  <2> SUFFICES ASSUME NEW y \in End
               PROVE  /\ Len(buffer'[y]) <= Window
                      /\ Acknowledged(y)' \in 0..Len(got[Peer(y)])
                      /\ peerAck'[y] = Acknowledged(y)' % MaxSequence
                      /\ \A i \in 1..Len(buffer'[y]): buffer'[y][i].id = Acknowledged(y)' + i
                      /\ Numbered(buffer'[y], sent[y])
    BY <1>2 DEF BufferInv, Acknowledged, Numbered
  <2>1. CASE y = e
    <3>1. a \in Nat /\ d \in Nat /\ d + 1 \in Nat \ {0} /\ d <= Len(b)
      BY <1>3, <1>5, <1>6
    <3>2. /\ Len(buffer'[e]) = Len(b) - d
          /\ \A i \in 1..Len(buffer'[e]): d + 1 + i - 1 \in 1..Len(b) /\ buffer'[e][i] = b[d + 1 + i - 1]
      <4> DEFINE rest == SubSeq(b, d + 1, Len(b))
      <4>2. buffer'[e] = rest
        BY <1>4
      <4> HIDE DEF d
      <4>1. /\ Len(rest) = IF d + 1 <= Len(b) THEN Len(b) - (d + 1) + 1 ELSE 0
            /\ \A i \in 1..Len(rest): d + 1 + i - 1 \in 1..Len(b) /\ rest[i] = b[d + 1 + i - 1]
        <5>1. Len(b) \in Nat /\ Len(b) <= Len(b) /\ b \in Seq(Chunk)
          BY <1>5
        <5> QED
          BY <3>1, <5>1, Part
      <4> HIDE DEF rest
      <4>3. Len(rest) = Len(b) - d
        BY <1>5, <3>1, <4>1
      <4> QED
        BY <4>1, <4>2, <4>3
    <3>3. Acknowledged(e)' = x
      <4>1. Acknowledged(e)' = sent[e] - Len(buffer'[e])
        BY <1>2 DEF Acknowledged
      <4>2. sent[e] \in Nat /\ Len(b) \in Nat /\ a = sent[e] - Len(b)
        BY <1>5
      <4>3. Len(buffer'[e]) = Len(b) - (x - a)
        BY <3>2
      <4> QED
        <5>1. x \in Nat /\ a \in Nat /\ a <= x /\ x <= sent[e]
          BY <1>3, <1>6
        <5>2. sent[e] - (Len(b) - (x - a)) = x
          BY <4>2, <5>1, Dropping
        <5> QED
          BY <4>1, <4>3, <5>2
    <3>4. \A i \in 1..Len(buffer'[e]): buffer'[e][i].id = x + i
      <4> SUFFICES ASSUME NEW i \in 1..Len(buffer'[e])
                   PROVE  buffer'[e][i].id = x + i
        OBVIOUS
      <4>1. d + 1 + i - 1 \in 1..Len(b) /\ buffer'[e][i] = b[d + 1 + i - 1]
        BY <3>2
      <4>2. buffer'[e][i].id = a + (d + 1 + i - 1)
        BY <1>5, <4>1
      <4>3. x \in Nat /\ i \in Nat /\ x - a = d
        BY <1>3
      <4> HIDE DEF d
      <4>4. a + (d + 1 + i - 1) = x + i
        BY <3>1, <4>3
      <4> QED
        BY <4>2, <4>4
    <3>5. Numbered(buffer'[e], sent[e])
      <4> HIDE DEF d
      <4>1. Numbered(SubSeq(b, d + 1, Len(b)), sent[e])
        <5>1. Len(b) \in Nat /\ Len(b) <= Len(b) /\ b \in Seq(Chunk) /\ sent[e] \in Nat
          BY <1>5
        <5>2. Numbered(b, sent[e])
          BY <1>5
        <5> QED
          BY <3>1, <5>1, <5>2, NumberedPart
      <4> QED
        BY <1>4, <4>1
    <3>6. Len(buffer'[e]) <= Window
      BY <1>0, <1>5, <3>1, <3>2
    <3>7. x \in 0..Len(got[Peer(e)])
      BY <1>0, <1>1, <1>3
    <3> QED
      BY <1>4, <2>1, <3>3, <3>4, <3>5, <3>6, <3>7
  <2>2. CASE y # e
    BY <1>0, <1>2, <1>4, <2>2 DEF BufferInv, Acknowledged
  <2> QED
    BY <2>1, <2>2
<1>10. InboxInv'
  <2> SUFFICES ASSUME NEW y \in End
               PROVE  /\ Numbered(inbox'[y], sent[Peer(y)])
                      /\ \A i \in 1..Len(inbox'[y]):
                            (Len(got[y]) + Len(inbox'[y])) - inbox'[y][i].id <= Half + PacketSize
    BY <1>2 DEF InboxInv, Numbered
  <2>1. CASE y = e
    <3>1. Numbered(p.chunks, sent[Peer(e)]) /\ Len(p.chunks) <= PacketSize
      BY <1>0, <1>2 DEF NetInv
    <3>2. \A i \in 1..Len(p.chunks): Len(got[e]) - p.chunks[i].id <= Half
      BY <1>2 DEF Fresh
    <3>3. Len(got[e]) \in Nat /\ Len(p.chunks) \in Nat
      <4>1. p.chunks \in Seq(Chunk) /\ got[e] \in Seq(Nat)
        BY <1>1 DEF Packet
      <4> QED
        BY <4>1
    <3>4. \A i \in 1..Len(p.chunks): p.chunks[i].id \in Nat
      BY <3>1 DEF Numbered
    <3> DEFINE g == Len(got[e])
               m == Len(p.chunks)
    <3>5. g \in Nat /\ m \in Nat /\ m <= PacketSize
      BY <3>1, <3>3
    <3>6. \A i \in 1..m: p.chunks[i].id \in Nat /\ g - p.chunks[i].id <= Half
      BY <3>2, <3>4
    <3> HIDE DEF g, m
    <3>7. \A i \in 1..m: (g + m) - p.chunks[i].id <= Half + PacketSize
      BY <1>0, <3>5, <3>6
    <3> QED
      BY <1>4, <2>1, <3>1, <3>7 DEF g, m
  <2>2. CASE y # e
    BY <1>0, <1>4, <2>2 DEF InboxInv
  <2> QED
    BY <2>1, <2>2
<1> QED
  BY <1>0, <1>2, <1>7, <1>8, <1>9, <1>10 DEF ConnectionInv

LEMMA NewConnectionInv ==
    ASSUME TypeOK',
           /\ state' = Each("online")
           /\ sequence' = Each(0) /\ ack' = Each(0) /\ peerAck' = Each(0)
           /\ buffer' = Each(<<>>) /\ construct' = Each(Nothing) /\ inbox' = Each(<<>>)
           /\ net' = {} /\ sent' = Each(0) /\ got' = Each(<<>>) /\ freed' = FALSE
    PROVE  ConnectionInv'
<1>1. \A e \in End: /\ sequence'[e] = 0 /\ ack'[e] = 0 /\ peerAck'[e] = 0 /\ sent'[e] = 0
                    /\ buffer'[e] = <<>> /\ construct'[e] = Nothing /\ inbox'[e] = <<>>
                    /\ got'[e] = <<>> /\ sent'[Peer(e)] = 0 /\ got'[Peer(e)] = <<>>
  BY Peers DEF Each
<1>2. 0 % MaxSequence = 0 /\ Nothing.chunks = <<>> /\ 0 <= Window /\ 0 <= PacketSize
  BY ConnectionAssumption DEF Nothing
<1>3. Len(<<>>) = 0 /\ \A n: Numbered(<<>>, n)
  BY DEF Numbered
<1>4. CounterInv'
  BY <1>1, <1>2, <1>3 DEF CounterInv
<1>5. BufferInv'
  <2>1. \A e \in End: Acknowledged(e)' = 0
    BY <1>1, <1>3 DEF Acknowledged
  <2>2. \A e \in End: /\ Len(buffer'[e]) <= Window /\ Acknowledged(e)' \in 0..Len(got'[Peer(e)])
                      /\ peerAck'[e] = Acknowledged(e)' % MaxSequence
                      /\ \A i \in 1..Len(buffer'[e]): buffer'[e][i].id = Acknowledged(e)' + i
                      /\ Numbered(buffer'[e], sent'[e])
    BY <1>1, <1>2, <1>3, <2>1
  <2> QED
    BY <2>2 DEF BufferInv, Acknowledged, Numbered
<1>6. ConstructInv'
  <2>1. \A e \in End: Len(construct'[e].chunks) <= PacketSize /\ Numbered(construct'[e].chunks, sent'[e])
    BY <1>1, <1>2, <1>3
  <2> QED
    BY <2>1 DEF ConstructInv, Numbered
<1>7. InboxInv'
  <2>1. \A e \in End: Numbered(inbox'[e], sent'[Peer(e)]) /\ 1..Len(inbox'[e]) = {}
    BY <1>1, <1>3
  <2> QED
    BY <2>1 DEF InboxInv, Numbered
<1>8. NetInv'
  BY DEF NetInv
<1> QED
  BY <1>4, <1>5, <1>6, <1>7, <1>8 DEF ConnectionInv

LEMMA InitInv == Init => ConnectionInv
<1> SUFFICES ASSUME Init
             PROVE  ConnectionInv
  OBVIOUS
<1>1. \A e \in End: /\ sequence[e] = 0 /\ ack[e] = 0 /\ peerAck[e] = 0 /\ sent[e] = 0
                    /\ buffer[e] = <<>> /\ construct[e] = Nothing /\ inbox[e] = <<>>
                    /\ got[e] = <<>> /\ sent[Peer(e)] = 0 /\ got[Peer(e)] = <<>>
  BY Peers DEF Init, Each
<1>2. 0 % MaxSequence = 0 /\ Nothing.chunks = <<>> /\ 0 <= Window /\ 0 <= PacketSize
  BY ConnectionAssumption DEF Nothing
<1>3. Len(<<>>) = 0 /\ \A n: Numbered(<<>>, n)
  BY DEF Numbered
<1>4. CounterInv
  BY <1>1, <1>2, <1>3 DEF CounterInv
<1>5. BufferInv
  <2>1. \A e \in End: Acknowledged(e) = 0
    BY <1>1, <1>3 DEF Acknowledged
  <2> QED
    BY <1>1, <1>2, <1>3, <2>1 DEF BufferInv
<1>6. ConstructInv
  BY <1>1, <1>2, <1>3 DEF ConstructInv
<1>7. InboxInv
  <2>1. \A e \in End: Numbered(inbox[e], sent[Peer(e)]) /\ 1..Len(inbox[e]) = {}
    BY <1>1, <1>3
  <2> QED
    BY <2>1 DEF InboxInv
<1>8. NetInv /\ ~freed
  BY DEF NetInv, Init
<1> QED
  BY <1>4, <1>5, <1>6, <1>7, <1>8, InitTypes DEF ConnectionInv

LEMMA NextInv ==
    ASSUME Fitting
    PROVE  ConnectionInv /\ TypeOK' /\ [Next]_vars /\ [~TakeOver]_vars => ConnectionInv'
<1> SUFFICES ASSUME ConnectionInv, TypeOK', [Next]_vars, [~TakeOver]_vars
             PROVE  ConnectionInv'
  OBVIOUS
<1>0. CounterInv /\ BufferInv /\ ConstructInv /\ NetInv /\ InboxInv /\ ~freed
  BY DEF ConnectionInv
<1>1. ASSUME NEW e \in End, Send(e)
      PROVE  ConnectionInv'
  BY <1>1, SendInv
<1>2. ASSUME NEW e \in End, SendRefused(e)
      PROVE  ConnectionInv'
  <2>1. /\ state[e] = "error" /\ sequence' = [sequence EXCEPT ![e] = NextSeq(@)]
        /\ UNCHANGED <<state, ack, peerAck, buffer, construct, inbox, net, sent, got, freed>>
    BY <1>2 DEF SendRefused, slotVars
  <2>2. \A x \in End: state[x] = "online" => sequence'[x] = sequence[x]
    <3>1. sequence \in [End -> 0..MaxSequence - 1]
      BY DEF ConnectionInv, TypeOK
    <3> QED
      BY <2>1, <3>1
  <2>3. CounterInv'
    BY <1>0, <2>1, <2>2 DEF CounterInv
  <2> QED
    BY <1>0, <2>1, <2>3 DEF ConnectionInv, BufferInv, Acknowledged, ConstructInv, NetInv, InboxInv, Numbered
<1>3. ASSUME NEW e \in End, Update(e)
      PROVE  ConnectionInv'
  BY <1>3, UpdateInv
<1>4. ASSUME NEW e \in End, TimeOut(e)
      PROVE  ConnectionInv'
  <2>1. /\ state' = [state EXCEPT ![e] = "error"]
        /\ UNCHANGED <<sequence, ack, peerAck, buffer, construct, inbox, net, sent, got, freed>>
    BY <1>4 DEF TimeOut, slotVars
  <2>2. \A x \in End: state'[x] = "online" => state[x] = "online"
    <3>1. state \in [End -> {"online", "error"}]
      BY DEF ConnectionInv, TypeOK
    <3> QED
      BY <2>1, <3>1
  <2>3. CounterInv'
    BY <1>0, <2>1, <2>2 DEF CounterInv
  <2> QED
    BY <1>0, <2>1, <2>3 DEF ConnectionInv, BufferInv, Acknowledged, ConstructInv, NetInv, InboxInv, Numbered
<1>5. ASSUME NEW e \in End, FetchChunk(e)
      PROVE  ConnectionInv'
  BY <1>5, FetchInv
<1>6. ASSUME NEW e \in End, SkipChunk(e)
      PROVE  ConnectionInv'
  BY <1>6, SkipInv
<1>7. ASSUME NEW e \in End, NEW p \in net, Feed(e, p)
      PROVE  ConnectionInv'
  BY <1>7, FeedInv
<1>8. ASSUME NEW e \in End, NEW p \in net, FeedRefused(e, p)
      PROVE  ConnectionInv'
  <2>1. /\ net' \subseteq net
        /\ UNCHANGED <<state, sequence, ack, peerAck, buffer, construct, inbox, sent, got, freed>>
    BY <1>8 DEF FeedRefused, endVars, slotVars
  <2>2. NetInv'
    BY <1>0, <2>1 DEF NetInv, Numbered
  <2> QED
    BY <1>0, <2>1, <2>2 DEF ConnectionInv, CounterInv, BufferInv, Acknowledged, ConstructInv, InboxInv, Numbered
<1>9. ASSUME Reconnect
      PROVE  ConnectionInv'
  BY <1>9, NewConnectionInv DEF Reconnect
<1>10. ASSUME ReuseSlot
       PROVE  ConnectionInv'
  BY <1>0, <1>10 DEF ReuseSlot
<1>11. ASSUME UNCHANGED vars
       PROVE  ConnectionInv'
  BY <1>0, <1>11 DEF vars, endVars, slotVars, ConnectionInv, CounterInv, BufferInv, Acknowledged,
     ConstructInv, NetInv, InboxInv, Numbered
<1> QED
  BY <1>1, <1>2, <1>3, <1>4, <1>5, <1>6, <1>7, <1>8, <1>9, <1>10, <1>11 DEF Next

-----------------------------------------------------------------------------
(* What a connection promises that is not taken over. *)

\* The invariant: m_Sequence, m_Ack, m_PeerAck and m_Buffer of the ends and the
\* packets on their way agree on which messages were sent and received.
THEOREM ConnectionInvariant ==
    ASSUME Fitting
    PROVE  Spec /\ [][~TakeOver]_vars => []ConnectionInv
<1>1. Spec => []TypeOK
  BY ConnectionTypes
<1> QED
  BY <1>1, InitInv, NextInv, PTL DEF Spec

\* AckChunks never drops a chunk that the peer still waits for.
THEOREM AwaitedChunksAreKept ==
    ASSUME Fitting
    PROVE  Spec /\ [][~TakeOver]_vars => []AwaitedChunkIsKept
<1>1. ConnectionInv => AwaitedChunkIsKept
  <2> SUFFICES ASSUME ConnectionInv, NEW e \in End, Len(got[e]) < sent[Peer(e)]
               PROVE  \E i \in 1..Len(buffer[Peer(e)]): buffer[Peer(e)][i].id = Len(got[e]) + 1
    BY DEF AwaitedChunkIsKept
  <2> DEFINE q == Peer(e)
             i == Len(got[e]) + 1 - Acknowledged(q)
  <2>1. q \in End /\ Peer(q) = e
    BY Peers
  <2>2. Len(got[e]) \in Nat /\ Len(buffer[q]) \in Nat /\ sent[q] \in Nat
    <3>1. sent \in [End -> Nat] /\ got \in [End -> Seq(Nat)] /\ buffer \in [End -> Seq(Chunk)]
      BY DEF ConnectionInv, TypeOK
    <3> QED
      BY <2>1, <3>1
  <2>3. /\ Acknowledged(q) = sent[q] - Len(buffer[q]) /\ Acknowledged(q) \in 0..Len(got[e])
        /\ \A k \in 1..Len(buffer[q]): buffer[q][k].id = Acknowledged(q) + k
    BY <2>1 DEF ConnectionInv, BufferInv, Acknowledged
  <2>4. i \in 1..Len(buffer[q]) /\ Acknowledged(q) + i = Len(got[e]) + 1
    <3> DEFINE a == Acknowledged(q)
               g == Len(got[e])
               l == Len(buffer[q])
               s == sent[q]
    <3>1. g \in Nat /\ l \in Nat /\ s \in Nat /\ a = s - l /\ a \in 0..g /\ g < s
      BY <2>2, <2>3
    <3> HIDE DEF a, g, l, s
    <3>2. g + 1 - a \in 1..l /\ a + (g + 1 - a) = g + 1
      BY <3>1
    <3> QED
      BY <3>2 DEF a, g, l
  <2> QED
    BY <2>3, <2>4
<1> QED
  BY <1>1, ConnectionInvariant, PTL

\* Feed never refuses the current ack of the peer.
THEOREM CurrentAcksAreValid ==
    ASSUME Fitting
    PROVE  Spec /\ [][~TakeOver]_vars => []CurrentAckIsValid
<1>1. ConnectionInv => CurrentAckIsValid
  <2> SUFFICES ASSUME ConnectionInv, NEW e \in End, state[e] = "online"
               PROVE  AckValid(e, ack[Peer(e)])
    BY DEF CurrentAckIsValid
  <2> DEFINE a == Acknowledged(e)
             s == sent[e]
             x == Len(got[Peer(e)])
  <2>0. /\ Peer(e) \in End /\ Peer(Peer(e)) = e
        /\ MaxSequence \in Nat /\ Window \in Nat /\ Window < MaxSequence
    BY Peers, ConnectionAssumption, FittingBounds
  <2>1. s \in Nat /\ x \in Nat /\ Len(buffer[e]) \in Nat
    <3>1. sent \in [End -> Nat] /\ got \in [End -> Seq(Nat)] /\ buffer \in [End -> Seq(Chunk)]
      BY DEF ConnectionInv, TypeOK
    <3> QED
      BY <2>0, <3>1
  <2>2. /\ a \in 0..x /\ peerAck[e] = a % MaxSequence /\ a = s - Len(buffer[e])
        /\ Len(buffer[e]) <= Window
    BY DEF ConnectionInv, BufferInv, Acknowledged
  <2>3. /\ x <= s /\ ack[Peer(e)] = x % MaxSequence /\ sequence[e] = s % MaxSequence
    BY <2>0 DEF ConnectionInv, CounterInv
  <2> HIDE DEF a, s, x
  <2>4. a \in Nat /\ a <= x /\ a <= s /\ s - a < MaxSequence /\ s - x < MaxSequence
    BY <2>0, <2>1, <2>2, <2>3
  <2> QED
    BY <2>1, <2>2, <2>3, <2>4, ValidAck DEF AckValid
<1> QED
  BY <1>1, ConnectionInvariant, PTL

\* A chunk is received only as the next message of the connection: CNetConnection
\* implements a reliable channel, also when the client comes back.
THEOREM ConnectionImplementsChannel ==
    ASSUME Fitting
    PROVE  Spec /\ [][~TakeOver]_vars => ImplementsChannel
<1>1. Init => Channel!Init
  BY DEF Init, Channel!Init, Each
<1>2. ASSUME ConnectionInv, [Next]_vars
      PROVE  [Channel!Next]_<<sent, got>>
  <2>1. ASSUME NEW e \in End, Send(e)
        PROVE  Channel!Send(e)
    BY <2>1 DEF Send, Channel!Send
  <2>2. ASSUME NEW e \in End, FetchChunk(e)
        PROVE  Channel!Receive(e)
    <3>1. /\ Head(inbox[e]).id = Len(got[e]) + 1 /\ Len(got[e]) + 1 <= sent[Peer(e)]
      BY <1>2, <2>2, NextMessage DEF FetchChunk
    <3>2. Peer(e) \in End \ {e}
      BY Peers
    <3>3. sent[Peer(e)] \in Nat /\ Len(got[e]) \in Nat /\ got \in [End -> Seq(Nat)]
      <4>1. sent \in [End -> Nat] /\ got \in [End -> Seq(Nat)]
        BY <1>2 DEF ConnectionInv, TypeOK
      <4> QED
        BY <3>2, <4>1
    <3>4. Len(got[e]) < sent[Peer(e)]
      BY <3>1, <3>3
    <3> QED
      BY <2>2, <3>1, <3>2, <3>3, <3>4 DEF FetchChunk, Channel!Receive
  <2>3. ASSUME Reconnect
        PROVE  Channel!Restart
    BY <2>3 DEF Reconnect, Channel!Restart, Each
  <2>4. ASSUME \/ \E e \in End: \/ SendRefused(e) \/ Update(e) \/ TimeOut(e) \/ SkipChunk(e)
                                \/ \E p \in net: Feed(e, p) \/ FeedRefused(e, p)
               \/ TakeOver \/ ReuseSlot \/ UNCHANGED vars
        PROVE  UNCHANGED <<sent, got>>
    BY <2>4 DEF SendRefused, Update, UpdateWith, TimeOut, SkipChunk, Feed, FeedRefused, TakeOver, ReuseSlot, vars
  <2> QED
    BY <1>2, <2>1, <2>2, <2>3, <2>4 DEF Next, Channel!Next
<1> QED
  BY <1>1, <1>2, ConnectionInvariant, PTL DEF Spec, ImplementsChannel, Channel!Spec, Channel!vars

=============================================================================
