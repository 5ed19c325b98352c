---------------------------- MODULE OFSocket_proofs ----------------------------
(***************************************************************************)
(* Proofs about the connection to the controller, for packets and buffers  *)
(* of any size and any number of packets.                                  *)
(*                                                                         *)
(* The stream is what the controller holds of a packet, what is in the     *)
(* kernel's buffer and what is still to be written.  A write and a read    *)
(* that completes no packet only move the borders between the three; a     *)
(* packet that is taken is added at the end, and a packet that the         *)
(* controller completes goes from the front.                               *)
(***************************************************************************)
EXTENDS OFSocket, SequenceTheorems, TLAPS

StreamTypeOK ==
  /\ partial \in Seq(Unit) /\ sent \in Seq(Unit) /\ unsent \in Seq(Unit)
  /\ next \in 0..(Numbers - 1) /\ expected \in 0..(Numbers - 1)
  /\ Len(partial) < PacketLength

(* Without a connection nothing is on its way, and after the end of the    *)
(* process there is none.                                                  *)
ConnectionOK ==
  /\ peer \/ inTask \/ unsent # <<>> => active
  /\ active => running
  /\ ~active /\ running => partial = <<>> /\ sent = <<>> /\ next = expected

stream == partial \o sent \o unsent

(* StreamIsWhole, of any stream.                                           *)
Whole(s, from, to) ==
  /\ Len(s) % PacketLength = 0
  /\ \A i \in DOMAIN s :
       s[i] = [packet |-> (from + (i - 1) \div PacketLength) % Numbers,
               part   |-> ((i - 1) % PacketLength) + 1]
  /\ to = (from + Len(s) \div PacketLength) % Numbers

IInv == StreamTypeOK /\ ConnectionOK /\ StreamIsWhole

-----------------------------------------------------------------------------
(* The numbers of packets and parts.                                       *)
LEMMA Division ==
  ASSUME NEW n \in Nat \ {0}, NEW a \in Nat
  PROVE  /\ a \div n \in Nat /\ a % n \in 0..(n - 1)
         /\ a = n * (a \div n) + (a % n)
OBVIOUS

LEMMA Quotient ==
  ASSUME NEW n \in Nat \ {0}, NEW q \in Nat, NEW r \in 0..(n - 1)
  PROVE  (n * q + r) \div n = q /\ (n * q + r) % n = r
OBVIOUS

LEMMA Multiple ==
  ASSUME NEW n \in Nat \ {0}, NEW q \in Nat, NEW a, a = n * q
  PROVE  a \div n = q /\ a % n = 0
OBVIOUS

LEMMA ModAdd ==
  ASSUME NEW n \in Nat \ {0}, NEW a \in Nat, NEW b \in Nat
  PROVE  ((a % n) + b) % n = (a + b) % n
<1> DEFINE q == a \div n
           c == (a % n) + b
           p == c \div n
<1>1. q \in Nat /\ a % n \in Nat /\ a = n * q + (a % n)
  BY Division
<1>2. c \in Nat
  BY <1>1
<1>3. p \in Nat /\ c % n \in 0..(n - 1) /\ c = n * p + (c % n)
  BY <1>2, Division
<1> HIDE DEF q, p
<1>4. a + b = n * q + c
  BY <1>1
<1> HIDE DEF c
<1>5. a + b = n * (q + p) + (c % n)
  <2>1. n * (q + p) = n * q + n * p
    BY <1>1, <1>3
  <2> QED BY <1>1, <1>2, <1>3, <1>4, <2>1
<1>6. q + p \in Nat
  BY <1>1, <1>3
<1>7. (a + b) % n = c % n
  BY <1>3, <1>5, <1>6, Quotient
<1> QED BY <1>7 DEF c

LEMMA Constants ==
  /\ PacketLength \in Nat \ {0} /\ Numbers \in Nat \ {0}
BY SocketAssumption

(* A packet added to whole packets.                                        *)
LEMMA WholeGrows ==
  ASSUME NEW s \in Seq(Unit), NEW from \in Nat, NEW to \in 0..(Numbers - 1), Whole(s, from, to)
  PROVE  /\ s \o Units(to) \in Seq(Unit)
         /\ Whole(s \o Units(to), from, (to + 1) % Numbers)
<1> DEFINE L == PacketLength
           q == Len(s) \div L
           u == Units(to)
           t == s \o u
<1>1. L \in Nat \ {0} /\ Numbers \in Nat \ {0}
  BY Constants
<1>2. /\ q \in Nat /\ Len(s) \in Nat /\ Len(s) = L * q
      /\ to = (from + q) % Numbers
  <2>1. Len(s) \in Nat /\ Len(s) % L = 0
    BY DEF Whole
  <2>2. q \in Nat /\ Len(s) = L * q + (Len(s) % L)
    BY <1>1, <2>1, Division
  <2>3. L * q \in Nat
    BY <1>1, <2>2
  <2> QED BY <2>1, <2>2, <2>3 DEF Whole
<1>3. /\ u \in Seq(Unit) /\ Len(u) = L
      /\ \A i \in 1..L : u[i] = [packet |-> to, part |-> i]
  <2>1. \A i \in 1..L : [packet |-> to, part |-> i] \in Unit
    BY <1>1 DEF Unit
  <2> QED BY <1>1, <2>1 DEF Units
<1>4. /\ t \in Seq(Unit) /\ Len(t) = Len(s) + L
      /\ \A i \in 1..(Len(s) + L) : t[i] = IF i <= Len(s) THEN s[i] ELSE u[i - Len(s)]
  <2> HIDE DEF u
  <2>1. /\ t \in Seq(Unit) /\ Len(t) = Len(s) + Len(u)
        /\ \A i \in 1..(Len(s) + Len(u)) : t[i] = IF i <= Len(s) THEN s[i] ELSE u[i - Len(s)]
    BY <1>3, ConcatProperties
  <2> QED BY <1>3, <2>1
<1>5. DOMAIN t = 1..(Len(s) + L)
  BY <1>4
<1> HIDE DEF q, u, t
<1>6. Len(t) % L = 0 /\ Len(t) \div L = q + 1
  <2>1. Len(t) = L * (q + 1) /\ q + 1 \in Nat
    <3>1. L * (q + 1) = L * q + L
      BY <1>1, <1>2
    <3> QED BY <1>1, <1>2, <1>4, <3>1
  <2> HIDE DEF L
  <2> QED BY <1>1, <2>1, Multiple
<1>7. ASSUME NEW i \in DOMAIN t
      PROVE  t[i] = [packet |-> (from + (i - 1) \div L) % Numbers, part |-> ((i - 1) % L) + 1]
  <2>1. CASE i <= Len(s)
    <3>1. i \in DOMAIN s
      BY <1>2, <1>5, <2>1
    <3> QED BY <1>4, <1>5, <2>1, <3>1 DEF Whole
  <2>2. CASE i > Len(s)
    <3> DEFINE k == i - Len(s)
    <3>1. k \in 1..L /\ i - 1 = L * q + (k - 1) /\ k - 1 \in 0..(L - 1)
      BY <1>1, <1>2, <1>5, <2>2
    <3>2. t[i] = [packet |-> to, part |-> k]
      <4>1. t[i] = u[i - Len(s)]
        BY <1>2, <1>4, <1>5, <2>2
      <4> QED BY <1>3, <3>1, <4>1
    <3> HIDE DEF k, L
    <3>3. (i - 1) \div L = q /\ (i - 1) % L = k - 1
      BY <1>1, <1>2, <3>1, Quotient
    <3>4. (k - 1) + 1 = k
      BY <3>1
    <3> QED BY <1>2, <3>2, <3>3, <3>4
  <2> QED BY <1>2, <1>5, <2>1, <2>2
<1>8. (to + 1) % Numbers = (from + (q + 1)) % Numbers
  <2>1. (((from + q) % Numbers) + 1) % Numbers = ((from + q) + 1) % Numbers
    <3>1. from + q \in Nat /\ 1 \in Nat
      BY <1>2
    <3> QED BY <1>1, <3>1, ModAdd
  <2>2. (from + q) + 1 = from + (q + 1)
    BY <1>2
  <2> QED BY <1>2, <2>1, <2>2
<1>9. Whole(t, from, (to + 1) % Numbers)
  BY <1>6, <1>7, <1>8 DEF Whole, L
<1> QED BY <1>4, <1>9 DEF t, u

(* Whole packets without the first of them.                                *)
LEMMA WholeShrinks ==
  ASSUME NEW s \in Seq(Unit), NEW from \in Nat, NEW to, Whole(s, from, to),
         NEW t \in Seq(Unit), Len(s) = Len(t) + PacketLength,
         \A i \in DOMAIN t : t[i] = s[i + PacketLength]
  PROVE  Whole(t, (from + 1) % Numbers, to)
<1> DEFINE L == PacketLength
           q == Len(t) \div L
<1>1. L \in Nat \ {0} /\ Numbers \in Nat \ {0} /\ Len(s) \in Nat /\ Len(t) \in Nat
      /\ DOMAIN t = 1..Len(t) /\ DOMAIN s = 1..Len(s)
  BY Constants
<1>2. /\ q \in Nat /\ Len(t) = L * q
      /\ Len(s) \div L = q + 1 /\ Len(t) % L = 0
  <2> DEFINE r == Len(t) % L
  <2>1. q \in Nat /\ r \in 0..(L - 1) /\ Len(t) = L * q + r
    BY <1>1, Division
  <2> HIDE DEF q, r
  <2>2. Len(s) = L * (q + 1) + r /\ q + 1 \in Nat
    <3>1. L * (q + 1) = L * q + L
      BY <1>1, <2>1
    <3> QED BY <1>1, <2>1, <3>1
  <2>3. Len(s) % L = r /\ Len(s) \div L = q + 1
    <3> HIDE DEF L
    <3> QED BY <1>1, <2>1, <2>2, Quotient
  <2>4. r = 0
    BY <2>3 DEF Whole
  <2>5. L * q \in Nat
    BY <1>1, <2>1
  <2> QED BY <2>1, <2>3, <2>4, <2>5 DEF r
<1> HIDE DEF q
<1>3. ASSUME NEW i \in DOMAIN t
      PROVE  t[i] = [packet |-> (((from + 1) % Numbers) + (i - 1) \div L) % Numbers,
                     part |-> ((i - 1) % L) + 1]
  <2> DEFINE a == (i - 1) \div L
             b == (i - 1) % L
             j == i + L
  <2>1. i - 1 \in Nat /\ j \in DOMAIN s /\ i \in Nat /\ t[i] = s[j] /\ j - 1 = (i - 1) + L
    BY <1>1
  <2>2. a \in Nat /\ b \in 0..(L - 1) /\ i - 1 = L * a + b
    BY <1>1, <2>1, Division
  <2> HIDE DEF a, b, j
  <2>3. j - 1 = L * (a + 1) + b /\ a + 1 \in Nat
    <3>1. L * (a + 1) = L * a + L
      BY <1>1, <2>2
    <3>2. L * a + b + L = L * (a + 1) + b
      BY <1>1, <2>2, <3>1
    <3> QED BY <2>1, <2>2, <3>2
  <2>4. (j - 1) \div L = a + 1 /\ (j - 1) % L = b
    <3> HIDE DEF L
    <3> QED BY <1>1, <2>2, <2>3, Quotient
  <2>5. s[j] = [packet |-> (from + (a + 1)) % Numbers, part |-> b + 1]
    BY <2>1, <2>4 DEF Whole
  <2>6. (from + (a + 1)) % Numbers = (((from + 1) % Numbers) + a) % Numbers
    <3>1. (((from + 1) % Numbers) + a) % Numbers = ((from + 1) + a) % Numbers
      <4>1. from + 1 \in Nat
        OBVIOUS
      <4> QED BY <1>1, <2>2, <4>1, ModAdd
    <3>2. (from + 1) + a = from + (a + 1)
      BY <2>2
    <3> QED BY <3>1, <3>2
  <2> QED BY <2>1, <2>5, <2>6 DEF a, b
<1>4. to = (((from + 1) % Numbers) + q) % Numbers
  <2>1. to = (from + (q + 1)) % Numbers
    BY <1>2 DEF Whole
  <2>2. (((from + 1) % Numbers) + q) % Numbers = ((from + 1) + q) % Numbers
    <3>1. from + 1 \in Nat
      OBVIOUS
    <3> QED BY <1>1, <1>2, <3>1, ModAdd
  <2>3. (from + 1) + q = from + (q + 1)
    BY <1>2
  <2> QED BY <2>1, <2>2, <2>3
<1> QED BY <1>2, <1>3, <1>4 DEF Whole, q

-----------------------------------------------------------------------------
LEMMA StreamUnfolds == StreamIsWhole <=> (active => Whole(stream, expected, next))
BY DEF StreamIsWhole, Whole, stream

LEMMA StreamType ==
  ASSUME StreamTypeOK
  PROVE  /\ stream \in Seq(Unit)
         /\ partial \o sent \in Seq(Unit)
         /\ stream = (partial \o sent) \o unsent
<1>1. partial \o sent \in Seq(Unit)
  BY ConcatProperties DEF StreamTypeOK
<1> QED BY <1>1, ConcatProperties DEF StreamTypeOK, stream

LEMMA InitIInv == Init => IInv
<1> SUFFICES ASSUME Init PROVE IInv
  OBVIOUS
<1>1. StreamTypeOK
  BY Constants DEF Init, StreamTypeOK
<1>2. ConnectionOK
  BY DEF Init, ConnectionOK
<1>3. Whole(stream, expected, next)
  <2>1. stream = <<>>
    BY DEF Init, stream
  <2>2. 0 = PacketLength * 0 /\ 0 \in Nat
    BY Constants
  <2>3. 0 % PacketLength = 0 /\ 0 \div PacketLength = 0
    BY <2>2, Constants, Multiple
  <2>4. 0 % Numbers = 0
    BY Constants
  <2> QED BY <2>1, <2>3, <2>4 DEF Init, Whole
<1> QED BY <1>1, <1>2, <1>3, StreamUnfolds DEF IInv

LEMMA Reassociate ==
  ASSUME NEW x \in Seq(Unit), NEW y \in Seq(Unit), NEW z \in Seq(Unit)
  PROVE  (x \o y) \o z = x \o (y \o z)
<1> DEFINE l == (x \o y) \o z
           r == x \o (y \o z)
<1>1. /\ x \o y \in Seq(Unit) /\ y \o z \in Seq(Unit)
      /\ Len(x \o y) = Len(x) + Len(y) /\ Len(y \o z) = Len(y) + Len(z)
  BY ConcatProperties
<1>2. l \in Seq(Unit) /\ r \in Seq(Unit) /\ Len(l) = Len(r)
  BY <1>1, ConcatProperties
<1>3. ASSUME NEW i \in 1..Len(l) PROVE l[i] = r[i]
  OBVIOUS
<1> HIDE DEF l, r
<1> QED BY <1>2, <1>3, SeqEqual

(* A partial write moves the border between the kernel's buffer and what   *)
(* is still to be written.                                                 *)
LEMMA WriteKeeps ==
  ASSUME IInv, Write
  PROVE  IInv'
<1>1. PICK n \in 1..Len(unsent) :
        /\ sent' = sent \o SubSeq(unsent, 1, n)
        /\ unsent' = SubSeq(unsent, n + 1, Len(unsent))
  BY DEF Write
<1>2. /\ active /\ UNCHANGED <<running, active, peer, inTask, partial, expected, next>>
  BY DEF Write, server, task, controller
<1>3. partial \in Seq(Unit) /\ sent \in Seq(Unit) /\ unsent \in Seq(Unit)
  BY DEF IInv, StreamTypeOK
<1> DEFINE A == SubSeq(unsent, 1, n)
           B == SubSeq(unsent, n + 1, Len(unsent))
<1>4. A \in Seq(Unit) /\ B \in Seq(Unit)
  <2>1. \A i \in 1..Len(unsent) : unsent[i] \in Unit
    BY <1>3
  <2>2. n \in Nat /\ Len(unsent) \in Nat /\ 1 \in Int /\ n \in Int /\ n + 1 \in Int /\ Len(unsent) \in Int
        /\ n <= Len(unsent) /\ n >= 1
    BY <1>3
  <2>3. \A i \in 1..n : unsent[i] \in Unit
    BY <2>1, <2>2
  <2>4. \A i \in (n + 1)..Len(unsent) : unsent[i] \in Unit
    BY <2>1, <2>2
  <2>5. A \in Seq(Unit)
    BY <2>2, <2>3, SubSeqProperties
  <2>6. B \in Seq(Unit)
    BY <2>2, <2>4, SubSeqProperties
  <2> QED BY <2>5, <2>6
<1>5. A \o B = unsent
  <2>1. /\ 1 \in 1..(Len(unsent) + 1) /\ n \in (1 - 1)..Len(unsent)
        /\ Len(unsent) \in n..Len(unsent)
    BY <1>3
  <2>2. A \o B = SubSeq(unsent, 1, Len(unsent))
    BY <1>3, <2>1, ConcatAdjacentSubSeq
  <2> QED BY <1>3, <2>2, SubSeqFull
<1> HIDE DEF A, B
<1>6. sent \o A \in Seq(Unit)
  BY <1>3, <1>4, ConcatProperties
<1>7. stream' = stream
  <2>1. stream' = (partial \o (sent \o A)) \o B
    BY <1>1, <1>2 DEF stream, A, B
  <2>2. partial \o (sent \o A) = (partial \o sent) \o A
    BY <1>3, <1>4, Reassociate
  <2>3. ((partial \o sent) \o A) \o B = (partial \o sent) \o (A \o B)
    <3>1. partial \o sent \in Seq(Unit)
      BY StreamType DEF IInv
    <3> QED BY <1>3, <1>4, <3>1, Reassociate
  <2> QED BY <1>5, <2>1, <2>2, <2>3 DEF stream
<1>8. StreamTypeOK'
  BY <1>1, <1>2, <1>4, <1>6 DEF IInv, StreamTypeOK, A, B
<1>9. ConnectionOK'
  BY <1>2 DEF IInv, ConnectionOK
<1>10. StreamIsWhole'
  <2>1. Whole(stream, expected, next)
    BY <1>2, StreamUnfolds DEF IInv
  <2>2. Whole(stream', expected', next')
    BY <1>2, <1>7, <2>1
  <2> QED BY <2>2 DEF StreamIsWhole, Whole, stream
<1> QED BY <1>8, <1>9, <1>10 DEF IInv

(* A packet that is taken comes behind all others.                         *)
LEMMA TakeKeeps ==
  ASSUME IInv, active, TakePacket
  PROVE  IInv'
<1>1. /\ unsent = <<>> /\ unsent' = Units(next) /\ next' = (next + 1) % Numbers
      /\ UNCHANGED <<running, active, peer, inTask, partial, sent, expected>>
  BY DEF TakePacket, server, task, controller
<1>2. Whole(stream, expected, next) /\ stream \in Seq(Unit)
  BY StreamUnfolds, StreamType DEF IInv
<1>3. expected \in Nat /\ next \in 0..(Numbers - 1)
  BY Constants DEF IInv, StreamTypeOK
<1>4. Whole(stream \o Units(next), expected, (next + 1) % Numbers)
  BY <1>2, <1>3, WholeGrows
<1>5. stream' = stream \o Units(next)
  <2>1. stream = partial \o sent
    BY <1>1, StreamType, ConcatEmptySeq DEF IInv
  <2> QED BY <1>1, <2>1 DEF stream
<1>6. unsent' \in Seq(Unit)
  <2>1. \A i \in 1..PacketLength : [packet |-> next, part |-> i] \in Unit
    BY <1>3, Constants DEF Unit
  <2> QED BY <1>1, <2>1, Constants DEF Units
<1>7. next' \in 0..(Numbers - 1)
  <2>1. next + 1 \in Nat
    BY <1>3, Constants
  <2> QED BY <1>1, <2>1, Constants, Division
<1>8. StreamTypeOK'
  BY <1>1, <1>6, <1>7 DEF IInv, StreamTypeOK
<1>9. ConnectionOK'
  BY <1>1 DEF IInv, ConnectionOK
<1>10. StreamIsWhole'
  <2>1. Whole(stream', expected', next')
    BY <1>1, <1>4, <1>5
  <2> QED BY <2>1 DEF StreamIsWhole, Whole, stream
<1> QED BY <1>8, <1>9, <1>10 DEF IInv

(* A unit that the controller reads completes a packet, which goes from    *)
(* the front of the stream, or moves the border of what it holds.          *)
LEMMA ReadKeeps ==
  ASSUME IInv, ControllerReads
  PROVE  IInv'
<1> DEFINE h == Head(sent)
           rest == Tail(sent)
<1>1. /\ sent # <<>> /\ sent' = rest /\ active /\ Whole(stream, expected, next)
      /\ UNCHANGED <<running, active, peer, inTask, unsent, next>>
  BY StreamUnfolds DEF ControllerReads, IInv, ConnectionOK, server, task, output
<1>2. /\ partial \in Seq(Unit) /\ sent \in Seq(Unit) /\ unsent \in Seq(Unit)
      /\ Len(partial) < PacketLength /\ expected \in 0..(Numbers - 1) /\ expected \in Nat
      /\ next \in 0..(Numbers - 1)
  BY Constants DEF IInv, StreamTypeOK
<1>3. /\ h \in Unit /\ rest \in Seq(Unit) /\ Len(rest) = Len(sent) - 1
      /\ h = sent[1] /\ \A i \in 1..Len(rest) : rest[i] = sent[i + 1]
  BY <1>1, <1>2, HeadTailProperties
<1> HIDE DEF h, rest
<1>4. /\ stream \in Seq(Unit) /\ Len(stream) = Len(partial) + Len(sent) + Len(unsent)
      /\ \A i \in 1..Len(stream) :
           stream[i] = IF i <= Len(partial) THEN partial[i]
                       ELSE IF i <= Len(partial) + Len(sent) THEN sent[i - Len(partial)]
                       ELSE unsent[i - (Len(partial) + Len(sent))]
  <2> DEFINE ps == partial \o sent
  <2>1. /\ ps \in Seq(Unit) /\ Len(ps) = Len(partial) + Len(sent)
        /\ \A i \in 1..(Len(partial) + Len(sent)) :
             ps[i] = IF i <= Len(partial) THEN partial[i] ELSE sent[i - Len(partial)]
    BY <1>2, ConcatProperties
  <2>2. stream = ps \o unsent
    BY DEF stream
  <2> HIDE DEF ps
  <2>3. /\ ps \o unsent \in Seq(Unit) /\ Len(ps \o unsent) = Len(ps) + Len(unsent)
        /\ \A i \in 1..(Len(ps) + Len(unsent)) :
             (ps \o unsent)[i] = IF i <= Len(ps) THEN ps[i] ELSE unsent[i - Len(ps)]
    BY <1>2, <2>1, ConcatProperties
  <2>4. Len(partial) \in Nat /\ Len(sent) \in Nat /\ Len(unsent) \in Nat
    BY <1>2
  <2> QED BY <2>1, <2>2, <2>3, <2>4
<1>5. Len(partial) \in Nat /\ Len(sent) \in Nat /\ Len(rest) \in Nat /\ Len(unsent) \in Nat
      /\ PacketLength \in Nat
  BY <1>2, <1>3, Constants
<1>6. CASE Len(partial) + 1 = PacketLength
  <2>1. partial' = <<>> /\ expected' = (expected + 1) % Numbers
    BY <1>6 DEF ControllerReads
  <2> DEFINE t == rest \o unsent
  <2>2. /\ t \in Seq(Unit) /\ Len(t) = Len(rest) + Len(unsent)
        /\ \A i \in 1..(Len(rest) + Len(unsent)) :
             t[i] = IF i <= Len(rest) THEN rest[i] ELSE unsent[i - Len(rest)]
    BY <1>2, <1>3, ConcatProperties
  <2>3. stream' = t
    <3>1. stream' = (<<>> \o rest) \o unsent
      BY <1>1, <2>1 DEF stream
    <3> QED BY <1>3, <3>1, ConcatEmptySeq
  <2> HIDE DEF t
  <2>4. Len(stream) = Len(t) + PacketLength
    <3>1. Len(stream) = Len(partial) + Len(sent) + Len(unsent)
      BY <1>4
    <3>2. Len(t) = Len(rest) + Len(unsent)
      BY <2>2
    <3>3. Len(rest) = Len(sent) - 1
      BY <1>3
    <3> QED BY <1>5, <1>6, <3>1, <3>2, <3>3
  <2>5. ASSUME NEW i \in DOMAIN t PROVE t[i] = stream[i + PacketLength]
    <3>1. i \in 1..(Len(rest) + Len(unsent)) /\ i \in Nat /\ i >= 1
      BY <2>2
    <3>2. i + PacketLength \in 1..Len(stream)
      BY <1>5, <2>2, <2>4, <3>1
    <3>3. CASE i <= Len(rest)
      <4>1. t[i] = sent[i + 1]
        BY <1>3, <2>2, <3>1, <3>3
      <4>2. ~(i + PacketLength <= Len(partial)) /\ i + PacketLength <= Len(partial) + Len(sent)
            /\ (i + PacketLength) - Len(partial) = i + 1
        BY <1>2, <1>3, <1>5, <1>6, <3>1, <3>3
      <4> QED BY <1>4, <3>2, <4>1, <4>2
    <3>4. CASE ~(i <= Len(rest))
      <4>1. t[i] = unsent[i - Len(rest)]
        BY <2>2, <3>1, <3>4
      <4>2. ~(i + PacketLength <= Len(partial)) /\ ~(i + PacketLength <= Len(partial) + Len(sent))
            /\ (i + PacketLength) - (Len(partial) + Len(sent)) = i - Len(rest)
        BY <1>2, <1>3, <1>5, <1>6, <3>1, <3>4
      <4> QED BY <1>4, <3>2, <4>1, <4>2
    <3> QED BY <3>3, <3>4
  <2>6. Whole(t, (expected + 1) % Numbers, next)
    BY <1>1, <1>2, <1>4, <2>2, <2>4, <2>5, WholeShrinks
  <2>7. expected' \in 0..(Numbers - 1)
    <3>1. expected + 1 \in Nat
      BY <1>2
    <3> QED BY <2>1, <3>1, Constants, Division
  <2>8. StreamTypeOK'
    <3>1. partial' \in Seq(Unit) /\ Len(partial') < PacketLength
      BY <2>1, Constants
    <3> QED BY <1>1, <1>2, <1>3, <2>7, <3>1 DEF StreamTypeOK
  <2>9. ConnectionOK'
    BY <1>1 DEF IInv, ConnectionOK
  <2>10. StreamIsWhole'
    <3>1. Whole(stream', expected', next')
      BY <1>1, <2>1, <2>3, <2>6
    <3> QED BY <3>1 DEF StreamIsWhole, Whole, stream
  <2> QED BY <2>8, <2>9, <2>10 DEF IInv
<1>7. CASE Len(partial) + 1 # PacketLength
  <2>1. partial' = Append(partial, h) /\ UNCHANGED expected
    BY <1>7 DEF ControllerReads, h
  <2>2. partial' \in Seq(Unit) /\ Len(partial') = Len(partial) + 1
        /\ partial' = partial \o <<h>> /\ <<h>> \in Seq(Unit)
    BY <1>2, <1>3, <2>1
  <2>3. sent = <<h>> \o rest
    BY <1>1, <1>2 DEF h, rest
  <2>4. stream' = stream
    <3>1. stream' = ((partial \o <<h>>) \o rest) \o unsent
      BY <1>1, <2>2 DEF stream
    <3>2. (partial \o <<h>>) \o rest = partial \o (<<h>> \o rest)
      BY <1>2, <1>3, <2>2, Reassociate
    <3> QED BY <2>3, <3>1, <3>2 DEF stream
  <2>5. StreamTypeOK'
    BY <1>1, <1>2, <1>3, <1>5, <1>7, <2>1, <2>2 DEF StreamTypeOK
  <2>6. ConnectionOK'
    BY <1>1 DEF IInv, ConnectionOK
  <2>7. StreamIsWhole'
    <3>1. Whole(stream', expected', next')
      BY <1>1, <2>1, <2>4
    <3> QED BY <3>1 DEF StreamIsWhole, Whole, stream
  <2> QED BY <2>5, <2>6, <2>7 DEF IInv
<1> QED BY <1>6, <1>7

(* When a host is accepted nothing is on its way to anyone.                *)
LEMMA AcceptKeeps ==
  ASSUME IInv, Accept
  PROVE  IInv'
<1>1. ~active /\ running /\ UNCHANGED <<running, partial, sent, unsent, next, expected>>
  BY DEF Accept, Idle, output
<1>2. partial = <<>> /\ sent = <<>> /\ unsent = <<>> /\ next = expected
  BY <1>1 DEF IInv, ConnectionOK
<1>3. StreamTypeOK'
  BY <1>1 DEF IInv, StreamTypeOK
<1>4. ConnectionOK'
  BY <1>1, <1>2 DEF Accept, IInv, ConnectionOK
<1>5. StreamIsWhole'
  <2>1. stream' = <<>> /\ expected' \in 0..(Numbers - 1) /\ next' = expected'
    BY <1>1, <1>2 DEF stream, IInv, StreamTypeOK
  <2>2. 0 = PacketLength * 0 /\ 0 \in Nat
    BY Constants
  <2>3. 0 % PacketLength = 0 /\ 0 \div PacketLength = 0
    BY <2>2, Constants, Multiple
  <2>4. (expected' + 0) % Numbers = expected'
    <3> DEFINE e == expected'
    <3>1. e \in Nat /\ Numbers \in Nat /\ e < Numbers
      BY <2>1, Constants
    <3> HIDE DEF e
    <3>2. e % Numbers = e /\ e + 0 = e
      BY <3>1
    <3> QED BY <3>2 DEF e
  <2>5. Whole(stream', expected', next')
    BY <2>1, <2>3, <2>4 DEF Whole
  <2> QED BY <2>5 DEF StreamIsWhole, Whole, stream
<1> QED BY <1>3, <1>4, <1>5 DEF IInv

(* The end of the process is the end of the stream.                        *)
LEMMA CloseKeeps ==
  ASSUME IInv, ~peer, close_active
  PROVE  IInv'
<1>1. /\ active' = FALSE /\ running' = FALSE /\ unsent' = <<>> /\ inTask' = FALSE
      /\ UNCHANGED <<partial, sent, next, expected, peer>>
  BY DEF close_active, controller
<1>2. StreamTypeOK'
  BY <1>1 DEF IInv, StreamTypeOK
<1>3. ConnectionOK'
  BY <1>1 DEF ConnectionOK
<1>4. StreamIsWhole'
  BY <1>1 DEF StreamIsWhole
<1> QED BY <1>2, <1>3, <1>4 DEF IInv

(* Steps that leave the stream alone.                                      *)
LEMMA OthersKeep ==
  ASSUME IInv,
         UNCHANGED <<running, active, partial, sent, unsent, next, expected>>,
         peer' => peer, inTask' => active
  PROVE  IInv'
<1>1. StreamTypeOK'
  BY DEF IInv, StreamTypeOK
<1>2. ConnectionOK'
  BY DEF IInv, ConnectionOK
<1>3. StreamIsWhole'
  BY DEF IInv, StreamIsWhole
<1> QED BY <1>1, <1>2, <1>3 DEF IInv

LEMMA StepIInv == IInv /\ [Next]_vars => IInv'
<1> SUFFICES ASSUME IInv, [Next]_vars PROVE IInv'
  OBVIOUS
<1>0. (peer \/ inTask => active) /\ (active => running)
  BY DEF IInv, ConnectionOK
<1>1. CASE push
  <2>1. CASE active /\ TakePacket
    BY <2>1, TakeKeeps
  <2>2. CASE ~active
    <3>1. UNCHANGED <<mode, server, unsent, next, arrived, task, sent, controller>>
      BY <1>1, <2>2 DEF push
    <3> QED BY <1>0, <3>1, OthersKeep DEF server, task, controller
  <2> QED BY <1>1, <2>1, <2>2 DEF push
<1>2. CASE Write
  BY <1>2, WriteKeeps
<1>3. CASE WriteFails \/ ReadEnd
  BY <1>3, CloseKeeps DEF WriteFails, ReadEnd
<1>4. CASE TaskPulls
  BY <1>0, <1>4, TakeKeeps DEF TaskPulls
<1>5. CASE TaskWouldBlock \/ TaskEnds \/ RunTask
  BY <1>0, <1>5, OthersKeep DEF TaskWouldBlock, TaskEnds, RunTask, server, output, controller
<1>6. CASE Accept
  BY <1>6, AcceptKeeps
<1>7. CASE ReadMessages
  BY <1>0, <1>7, OthersKeep DEF ReadMessages, server, controller
<1>8. CASE TimerPushes
  BY <1>0, <1>8, OthersKeep DEF TimerPushes, server, controller
<1>9. CASE HostConnects \/ ControllerSends \/ ControllerCloses
  BY <1>0, <1>9, OthersKeep DEF HostConnects, ControllerSends, ControllerCloses, server, output, task, controller
<1>10. CASE ControllerReads
  BY <1>10, ReadKeeps
<1>11. CASE UNCHANGED vars
  BY <1>0, <1>11, OthersKeep DEF vars, server, output, task, controller
<1> QED BY <1>1, <1>2, <1>3, <1>4, <1>5, <1>6, <1>7, <1>8, <1>9, <1>10, <1>11 DEF Next, Handling, selected

(* The inductive invariant of the connection holds in every reachable      *)
(* state, for any sizes of packets and buffers.                            *)
THEOREM Invariance == Spec => []IInv
BY InitIInv, StepIInv, PTL DEF Spec

(* However the writes and the reads cut the stream, what the controller    *)
(* has, what is on its way and what is unwritten are together whole        *)
(* packets in the order they were taken (StreamIsWhole).                   *)
THEOREM NothingIsTorn == Spec => []StreamIsWhole
BY Invariance, PTL DEF IInv

-----------------------------------------------------------------------------
(* What is served, and by whose fault a server ends.                       *)
DeniedNotServed == host \notin Deny \ Allow

EndIsServed == ~client /\ (active \/ ~running) => host # NoHost

HostInv ==
  /\ backlog \in Seq(Hosts) /\ (~running => ~active)
  /\ DeniedNotServed /\ EndIsServed

LEMMA HostStep ==
  ASSUME HostInv, [Next]_vars
  PROVE  HostInv'
<1> DEFINE Same == UNCHANGED <<client, running, active, backlog, host>>
           Ends == /\ active /\ active' = FALSE /\ running' = FALSE
                   /\ UNCHANGED <<client, backlog, host>>
<1>1. CASE Same
  BY <1>1 DEF HostInv, DeniedNotServed, EndIsServed
<1>2. CASE Ends
  BY <1>2 DEF HostInv, DeniedNotServed, EndIsServed
<1>3. CASE Accept
  <2>1. Head(backlog) \in Hosts /\ Tail(backlog) \in Seq(Hosts)
    BY <1>3 DEF HostInv, Accept
  <2>2. /\ backlog' = Tail(backlog) /\ UNCHANGED <<client, running>> /\ ~client /\ running /\ ~active
        /\ IF allowed(Head(backlog))
           THEN active' = TRUE /\ host' = Head(backlog)
           ELSE UNCHANGED <<active, host>>
    BY <1>3 DEF Accept, mode, Idle
  <2> QED BY <2>1, <2>2, SocketAssumption
          DEF HostInv, DeniedNotServed, EndIsServed, allowed
<1>4. CASE HostConnects
  <2>1. PICK h \in Hosts : backlog' = Append(backlog, h)
    BY <1>4 DEF HostConnects
  <2>2. UNCHANGED <<client, running, active, host>>
    BY <1>4 DEF HostConnects, mode
  <2>3. backlog' \in Seq(Hosts)
    BY <2>1 DEF HostInv
  <2> QED BY <2>2, <2>3 DEF HostInv, DeniedNotServed, EndIsServed
<1>5. CASE ReadEnd \/ WriteFails
  BY <1>2, <1>5 DEF ReadEnd, WriteFails, close_active, mode
<1>6. CASE push \/ Write \/ TaskPulls \/ TaskWouldBlock \/ TaskEnds
  BY <1>1, <1>6 DEF push, Write, TaskPulls, TakePacket, TaskWouldBlock, TaskEnds, mode, server
<1>7. CASE ReadMessages \/ RunTask \/ TimerPushes
  BY <1>1, <1>7 DEF ReadMessages, RunTask, TimerPushes, mode, server
<1>8. CASE ControllerSends \/ ControllerReads \/ ControllerCloses
  BY <1>1, <1>8 DEF ControllerSends, ControllerReads, ControllerCloses, mode, server
<1>9. CASE UNCHANGED vars
  BY <1>1, <1>9 DEF vars, mode, server
<1> QED BY <1>3, <1>4, <1>5, <1>6, <1>7, <1>8, <1>9 DEF Next, Handling, selected

(* A host that is denied is never served, and the process of a server ends *)
(* only because of a host that was: what the safety parts of               *)
(* DeniedAreHarmless say of every step.                                    *)
THEOREM DeniedDoNotEndIt == Spec => []DeniedNotServed /\ []EndIsServed
<1>1. Init => HostInv
  <2> SUFFICES ASSUME Init PROVE HostInv
    OBVIOUS
  <2>1. active = client
    BY DEF Init
  <2>2. running = TRUE /\ backlog = <<>> /\ host = NoHost
    BY DEF Init
  <2>3. DeniedNotServed /\ EndIsServed
    BY <2>1, <2>2, SocketAssumption DEF DeniedNotServed, EndIsServed
  <2>4. backlog \in Seq(Hosts)
    BY <2>2
  <2> QED BY <2>1, <2>2, <2>3, <2>4 DEF HostInv
<1> QED BY <1>1, HostStep, PTL DEF Spec, HostInv
=============================================================================
