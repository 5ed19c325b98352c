-------------------------- MODULE OFClassifier_proofs --------------------------
(***************************************************************************)
(* Proofs about the control channel, for every set of reads, whatever they *)
(* hold and in whatever order they come.                                   *)
(*                                                                         *)
(* The classifier works through a read from its end.  What is still to be  *)
(* handled is therefore always the beginning of the read, and the answers  *)
(* that are out belong to the positions behind it; every step moves one    *)
(* position from the one side to the other.                                *)
(***************************************************************************)
EXTENDS OFClassifier, FiniteSetTheorems, TLAPS

(* The number of messages of the last read that are still to be handled.   *)
Left == Len(todo)

(* The number of messages that the classifier splits off a read.           *)
Split(b) == Cardinality(SplitOff(b))

(* The ids of the requests whose pieces the responder keeps.               *)
DescXids == {m.xid : m \in {n \in UNION {Range(b) : b \in Batches} : n.type = "DESC"}}

ClassifierTypeOK ==
  /\ ResponderTypeOK
  /\ batch \in Batches \cup {<<>>}
  /\ todo \in Seq(Message)

(* What is to be handled is the beginning of the read, the end of it first.*)
TodoIsFront ==
  /\ Left <= Split(batch)
  /\ \A i \in 1..Left : todo[i] = batch[Left + 1 - i]

(* Every request behind it has its answer, in front of the answers of the  *)
(* requests before it; no other request has one.                           *)
HandledAreAnswered ==
  /\ \A i \in DOMAIN batch : batch[i].type \in DOMAIN Answer =>
       IF Left < i /\ i <= Split(batch)
       THEN \E k \in DOMAIN replies : Answers(batch[i]) = {k}
       ELSE Answers(batch[i]) = {}
  /\ \A i, j \in DOMAIN batch :
       /\ i < j /\ {batch[i].type, batch[j].type} \subseteq DOMAIN Answer
       => \A k \in Answers(batch[i]), l \in Answers(batch[j]) : l < k

(* No role is confirmed before a controller is stored.                     *)
RolesAreStored ==
  \A k \in DOMAIN replies : replies[k].type = "ROLE_REPLY" => controllers # <<>>

PiecesAreDesc == \A i \in DOMAIN multipartMsg : multipartMsg[i].xid \in DescXids

IInv ==
  /\ ClassifierTypeOK /\ TodoIsFront /\ HandledAreAnswered
  /\ RolesAreStored /\ PiecesAreDesc
  /\ PiecesOfOneRequest /\ MasterIsFinal

-----------------------------------------------------------------------------
(* What is split off a read is a beginning of it.                          *)
LEMMA SplitOffIsFront ==
  ASSUME NEW b \in Seq(Message)
  PROVE  /\ Split(b) \in 0..Len(b)
         /\ SplitOff(b) = 1..Split(b)
<1> DEFINE K == SplitOff(b)
           n == Cardinality(K)
<1>1. K \subseteq 1..Len(b) /\ Len(b) \in Nat
  BY DEF SplitOff
<1>2. \A k \in K : \A i \in 1..k : i \in K
  <2> SUFFICES ASSUME NEW k \in K, NEW i \in 1..k PROVE i \in K
    OBVIOUS
  <2>1. /\ \A j \in 1..k : b[j].version \in Versions
        /\ \A j \in 1..(k - 1) : b[j].type # "PACKET_OUT"
    BY DEF SplitOff
  <2>2. i \in DOMAIN b /\ i \in Nat /\ k \in Nat /\ i <= k
    BY <1>1
  <2>3. 1..i \subseteq 1..k /\ 1..(i - 1) \subseteq 1..(k - 1)
    BY <2>2
  <2> QED BY <2>1, <2>2, <2>3 DEF SplitOff
<1>3. IsFiniteSet(K) /\ n \in Nat /\ n <= Len(b)
  <2>1. IsFiniteSet(1..Len(b)) /\ Cardinality(1..Len(b)) = Len(b)
    <3>1. \A a \in Nat : IsFiniteSet(1..a) /\ Cardinality(1..a) = a
      BY FS_Interval
    <3> QED BY <1>1, <3>1
  <2> QED BY <1>1, <2>1, FS_Subset, FS_CardinalityType
<1> HIDE DEF K, n
<1>4. ASSUME NEW k \in K PROVE k \in 1..n
  <2>1. 1..k \subseteq K /\ k \in Nat /\ k >= 1
    BY <1>1, <1>2
  <2>2. Cardinality(1..k) = k
    BY <2>1, FS_Interval
  <2>3. Cardinality(1..k) <= n
    BY <1>3, <2>1, FS_Subset DEF n
  <2> QED BY <1>3, <2>1, <2>2, <2>3
<1>5. ASSUME NEW k \in 1..n PROVE k \in K
  <2>1. SUFFICES ASSUME k \notin K PROVE FALSE
    OBVIOUS
  <2>2. K \subseteq 1..(k - 1)
    <3> SUFFICES ASSUME NEW j \in K, j >= k PROVE FALSE
      BY <1>1, <1>3
    <3>1. k \in 1..j
      BY <1>1, <1>3
    <3> QED BY <1>2, <2>1, <3>1
  <2>3. IsFiniteSet(1..(k - 1)) /\ Cardinality(1..(k - 1)) = k - 1
    BY <1>3, FS_Interval
  <2>4. n <= k - 1
    BY <2>2, <2>3, FS_Subset DEF n
  <2> QED BY <1>3, <2>4
<1>6. K = 1..n
  BY <1>4, <1>5
<1> QED BY <1>1, <1>3, <1>6 DEF K, n, Split

-----------------------------------------------------------------------------
(* The types that answer a single message, and those that do not.          *)
LEMMA AnswerTypes ==
  /\ DOMAIN Answer = {"HELLO", "ECHO_REQUEST", "FEATURES_REQUEST", "BARRIER_REQUEST",
                      "GET_CONFIG_REQUEST", "STATS"}
  /\ \A t \in DOMAIN Answer :
       /\ Answer[t] \notin {"ROLE_REPLY", "STALE", "BAD_MULTIPART"}
       /\ Answer[t] = "MULTIPART_REPLY" => t = "STATS"
       /\ Answer[t] \in ReplyTypes
  /\ "MULTIPART_REPLY" \in ReplyTypes
<1>1. Answer["STATS"] = "MULTIPART_REPLY" /\ "STATS" \in DOMAIN Answer
  BY DEF Answer
<1> QED BY <1>1 DEF Answer, ReplyTypes

(* What the handling of a message adds to the replies.                     *)
Adds(m, r) ==
  \/ m.type \in DOMAIN Answer /\ r.type = Answer[m.type] /\ r.xid = m.xid
  \/ /\ m.type = "ROLE_REQUEST"
     /\ r.type = IF Stale(m) THEN "STALE" ELSE "ROLE_REPLY"
     /\ r.xid = m.xid
  \/ m.type = "DESC" /\ r.type = "BAD_MULTIPART"
  \/ /\ m.type = "DESC" /\ r.type = "MULTIPART_REPLY"
     /\ r.xid = m.xid \/ \E i \in DOMAIN multipartMsg : r.xid = multipartMsg[i].xid

LEMMA PushAdds ==
  ASSUME ResponderTypeOK, NEW m \in Message, m.version \in Versions, push(m)
  PROVE  \/ m.type \notin DOMAIN Answer /\ UNCHANGED replies
         \/ \E r \in Reply : Adds(m, r) /\ replies' = Append(replies, r)
<1>m. m.type \in Types /\ m.xid \in Nat
  BY DEF Message
<1>r. ASSUME NEW t \in ReplyTypes, NEW x \in Nat, NEW v \in Versions
      PROVE  /\ [type |-> t, xid |-> x, version |-> v] \in Reply
             /\ [type |-> t, xid |-> x, version |-> v].type = t
             /\ [type |-> t, xid |-> x, version |-> v].xid = x
  BY DEF Reply
<1>1. CASE Immediate(m)
  <2>1. Answer[m.type] \in ReplyTypes /\ m.type \in DOMAIN Answer
    BY <1>1, AnswerTypes DEF Immediate
  <2>2. replies' = Append(replies, [type |-> Answer[m.type], xid |-> m.xid, version |-> m.version])
    BY <1>1 DEF Immediate, send
  <2> QED BY <1>m, <1>r, <2>1, <2>2 DEF Adds
<1>2. CASE Echo(m)
  <2>1. /\ Answer[m.type] = "ECHO_REPLY" /\ m.type \in DOMAIN Answer
        /\ Answer[m.type] \in ReplyTypes
    BY <1>2, AnswerTypes DEF Echo, Answer
  <2>2. replies' = Append(replies, [type |-> "ECHO_REPLY", xid |-> m.xid, version |-> OFP_VERSION - 1])
    BY <1>2 DEF Echo, send
  <2>3. OFP_VERSION - 1 \in Versions
    BY DEF Versions
  <2> QED BY <1>m, <1>r, <2>1, <2>2, <2>3 DEF Adds
<1>3. CASE SetConfig(m) \/ Logged(m) \/ Passed(m)
  BY <1>3, AnswerTypes DEF SetConfig, Logged, Passed, responder
<1>4. CASE RoleRequest(m)
  <2>1. PICK t \in {"STALE", "ROLE_REPLY"} :
          /\ t = IF Stale(m) THEN "STALE" ELSE "ROLE_REPLY"
          /\ replies' = Append(replies, [type |-> t, xid |-> m.xid, version |-> m.version])
    BY <1>4 DEF RoleRequest, send
  <2>2. t \in ReplyTypes /\ m.type = "ROLE_REQUEST"
    BY <1>4 DEF RoleRequest, ReplyTypes
  <2> QED BY <1>m, <1>r, <2>1, <2>2 DEF Adds
<1>5. CASE DescPiece(m)
  <2>1. \/ UNCHANGED replies
        \/ replies' = Append(replies, [type |-> "BAD_MULTIPART", xid |-> m.xid, version |-> m.version])
    BY <1>5 DEF DescPiece, send
  <2>2. "BAD_MULTIPART" \in ReplyTypes /\ m.type = "DESC"
    BY <1>5 DEF DescPiece, ReplyTypes
  <2>3. m.type \notin DOMAIN Answer
    BY <2>2, AnswerTypes
  <2> QED BY <1>m, <1>r, <2>1, <2>2, <2>3 DEF Adds
<1>6. CASE Desc(m)
  <2> DEFINE x == Head(Append(multipartMsg, Kept(m)))
             P == [xid : Nat, version : Versions]
  <2>1. replies' = Append(replies, [type |-> "MULTIPART_REPLY", xid |-> x.xid, version |-> x.version])
    BY <1>6 DEF Desc, send
  <2>2. "MULTIPART_REPLY" \in ReplyTypes /\ m.type = "DESC"
    BY <1>6, AnswerTypes DEF Desc
  <2>3. x \in P /\ (x = Kept(m) \/ \E i \in DOMAIN multipartMsg : x = multipartMsg[i])
    <3>1. multipartMsg \in Seq(P) /\ Kept(m) \in P
      BY <1>m DEF ResponderTypeOK, Kept
    <3> HIDE DEF P
    <3>2. CASE multipartMsg = <<>>
      BY <3>1, <3>2
    <3>3. CASE multipartMsg # <<>>
      BY <3>1, <3>3
    <3> QED BY <3>2, <3>3
  <2>4. Kept(m).xid = m.xid
    BY DEF Kept
  <2> HIDE DEF x
  <2>5. x.xid \in Nat /\ x.version \in Versions
    BY <2>3
  <2>6. x.xid = m.xid \/ \E i \in DOMAIN multipartMsg : x.xid = multipartMsg[i].xid
    BY <2>3, <2>4
  <2> QED BY <1>r, <2>1, <2>2, <2>5, <2>6 DEF Adds
<1> QED BY <1>1, <1>2, <1>3, <1>4, <1>5, <1>6 DEF push

(* What the handling of a message does to the pieces that are kept.        *)
LEMMA PushPieces ==
  ASSUME NEW m, push(m)
  PROVE  \/ UNCHANGED multipartMsg
         \/ multipartMsg' = <<>>
         \/ /\ m.type = "DESC" /\ m.more
            /\ multipartMsg' = Append(multipartMsg, Kept(m))
            /\ multipartMsg = <<>> \/ Last(multipartMsg).xid = m.xid
BY DEF push, Immediate, Echo, SetConfig, Logged, RoleRequest, DescPiece, Desc, Passed, responder

(* A role is stored once; the stored one is never changed.                 *)
LEMMA PushControllers ==
  ASSUME NEW m, push(m)
  PROVE  \/ /\ m.type # "ROLE_REQUEST"
            /\ UNCHANGED controllers
         \/ /\ m.type = "ROLE_REQUEST"
            /\ controllers' = IF controllers = <<>>
                              THEN <<[generation |-> m.generation, rolle |-> m.role]>>
                              ELSE controllers
BY AnswerTypes DEF push, Immediate, Echo, SetConfig, Logged, RoleRequest, DescPiece, Desc, Passed, responder

LEMMA PushType ==
  ASSUME ResponderTypeOK, NEW m \in Message, m.version \in Versions, push(m)
  PROVE  ResponderTypeOK'
<1>m. m.xid \in Nat /\ m.role \in Roles /\ m.generation \in Nat /\ m.flags \in Nat
  BY DEF Message
<1>1. OFVersion' \in Versions
  BY DEF push, Immediate, Echo, SetConfig, Logged, RoleRequest, DescPiece, Desc, Passed, responder,
         ResponderTypeOK
<1>2. switchStatusFlags' \in Nat
  BY <1>m DEF push, Immediate, Echo, SetConfig, Logged, RoleRequest, DescPiece, Desc, Passed, responder,
         ResponderTypeOK
<1>3. controllers' \in Seq(Controller) /\ Len(controllers') <= 1
  <2>1. [generation |-> m.generation, rolle |-> m.role] \in Controller
    BY <1>m DEF Controller
  <2>2. CASE UNCHANGED controllers
    BY <2>2 DEF ResponderTypeOK
  <2>3. CASE controllers' = <<[generation |-> m.generation, rolle |-> m.role]>>
    BY <2>1, <2>3
  <2> QED BY <2>2, <2>3, PushControllers
<1>4. multipartMsg' \in Seq([xid : Nat, version : Versions])
  <2> DEFINE P == [xid : Nat, version : Versions]
  <2>1. multipartMsg \in Seq(P) /\ Append(multipartMsg, Kept(m)) \in Seq(P) /\ <<>> \in Seq(P)
    BY <1>m DEF ResponderTypeOK, Kept
  <2>2. \/ UNCHANGED multipartMsg \/ multipartMsg' = <<>>
        \/ multipartMsg' = Append(multipartMsg, Kept(m))
    BY PushPieces
  <2> QED BY <2>1, <2>2
<1>5. replies' \in Seq(Reply)
  <2>1. replies \in Seq(Reply)
    BY DEF ResponderTypeOK
  <2>2. UNCHANGED replies \/ \E r \in Reply : replies' = Append(replies, r)
    BY PushAdds
  <2> QED BY <2>1, <2>2
<1> QED BY <1>1, <1>2, <1>3, <1>4, <1>5 DEF ResponderTypeOK

-----------------------------------------------------------------------------
LEMMA BatchIsRead ==
  ASSUME ClassifierTypeOK
  PROVE  /\ batch \in Seq(Message)
         /\ \A i \in DOMAIN batch : batch \in Batches /\ batch[i] \in Message
<1>1. batch \in Seq(Message)
  <2>1. CASE batch \in Batches
    BY <2>1, ClassifierAssumption
  <2>2. CASE batch = <<>>
    BY <2>2
  <2> QED BY <2>1, <2>2 DEF ClassifierTypeOK
<1>2. ASSUME NEW i \in DOMAIN batch PROVE batch # <<>>
  BY <1>1
<1> QED BY <1>1, <1>2 DEF ClassifierTypeOK

(* The next message is the last of the beginning that is left.             *)
LEMMA NextIsLastLeft ==
  ASSUME IInv, Handle
  PROVE  /\ Left \in 1..Split(batch) /\ Left \in DOMAIN batch
         /\ Head(todo) = batch[Left]
         /\ Head(todo).version \in Versions
         /\ push(batch[Left]) /\ UNCHANGED batch
         /\ Left' = Left - 1 /\ todo' \in Seq(Message)
         /\ TodoIsFront'
<1>1. /\ todo \in Seq(Message) /\ todo # <<>> /\ todo' = Tail(todo)
      /\ Left <= Split(batch) /\ \A i \in 1..Left : todo[i] = batch[Left + 1 - i]
      /\ UNCHANGED batch
  BY DEF IInv, ClassifierTypeOK, TodoIsFront, Handle
<1>2. /\ Left \in Nat /\ Left >= 1
      /\ Left' = Left - 1 /\ todo' \in Seq(Message)
      /\ \A i \in 1..(Left - 1) : todo'[i] = todo[i + 1]
      /\ Head(todo) = todo[1]
  BY <1>1 DEF Left
<1>3. Split(batch) \in 0..Len(batch) /\ SplitOff(batch) = 1..Split(batch) /\ batch \in Seq(Message)
  BY BatchIsRead, SplitOffIsFront DEF IInv
<1>4. Left \in 1..Split(batch) /\ Left \in DOMAIN batch
  BY <1>1, <1>2, <1>3
<1>5. Head(todo) = batch[Left]
  BY <1>1, <1>2
<1>6. batch[Left].version \in Versions
  <2>1. Left \in SplitOff(batch) /\ Left \in 1..Left
    BY <1>2, <1>3, <1>4
  <2> QED BY <2>1 DEF SplitOff
<1>7. push(batch[Left])
  BY <1>5 DEF Handle
<1>8. TodoIsFront'
  <2>1. Split(batch') = Split(batch)
    BY <1>1
  <2>2. Split(batch)' = Split(batch)
    BY <1>1 DEF Split, SplitOff
  <2>3. Left' <= Split(batch)
    BY <1>1, <1>2, <1>3
  <2>4. ASSUME NEW i \in 1..Left' PROVE todo'[i] = batch'[Left' + 1 - i]
    <3>1. todo'[i] = todo[i + 1] /\ i + 1 \in 1..Left
      BY <1>2
    <3>2. todo[i + 1] = batch[Left + 1 - (i + 1)]
      BY <1>1, <3>1
    <3>3. Left + 1 - (i + 1) = Left' + 1 - i
      BY <1>2
    <3> QED BY <1>1, <3>1, <3>2, <3>3
  <2> QED BY <2>2, <2>3, <2>4 DEF TodoIsFront
<1> QED BY <1>1, <1>2, <1>4, <1>5, <1>6, <1>7, <1>8

(* A reply belongs to the message it answers and to no other of the read.  *)
LEMMA ReplyBelongs ==
  ASSUME IInv, NEW d \in DOMAIN batch, NEW r, Adds(batch[d], r),
         NEW i \in DOMAIN batch, batch[i].type \in DOMAIN Answer
  PROVE  r.xid = batch[i].xid /\ r.type = Answer[batch[i].type] <=> i = d
<1> DEFINE m == batch[d]
<1>1. batch \in Batches /\ ClassifierTypeOK
  BY BatchIsRead DEF IInv
<1>2. "DESC" \notin DOMAIN Answer /\ "ROLE_REQUEST" \notin DOMAIN Answer
  BY AnswerTypes
<1>3. i # d /\ batch[i].xid = m.xid => FALSE
  BY <1>1, <1>2, XidAssumption
<1>4. CASE m.type \in DOMAIN Answer
  BY <1>2, <1>3, <1>4, AnswerTypes DEF Adds
<1>5. CASE m.type = "ROLE_REQUEST"
  BY <1>2, <1>5, AnswerTypes DEF Adds
<1>6. CASE m.type = "DESC"
  <2>1. r.type = "BAD_MULTIPART" \/ (r.type = "MULTIPART_REPLY" /\ r.xid \in DescXids)
    <3>1. m.xid \in DescXids
      <4>1. m \in Range(batch)
        BY DEF Range
      <4> QED BY <1>1, <1>6, <4>1 DEF DescXids
    <3>2. \A j \in DOMAIN multipartMsg : multipartMsg[j].xid \in DescXids
      BY DEF IInv, PiecesAreDesc
    <3> QED BY <1>2, <1>6, <3>1, <3>2 DEF Adds
  <2>2. batch[i].type = "STATS" => batch[i].xid \notin DescXids
    <3> SUFFICES ASSUME batch[i].type = "STATS",
                        NEW n \in UNION {Range(b) : b \in Batches}, n.type = "DESC"
                 PROVE  n.xid # batch[i].xid
      BY DEF DescXids
    <3>1. batch[i] \in UNION {Range(b) : b \in Batches}
      <4>1. batch[i] \in Range(batch)
        BY DEF Range
      <4> QED BY <1>1, <4>1
    <3> QED BY <3>1, XidAssumption
  <2>3. i # d
    BY <1>2, <1>6
  <2> QED BY <2>1, <2>2, <2>3, AnswerTypes
<1> QED BY <1>4, <1>5, <1>6 DEF Adds

(* The message that is handled gets its answer, behind those given to      *)
(* later ones, and no other request gets one.                              *)
LEMMA HandleAnswers ==
  ASSUME IInv, Handle
  PROVE  HandledAreAnswered'
<1> DEFINE d == Left
           m == batch[d]
           n == Len(replies)
<1>1. /\ d \in 1..Split(batch) /\ d \in DOMAIN batch /\ push(m) /\ UNCHANGED batch
      /\ Left' = d - 1 /\ m.version \in Versions /\ m \in Message
  BY NextIsLastLeft, BatchIsRead DEF IInv
<1>2. Split(batch)' = Split(batch) /\ Split(batch) \in Nat /\ DOMAIN batch \subseteq Nat
  <2>1. batch \in Seq(Message)
    BY BatchIsRead DEF IInv
  <2>2. Split(batch)' = Split(batch)
    BY <1>1 DEF Split, SplitOff
  <2>3. Split(batch) \in 0..Len(batch)
    BY <2>1, SplitOffIsFront
  <2> QED BY <2>1, <2>2, <2>3
<1>3. ASSUME NEW i \in DOMAIN batch, batch[i].type \in DOMAIN Answer
      PROVE  /\ IF d < i /\ i <= Split(batch)
                THEN \E k \in DOMAIN replies : Answers(batch[i]) = {k}
                ELSE Answers(batch[i]) = {}
             /\ \A k \in Answers(batch[i]) : k \in DOMAIN replies
  BY <1>3 DEF IInv, HandledAreAnswered, Answers
<1>4. ASSUME NEW i \in DOMAIN batch, NEW j \in DOMAIN batch, i < j,
             batch[i].type \in DOMAIN Answer, batch[j].type \in DOMAIN Answer
      PROVE  \A k \in Answers(batch[i]), l \in Answers(batch[j]) : l < k
  BY <1>4 DEF IInv, HandledAreAnswered
<1>5. replies \in Seq(Reply) /\ DOMAIN replies = 1..n /\ n \in Nat
  BY DEF IInv, ClassifierTypeOK, ResponderTypeOK
<1> HIDE DEF d, n
<1>6. CASE m.type \notin DOMAIN Answer /\ UNCHANGED replies
  <2>1. \A i \in DOMAIN batch : Answers(batch[i])' = Answers(batch[i])
    BY <1>1, <1>6 DEF Answers
  <2>2. ASSUME NEW i \in DOMAIN batch, batch[i].type \in DOMAIN Answer
        PROVE  IF d - 1 < i /\ i <= Split(batch)
               THEN \E k \in DOMAIN replies : Answers(batch[i]) = {k}
               ELSE Answers(batch[i]) = {}
    <3>1. i # d /\ i \in Nat /\ d \in Nat
      BY <1>1, <1>2, <1>6, <2>2
    <3>2. d - 1 < i <=> d < i
      BY <3>1
    <3> QED BY <1>3, <2>2, <3>2
  <2> QED BY <1>1, <1>2, <1>4, <1>6, <2>1, <2>2 DEF HandledAreAnswered
<1>7. CASE \E r \in Reply : Adds(m, r) /\ replies' = Append(replies, r)
  <2>1. PICK r \in Reply : Adds(m, r) /\ replies' = Append(replies, r)
    BY <1>7
  <2>2. /\ DOMAIN replies' = 1..(n + 1)
        /\ \A k \in 1..n : replies'[k] = replies[k]
        /\ replies'[n + 1] = r
    BY <1>5, <2>1 DEF n
  <2>3. ASSUME NEW i \in DOMAIN batch, batch[i].type \in DOMAIN Answer
        PROVE  Answers(batch[i])' = IF i = d THEN Answers(batch[i]) \cup {n + 1}
                                            ELSE Answers(batch[i])
    <3>1. r.xid = batch[i].xid /\ r.type = Answer[batch[i].type] <=> i = d
      BY <1>1, <2>1, <2>3, ReplyBelongs
    <3>2. Answers(batch[i])' =
            {k \in 1..(n + 1) : replies'[k].xid = batch[i].xid /\ replies'[k].type = Answer[batch[i].type]}
      BY <1>1, <2>2 DEF Answers
    <3>3. Answers(batch[i]) =
            {k \in 1..n : replies[k].xid = batch[i].xid /\ replies[k].type = Answer[batch[i].type]}
      BY <1>5 DEF Answers
    <3>4. \A k \in 1..(n + 1) : k \in 1..n \/ k = n + 1
      BY <1>5
    <3>5. 1..n \subseteq 1..(n + 1) /\ n + 1 \in 1..(n + 1) /\ n + 1 \notin 1..n
      BY <1>5
    <3> QED BY <2>2, <3>1, <3>2, <3>3, <3>4, <3>5
  <2>4. ASSUME NEW i \in DOMAIN batch, batch[i].type \in DOMAIN Answer
        PROVE  IF d - 1 < i /\ i <= Split(batch)
               THEN \E k \in DOMAIN replies' : Answers(batch[i])' = {k}
               ELSE Answers(batch[i])' = {}
    <3>1. CASE i = d
      <4>1. Answers(batch[i]) = {}
        BY <1>1, <1>2, <1>3, <2>4, <3>1
      <4>2. Answers(batch[i])' = {n + 1} /\ n + 1 \in DOMAIN replies'
        <5>1. Answers(batch[i])' = Answers(batch[i]) \cup {n + 1}
          BY <2>3, <2>4, <3>1
        <5>2. n + 1 \in 1..(n + 1)
          BY <1>5
        <5> QED BY <2>2, <4>1, <5>1, <5>2
      <4>3. d - 1 < i /\ i <= Split(batch)
        BY <1>1, <1>2, <3>1
      <4> QED BY <4>2, <4>3
    <3>2. CASE i # d
      <4>1. Answers(batch[i])' = Answers(batch[i])
        BY <2>3, <2>4, <3>2
      <4>2. d - 1 < i <=> d < i
        BY <1>1, <1>2, <3>2
      <4>3. DOMAIN replies \subseteq DOMAIN replies'
        BY <1>5, <2>2
      <4> QED BY <1>3, <2>4, <4>1, <4>2, <4>3
    <3> QED BY <3>1, <3>2
  <2>5. ASSUME NEW i \in DOMAIN batch, NEW j \in DOMAIN batch, i < j,
               batch[i].type \in DOMAIN Answer, batch[j].type \in DOMAIN Answer,
               NEW k \in Answers(batch[i])', NEW l \in Answers(batch[j])'
        PROVE  l < k
    <3>1. CASE j = d
      <4>1. Answers(batch[i]) = {} /\ i # d
        BY <1>1, <1>2, <1>3, <2>5, <3>1
      <4> QED BY <2>3, <2>5, <4>1
    <3>2. CASE j # d /\ i = d
      <4>1. l \in 1..n
        BY <1>3, <1>5, <2>3, <2>5, <3>2
      <4>2. k = n + 1
        <5>1. Answers(batch[i]) = {}
          BY <1>1, <1>2, <1>3, <2>5, <3>2
        <5> QED BY <2>3, <2>5, <3>2, <5>1
      <4> QED BY <1>5, <4>1, <4>2
    <3>3. CASE j # d /\ i # d
      BY <1>4, <2>3, <2>5, <3>3
    <3> QED BY <3>1, <3>2, <3>3
  <2> QED BY <1>1, <1>2, <2>4, <2>5 DEF HandledAreAnswered
<1> QED BY <1>1, <1>6, <1>7, PushAdds DEF IInv, ClassifierTypeOK

(* Whoever is confirmed as master in this read is of the generation stored *)
(* when or before it was confirmed.                                        *)
LEMMA HandleRoles ==
  ASSUME IInv, Handle
  PROVE  MasterIsFinal' /\ RolesAreStored'
<1> DEFINE d == Left
           m == batch[d]
           stored == [generation |-> m.generation, rolle |-> m.role]
<1>1. /\ d \in DOMAIN batch /\ push(m) /\ UNCHANGED batch
      /\ m.version \in Versions /\ m \in Message /\ batch \in Batches
  BY NextIsLastLeft, BatchIsRead DEF IInv
<1> HIDE DEF d
<1>2. replies \in Seq(Reply)
  BY DEF IInv, ClassifierTypeOK, ResponderTypeOK
<1>3. /\ controllers # <<>> => controllers' = controllers
      /\ m.type = "ROLE_REQUEST" /\ controllers = <<>> => controllers' = <<stored>>
      /\ m.type # "ROLE_REQUEST" => controllers' = controllers
  BY <1>1, PushControllers
<1>4. ASSUME NEW k \in DOMAIN replies', replies'[k].type = "ROLE_REPLY"
      PROVE  \/ k \in DOMAIN replies /\ replies[k] = replies'[k]
             \/ m.type = "ROLE_REQUEST" /\ ~Stale(m) /\ replies'[k].xid = m.xid
  <2>1. CASE UNCHANGED replies
    BY <1>4, <2>1
  <2>2. CASE \E r \in Reply : Adds(m, r) /\ replies' = Append(replies, r)
    <3>1. PICK r \in Reply : Adds(m, r) /\ replies' = Append(replies, r)
      BY <2>2
    <3>2. \/ k \in DOMAIN replies /\ replies[k] = replies'[k]
          \/ replies'[k] = r
      BY <1>2, <3>1
    <3>3. r.type = "ROLE_REPLY" => m.type = "ROLE_REQUEST" /\ ~Stale(m) /\ r.xid = m.xid
      BY <3>1, AnswerTypes DEF Adds
    <3> QED BY <1>4, <3>2, <3>3
  <2> QED BY <1>1, <2>1, <2>2, PushAdds DEF IInv, ClassifierTypeOK
<1>5. RolesAreStored'
  <2> SUFFICES ASSUME NEW k \in DOMAIN replies', replies'[k].type = "ROLE_REPLY"
               PROVE  controllers' # <<>>
    BY DEF RolesAreStored
  <2>1. k \in DOMAIN replies /\ replies[k].type = "ROLE_REPLY" => controllers # <<>>
    BY DEF IInv, RolesAreStored
  <2>2. <<stored>> # <<>>
    OBVIOUS
  <2> QED BY <1>3, <1>4, <2>1, <2>2
<1>6. MasterIsFinal'
  <2> SUFFICES ASSUME NEW c \in Range(controllers'), c.rolle = MASTER,
                      NEW i \in DOMAIN batch, batch[i].type = "ROLE_REQUEST", batch[i].role = MASTER,
                      NEW k \in DOMAIN replies', replies'[k].type = "ROLE_REPLY",
                      replies'[k].xid = batch[i].xid
               PROVE  batch[i].generation = c.generation
    BY <1>1 DEF MasterIsFinal, Range
  <2>1. CASE k \in DOMAIN replies /\ replies[k] = replies'[k]
    <3>1. controllers' = controllers
      BY <1>3, <2>1 DEF IInv, RolesAreStored
    <3>2. replies[k] \in Range(replies)
      BY <2>1 DEF Range
    <3> QED BY <2>1, <3>1, <3>2 DEF IInv, MasterIsFinal
  <2>2. CASE m.type = "ROLE_REQUEST" /\ ~Stale(m) /\ replies'[k].xid = m.xid
    <3>1. i = d
      BY <1>1, <2>2, XidAssumption
    <3>2. CASE controllers = <<>>
      <4>1. c = stored
        BY <1>3, <2>2, <3>2 DEF Range
      <4> QED BY <3>1, <4>1
    <3>3. CASE controllers # <<>>
      <4>1. c \in Range(controllers)
        BY <1>3, <3>3
      <4> QED BY <2>2, <3>1, <4>1 DEF Stale
    <3> QED BY <3>2, <3>3
  <2> QED BY <1>4, <2>1, <2>2
<1> QED BY <1>5, <1>6

(* A piece is kept only if it goes with the last one kept.                 *)
LEMMA HandlePieces ==
  ASSUME IInv, Handle
  PROVE  PiecesOfOneRequest' /\ PiecesAreDesc'
<1> DEFINE m == batch[Left]
           n == Len(multipartMsg)
           P == [xid : Nat, version : Versions]
<1>1. push(m) /\ m \in Range(batch) /\ batch \in Batches /\ Kept(m) \in P /\ Kept(m).xid = m.xid
  <2>1. /\ Left \in DOMAIN batch /\ push(m) /\ m \in Message /\ batch \in Batches
        /\ m.version \in Versions
    BY NextIsLastLeft, BatchIsRead DEF IInv
  <2> QED BY <2>1 DEF Range, Message, Kept
<1> HIDE DEF m, P
<1>2. multipartMsg \in Seq(P) /\ PiecesOfOneRequest /\ PiecesAreDesc
  BY DEF IInv, ClassifierTypeOK, ResponderTypeOK, P
<1>3. CASE UNCHANGED multipartMsg
  BY <1>2, <1>3 DEF PiecesOfOneRequest, PiecesAreDesc
<1>4. CASE multipartMsg' = <<>>
  BY <1>4 DEF PiecesOfOneRequest, PiecesAreDesc
<1>5. CASE /\ m.type = "DESC"
           /\ multipartMsg' = Append(multipartMsg, Kept(m))
           /\ multipartMsg = <<>> \/ Last(multipartMsg).xid = m.xid
  <2>1. m.xid \in DescXids
    BY <1>1, <1>5 DEF DescXids
  <2>2. \A i \in 1..n : multipartMsg[i].xid = m.xid
    <3>1. CASE multipartMsg # <<>>
      <4>1. n \in 1..n
        BY <1>2, <3>1
      <4>2. multipartMsg[n].xid = m.xid
        BY <1>5, <3>1 DEF Last
      <4> QED BY <1>2, <4>1, <4>2 DEF PiecesOfOneRequest
    <3> QED BY <3>1
  <2>3. /\ DOMAIN multipartMsg' = 1..(n + 1) /\ n \in Nat
        /\ \A i \in 1..n : multipartMsg'[i] = multipartMsg[i]
        /\ multipartMsg'[n + 1] = Kept(m)
    BY <1>1, <1>2, <1>5
  <2>4. \A i \in DOMAIN multipartMsg' : multipartMsg'[i].xid = m.xid
    BY <1>1, <2>2, <2>3
  <2> QED BY <2>1, <2>4 DEF PiecesOfOneRequest, PiecesAreDesc
<1> QED BY <1>1, <1>3, <1>4, <1>5, PushPieces

-----------------------------------------------------------------------------
LEMMA InitIInv == Init => IInv
<1> SUFFICES ASSUME Init PROVE IInv
  OBVIOUS
<1>1. ResponderTypeOK
  BY DEF Init, ResponderInit, ResponderTypeOK, Versions
<1>2. TodoIsFront
  <2>1. Left = 0 /\ <<>> \in Seq(Message)
    BY DEF Init, Left
  <2>2. Split(batch) \in 0..Len(batch) /\ Len(batch) = 0
    BY <2>1, SplitOffIsFront DEF Init
  <2> QED BY <2>1, <2>2 DEF TodoIsFront
<1> QED BY <1>1, <1>2 DEF Init, ResponderInit, IInv, ClassifierTypeOK, HandledAreAnswered,
              RolesAreStored, PiecesAreDesc, PiecesOfOneRequest, MasterIsFinal, Range

(* A read is taken apart when the one before it is worked off.             *)
LEMMA ReceiveIInv ==
  ASSUME IInv, NEW b \in Batches, Receive(b)
  PROVE  IInv'
<1> DEFINE n == Split(b)
<1>1. /\ batch' = b /\ todo' = Order(b) /\ replies' = <<>>
      /\ UNCHANGED <<OFVersion, switchStatusFlags, controllers, multipartMsg>>
  BY DEF Receive
<1>2. b \in Seq(Message) /\ n \in 0..Len(b)
  BY ClassifierAssumption, SplitOffIsFront
<1>3. /\ Order(b) \in Seq(Message) /\ Len(Order(b)) = n
      /\ \A i \in 1..n : Order(b)[i] = b[n + 1 - i]
  <2> DEFINE s == SubSeq(b, 1, n)
  <2>1. /\ s \in Seq(Message) /\ Len(s) = n
        /\ \A i \in 1..n : s[i] = b[i]
    BY <1>2
  <2>2. Order(b) = [i \in 1..Len(s) |-> s[(Len(s) - i) + 1]]
    BY DEF Order, Reverse, Split
  <2> HIDE DEF s, n
  <2>3. \A i \in 1..n : (n - i) + 1 \in 1..n /\ s[(n - i) + 1] \in Message
    BY <1>2, <2>1
  <2>4. Order(b) \in [1..n -> Message]
    BY <2>1, <2>2, <2>3
  <2>5. Order(b) \in Seq(Message) /\ Len(Order(b)) = n
    BY <1>2, <2>4
  <2>6. \A i \in 1..n : Order(b)[i] = b[n + 1 - i]
    BY <1>2, <2>1, <2>2, <2>3
  <2> QED BY <2>5, <2>6
<1>4. Left' = n /\ Split(batch)' = n
  BY <1>1, <1>3 DEF Left, Split, SplitOff
<1>5. ClassifierTypeOK'
  BY <1>1, <1>3 DEF IInv, ClassifierTypeOK, ResponderTypeOK
<1>6. TodoIsFront'
  <2> HIDE DEF n
  <2> QED BY <1>1, <1>2, <1>3, <1>4 DEF TodoIsFront
<1>7. HandledAreAnswered'
  <2>1. \A i : Answers(batch[i])' = {}
    BY <1>1 DEF Answers
  <2>2. \A i \in DOMAIN batch' : ~(Left' < i /\ i <= Split(batch)')
    BY <1>1, <1>2, <1>4
  <2> QED BY <2>1, <2>2 DEF HandledAreAnswered
<1>8. RolesAreStored' /\ MasterIsFinal'
  BY <1>1 DEF RolesAreStored, MasterIsFinal, Range
<1>9. PiecesAreDesc' /\ PiecesOfOneRequest'
  BY <1>1 DEF IInv, PiecesAreDesc, PiecesOfOneRequest
<1> QED BY <1>5, <1>6, <1>7, <1>8, <1>9 DEF IInv

LEMMA StepIInv == IInv /\ [Next]_vars => IInv'
<1> SUFFICES ASSUME IInv, [Next]_vars PROVE IInv'
  OBVIOUS
<1>1. ASSUME NEW b \in Batches, Receive(b) PROVE IInv'
  BY <1>1, ReceiveIInv
<1>2. CASE Handle
  <2>1. ResponderTypeOK'
    BY <1>2, NextIsLastLeft, BatchIsRead, PushType DEF IInv, ClassifierTypeOK
  <2>2. ClassifierTypeOK'
    BY <1>2, <2>1, NextIsLastLeft DEF IInv, ClassifierTypeOK
  <2> QED BY <1>2, <2>2, NextIsLastLeft, HandleAnswers, HandleRoles, HandlePieces DEF IInv
<1>3. CASE UNCHANGED vars
  <2> USE <1>3 DEF IInv, vars, responder
  <2>1. ClassifierTypeOK'
    BY DEF ClassifierTypeOK, ResponderTypeOK
  <2>2. TodoIsFront'
    BY DEF TodoIsFront, Left, Split, SplitOff
  <2>3. HandledAreAnswered'
    <3>1. Left' = Left /\ Split(batch)' = Split(batch) /\ \A i : Answers(batch[i])' = Answers(batch[i])
      BY DEF Left, Split, SplitOff, Answers
    <3> QED BY <3>1 DEF HandledAreAnswered
  <2>4. RolesAreStored' /\ PiecesAreDesc' /\ PiecesOfOneRequest' /\ MasterIsFinal'
    BY DEF RolesAreStored, PiecesAreDesc, PiecesOfOneRequest, MasterIsFinal
  <2> QED BY <2>1, <2>2, <2>3, <2>4
<1> QED BY <1>1, <1>2, <1>3 DEF Next

(* The inductive invariant of the control channel holds in every reachable *)
(* state, for any reads in any order.                                      *)
THEOREM Invariance == Spec => []IInv
BY InitIInv, StepIInv, PTL DEF Spec

LEMMA IInvAnswered == IInv => BatchIsAnswered
<1> SUFFICES ASSUME IInv PROVE BatchIsAnswered
  OBVIOUS
<1>1. batch \in Seq(Message) /\ SplitOff(batch) = 1..Split(batch)
  BY BatchIsRead, SplitOffIsFront DEF IInv
<1>2. ASSUME todo = <<>>, NEW i \in DOMAIN batch, batch[i].type \in DOMAIN Answer
      PROVE  Cardinality(Answers(batch[i])) = IF i \in SplitOff(batch) THEN 1 ELSE 0
  <2>1. Left = 0
    BY <1>2 DEF Left
  <2>2. i \in SplitOff(batch) <=> Left < i /\ i <= Split(batch)
    BY <1>1, <2>1
  <2>3. CASE i \in SplitOff(batch)
    <3>1. \E k \in DOMAIN replies : Answers(batch[i]) = {k}
      BY <1>2, <2>2, <2>3 DEF IInv, HandledAreAnswered
    <3> QED BY <2>3, <3>1, FS_Singleton
  <2>4. CASE i \notin SplitOff(batch)
    <3>1. Answers(batch[i]) = {}
      BY <1>2, <2>2, <2>4 DEF IInv, HandledAreAnswered
    <3> QED BY <2>4, <3>1, FS_EmptySet
  <2> QED BY <2>3, <2>4
<1>3. ASSUME NEW i \in DOMAIN batch, NEW j \in DOMAIN batch, i < j,
             {batch[i].type, batch[j].type} \subseteq DOMAIN Answer,
             NEW k \in Answers(batch[i]), j \in SplitOff(batch)
      PROVE  \E l \in Answers(batch[j]) : l < k
  <2>1. Left < i
    BY <1>3 DEF IInv, HandledAreAnswered
  <2>2. Left \in Nat
    BY DEF IInv, ClassifierTypeOK, Left
  <2>3. Left < j /\ j <= Split(batch)
    BY <1>1, <1>3, <2>1, <2>2
  <2>4. PICK l \in DOMAIN replies : Answers(batch[j]) = {l}
    BY <1>3, <2>3 DEF IInv, HandledAreAnswered
  <2> QED BY <1>3, <2>4 DEF IInv, HandledAreAnswered
<1> QED BY <1>2, <1>3 DEF BatchIsAnswered

(* When a read is worked off, each request before a PACKET_OUT and before  *)
(* an unknown version has exactly one answer and no other has any; of two  *)
(* requests the later is answered first, also while the read is handled    *)
(* (BatchIsAnswered).                                                      *)
THEOREM ReadIsAnswered == Spec => []BatchIsAnswered
BY Invariance, IInvAnswered, PTL

(* The responder never keeps pieces of two multipart requests together,    *)
(* though they come in several reads, each handled from its end            *)
(* (PiecesOfOneRequest).                                                   *)
THEOREM PiecesBelongTogether == Spec => []PiecesOfOneRequest
BY Invariance, PTL DEF IInv

(* Once the stored controller is the master, no other generation is        *)
(* confirmed as master (MasterIsFinal).                                    *)
THEOREM MasterStays == Spec => []MasterIsFinal
BY Invariance, PTL DEF IInv
=============================================================================
