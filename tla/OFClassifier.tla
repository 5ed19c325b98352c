----------------------------- MODULE OFClassifier -----------------------------
(***************************************************************************)
(* The classifier, Elements/OFClassifier/OFClassifier.cc, between the      *)
(* socket and the responder or the pipeline.  One read from the socket     *)
(* may hold several messages.  push() splits the first one off, calls      *)
(* itself for the rest BEFORE it handles the first, and so works through a *)
(* read from its end.  Everything runs nested in the one call: the next    *)
(* read waits until `todo' is empty.                                       *)
(***************************************************************************)
EXTENDS OFResponder

CONSTANTS
  Batches,     (* what one read may hold: sequences of messages              *)
  MaxPieces    (* bound: pieces of multipart requests kept by the responder  *)

ASSUME ClassifierAssumption == Batches \subseteq Seq(Message) /\ MaxPieces \in Nat

(* The controller gives its requests ids by which it can tell the answers  *)
(* apart: in a read the pieces of multipart requests may share one, and no *)
(* id belongs both to a request that the responder answers with its pieces *)
(* and to one that the pipeline answers.                                   *)
ASSUME XidAssumption ==
  /\ \A b \in Batches : \A i, j \in DOMAIN b :
       i # j /\ b[i].xid = b[j].xid => b[i].type = "DESC" /\ b[j].type = "DESC"
  /\ LET sent == UNION {Range(b) : b \in Batches}
     IN \A m, n \in sent : m.type = "DESC" /\ n.type = "STATS" => m.xid # n.xid

VARIABLES
  batch,   (* the messages of the last read, as the controller sent them    *)
  todo     (* those of them to be handled, in the order of handling         *)

vars == <<responder, batch, todo>>

(* The positions in a read that are split off: up to a PACKET_OUT, which   *)
(* is never split and takes what follows for its data, and up to a message *)
(* of an unknown version, which is dropped with what follows.              *)
SplitOff(b) ==
  {i \in DOMAIN b : /\ \A j \in 1..i : b[j].version \in Versions
                    /\ \A j \in 1..(i - 1) : b[j].type # "PACKET_OUT"}

(* Mutant: the first message is handled before the rest.                   *)
Order_Forward(b) == SubSeq(b, 1, Cardinality(SplitOff(b)))

(* Mutant: what was split off the front is dropped, the rest handled.      *)
Order_LosesHead(b) ==
  Reverse(SubSeq(b, IF Len(b) > 1 THEN 2 ELSE 1, Cardinality(SplitOff(b))))

(* The recursion handles the last of them first.                           *)
Order(b) == Reverse(SubSeq(b, 1, Cardinality(SplitOff(b))))

Init == ResponderInit /\ batch = <<>> /\ todo = <<>>

Receive(b) ==
  /\ todo = <<>>
  /\ Len(multipartMsg) + Cardinality({i \in DOMAIN b : b[i].more}) <= MaxPieces
  /\ batch' = b
  /\ todo' = Order(b)
  /\ replies' = <<>>
  /\ UNCHANGED <<OFVersion, switchStatusFlags, controllers, multipartMsg>>

Handle ==
  /\ todo # <<>>
  /\ push(Head(todo))
  /\ todo' = Tail(todo)
  /\ UNCHANGED batch

Next == (\E b \in Batches : Receive(b)) \/ Handle

Spec == Init /\ [][Next]_vars

-----------------------------------------------------------------------------
(* Where in the replies a message is answered.                             *)
Answers(m) ==
  {k \in DOMAIN replies : replies[k].xid = m.xid /\ replies[k].type = Answer[m.type]}

(* When a read has been worked off, every request in it that has an        *)
(* answer of its own got exactly one, if it comes before a PACKET_OUT and  *)
(* before a message of an unknown version; and none behind such a message  *)
(* got any.  Of two requests the later was answered first: a BARRIER_REPLY *)
(* says nothing about what came before it in the same read.                *)
BatchIsAnswered ==
  /\ todo = <<>> =>
       \A i \in DOMAIN batch :
         batch[i].type \in DOMAIN Answer =>
           Cardinality(Answers(batch[i])) = IF i \in SplitOff(batch) THEN 1 ELSE 0
  /\ \A i, j \in DOMAIN batch :
       i < j /\ {batch[i].type, batch[j].type} \subseteq DOMAIN Answer =>
         \A k \in Answers(batch[i]) :
           j \in SplitOff(batch) => \E l \in Answers(batch[j]) : l < k

(* Pieces of different multipart requests are never kept together.         *)
PiecesOfOneRequest == \A i, j \in DOMAIN multipartMsg : multipartMsg[i].xid = multipartMsg[j].xid

(* Once the stored controller is the master, no other generation is        *)
(* confirmed as master, in whatever read and order the requests come.      *)
MasterIsFinal ==
  \A c \in Range(controllers) : c.rolle = MASTER =>
    \A i \in DOMAIN batch :
      /\ batch[i].type = "ROLE_REQUEST" /\ batch[i].role = MASTER
      /\ \E r \in Range(replies) : r.type = "ROLE_REPLY" /\ r.xid = batch[i].xid
      => batch[i].generation = c.generation

(* What Elements/Utilities/openflow_1_5.h:175 says of the field xid:       *)
(* "Replies use the same id as was in the request to facilitate pairing."  *)
AnswersArePaired ==
  \A r \in Range(replies) : \E i \in DOMAIN batch : batch[i].xid = r.xid
=============================================================================
