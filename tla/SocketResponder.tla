--------------------------- MODULE SocketResponder ----------------------------
(***************************************************************************)
(* The responder of the prototype, Socket/OFResponder_Test.cc, with what   *)
(* its pipeline (Socket/OFPipeline.cc) answers.  A handler is an action    *)
(* with the message as its parameter; `sent' is what was given to          *)
(* TCPClient::Send, by the handler itself, by the pipeline or by the       *)
(* worker that is given the handler's result.                              *)
(***************************************************************************)
EXTENDS Naturals, Sequences, SequencesExt

CONSTANT Undefined   (* the ids that memory nobody has written may hold       *)

ASSUME UndefinedAssumption == Undefined \subseteq Nat /\ Undefined # {}

VARIABLES
  controllers,     (* every accepted role request, in order                  *)
  multipartMsg,    (* the pieces kept of a multipart request                 *)
  sent

responder == <<controllers, multipartMsg, sent>>

(* ofp_controller_role                                                     *)
Roles  == 0..3
MASTER == 2
SLAVE  == 3

Multipart == {"DESC", "TABLE_FEATURES", "PORT_DESC", "AGGREGATE_STATS"}

(* What is answered by one reply.                                          *)
Answer == [HELLO |-> "HELLO", FEATURES_REQUEST |-> "FEATURES_REPLY",
           BARRIER_REQUEST |-> "BARRIER_REPLY", GET_CONFIG_REQUEST |-> "GET_CONFIG_REPLY",
           ECHO_REQUEST |-> "ECHO_REPLY", MULTIPART_REPLY |-> "MULTIPART_REPLY"]

Types == DOMAIN Answer \cup Multipart
         \cup {"SET_CONFIG", "ROLE_REQUEST", "FLOW_MOD", "GROUP_MOD", "PACKET_OUT"}

(* `more' is the flag of a multipart request.                              *)
Message == [type : Types, xid : Nat, more : BOOLEAN, role : Roles, generation : Nat]

Reply == [type : {Answer[t] : t \in DOMAIN Answer} \cup {"ROLE_REPLY", "STALE", "BAD_MULTIPART"},
          xid : Nat]

reply(type, xid) == [type |-> type, xid |-> xid]

-----------------------------------------------------------------------------
ResponderInit == controllers = <<>> /\ multipartMsg = <<>> /\ sent = <<>>

Immediate(m) ==
  /\ m.type \in DOMAIN Answer
  /\ sent' = Append(sent, reply(Answer[m.type], m.xid))
  /\ UNCHANGED <<controllers, multipartMsg>>

(* FLOW_MOD, GROUP_MOD and PACKET_OUT are printed.                         *)
Logged(m) ==
  /\ m.type \in {"FLOW_MOD", "GROUP_MOD", "PACKET_OUT"}
  /\ UNCHANGED responder

(* The length is compared in the wrong byte order, so the handler always   *)
(* looks for another message behind the packet.  If the memory there looks *)
(* like a BARRIER_REQUEST it is answered, by the handler and again by the  *)
(* worker, unless a GET_CONFIG_REQUEST seems to follow.                    *)
SetConfig(m) ==
  /\ m.type = "SET_CONFIG"
  /\ \E x, y \in Undefined :
       \E more \in {<<>>, <<reply("BARRIER_REPLY", x), reply("BARRIER_REPLY", x)>>,
                    <<reply("BARRIER_REPLY", x), reply("GET_CONFIG_REPLY", y)>>} :
         sent' = sent \o more
  /\ UNCHANGED <<controllers, multipartMsg>>

Stale(m) == \E c \in Range(controllers) : c.rolle = MASTER /\ c.generation = m.generation

Accepted(m) == [generation |-> m.generation, rolle |-> m.role]

(* Mutant: the loop changes copies of the controllers.                     *)
Demoted_Copies == controllers

Demoted == [i \in DOMAIN controllers |->
              IF controllers[i].rolle = MASTER THEN [controllers[i] EXCEPT !.rolle = SLAVE]
                                               ELSE controllers[i]]

(* The id of the error is never set.                                       *)
RoleRequest(m) ==
  /\ m.type = "ROLE_REQUEST"
  /\ IF Stale(m)
     THEN /\ \E x \in Undefined : sent' = Append(sent, reply("STALE", x))
          /\ UNCHANGED controllers
     ELSE /\ controllers' = Append(Demoted, Accepted(m))
          /\ sent' = Append(sent, reply("ROLE_REPLY", m.xid))
  /\ UNCHANGED multipartMsg

Piece(m) == [type |-> m.type, xid |-> m.xid]

(* Mutant: only the type of a further piece is compared.                   *)
MultipartPiece_AnyXid(m) ==
  /\ m.type \in Multipart /\ m.more
  /\ IF multipartMsg # <<>> /\ Last(multipartMsg).type # m.type
     THEN multipartMsg' = <<>> /\ sent' = Append(sent, reply("BAD_MULTIPART", m.xid))
     ELSE multipartMsg' = Append(multipartMsg, Piece(m)) /\ UNCHANGED sent
  /\ UNCHANGED controllers

MultipartPiece(m) ==
  /\ m.type \in Multipart /\ m.more
  /\ IF multipartMsg # <<>> /\ Last(multipartMsg) # Piece(m)
     THEN multipartMsg' = <<>> /\ sent' = Append(sent, reply("BAD_MULTIPART", m.xid))
     ELSE multipartMsg' = Append(multipartMsg, Piece(m)) /\ UNCHANGED sent
  /\ UNCHANGED controllers

(* Mutant: the pipeline returns what it has sent.                          *)
PipelineAnswers_Returns(m) ==
  IF m.type \in {"PORT_DESC", "TABLE_FEATURES", "AGGREGATE_STATS"}
  THEN <<reply("MULTIPART_REPLY", m.xid), reply("MULTIPART_REPLY", m.xid)>> ELSE <<>>

(* OFPipeline::simple_action sends by itself and returns nothing.  A       *)
(* request that the port manager answers is not answered by the tables.    *)
PipelineAnswers(m) ==
  IF m.type \in {"PORT_DESC", "TABLE_FEATURES", "AGGREGATE_STATS"}
  THEN <<reply("MULTIPART_REPLY", m.xid)>> ELSE <<>>

(* The last piece is kept without a comparison, and the type of the first  *)
(* decides; the description is answered with the id of the first, what the *)
(* pipeline answers with that of the last.                                 *)
MultipartLast(m) ==
  /\ m.type \in Multipart /\ ~m.more
  /\ LET first == Head(Append(multipartMsg, Piece(m)))
     IN sent' = sent \o CASE first.type \in {"TABLE_FEATURES", "PORT_DESC"} -> PipelineAnswers(m)
                          [] first.type = "DESC" -> <<reply("MULTIPART_REPLY", first.xid)>>
                          [] OTHER -> <<>>
  /\ multipartMsg' = <<>>
  /\ UNCHANGED controllers

Respond(m) ==
  \/ Immediate(m) \/ Logged(m) \/ SetConfig(m) \/ RoleRequest(m)
  \/ MultipartPiece(m) \/ MultipartLast(m)

-----------------------------------------------------------------------------
ResponderTypeOK ==
  /\ controllers \in Seq([generation : Nat, rolle : Roles])
  /\ multipartMsg \in Seq([type : Multipart, xid : Nat])
  /\ sent \in Seq(Reply)
=============================================================================
