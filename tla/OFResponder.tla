----------------------------- MODULE OFResponder -----------------------------
(***************************************************************************)
(* The responder, Elements/OFResponder/OFResponder.cc: what the switch     *)
(* answers to a controller by itself, and what passes through it.          *)
(*                                                                         *)
(* `replies' holds what has gone to the socket since the last read from    *)
(* it; the socket itself is module OFSocket.                               *)
(***************************************************************************)
EXTENDS Naturals, Sequences, SequencesExt, FiniteSets

VARIABLES
  OFVersion,           (* _OFVersion: that of the last message              *)
  switchStatusFlags,   (* _switchStatusFlags                                *)
  controllers,         (* _controllers                                      *)
  multipartMsg,        (* _multipartMsg: the pieces kept                    *)
  replies

responder == <<OFVersion, switchStatusFlags, controllers, multipartMsg, replies>>

OFP_VERSION == 6
Versions == {OFP_VERSION, OFP_VERSION - 1}

(* ofp_controller_role                                                     *)
Roles  == 0..3
MASTER == 2

(* "DESC" is the multipart request that the classifier hands to the        *)
(* responder, "STATS" any other, which the pipeline answers.               *)
Types == {"HELLO", "ERROR", "ECHO_REQUEST", "FEATURES_REQUEST", "GET_CONFIG_REQUEST",
          "SET_CONFIG", "BARRIER_REQUEST", "ROLE_REQUEST", "DESC", "STATS",
          "FLOW_MOD", "PACKET_OUT"}

(* A message of the controller.  `more' is the flag OFPMPF_REQ_MORE of a   *)
(* multipart request.                                                      *)
Message == [type : Types, xid : Nat, version : Nat, more : BOOLEAN,
            role : Roles, generation : Nat, flags : Nat]

Controller == [generation : Nat, rolle : Roles]

(* The answer that is given at once to a single message.                   *)
Answer == [HELLO |-> "HELLO", ECHO_REQUEST |-> "ECHO_REPLY",
           FEATURES_REQUEST |-> "FEATURES_REPLY", BARRIER_REQUEST |-> "BARRIER_REPLY",
           GET_CONFIG_REQUEST |-> "GET_CONFIG_REPLY", STATS |-> "MULTIPART_REPLY"]

ReplyTypes == {Answer[t] : t \in DOMAIN Answer} \cup {"ROLE_REPLY", "STALE", "BAD_MULTIPART"}

Reply == [type : ReplyTypes, xid : Nat, version : Versions]

send(type, xid, version) ==
  replies' = Append(replies, [type |-> type, xid |-> xid, version |-> version])

-----------------------------------------------------------------------------
ResponderInit ==
  /\ OFVersion = OFP_VERSION
  /\ switchStatusFlags = 0
  /\ controllers = <<>>
  /\ multipartMsg = <<>>
  /\ replies = <<>>

(* HELLO, FEATURES, BARRIER, GET_CONFIG, and what the pipeline answers.    *)
Immediate(m) ==
  /\ m.type \in DOMAIN Answer \ {"ECHO_REQUEST"}
  /\ OFVersion' = m.version
  /\ send(Answer[m.type], m.xid, m.version)
  /\ UNCHANGED <<switchStatusFlags, controllers, multipartMsg>>

(* The version of an ECHO_REPLY is always 1.4's.                           *)
Echo(m) ==
  /\ m.type = "ECHO_REQUEST"
  /\ OFVersion' = m.version
  /\ send("ECHO_REPLY", m.xid, OFP_VERSION - 1)
  /\ UNCHANGED <<switchStatusFlags, controllers, multipartMsg>>

SetConfig(m) ==
  /\ m.type = "SET_CONFIG"
  /\ OFVersion' = m.version
  /\ switchStatusFlags' = m.flags
  /\ UNCHANGED <<controllers, multipartMsg, replies>>

(* ERROR comes to the responder and is logged.                             *)
Logged(m) ==
  /\ m.type = "ERROR"
  /\ OFVersion' = m.version
  /\ UNCHANGED <<switchStatusFlags, controllers, multipartMsg, replies>>

(* Mutant: the comparison of the generations is gone.                      *)
Stale_Never(m) == FALSE

(* Another generation holds the role of master.                            *)
Stale(m) ==
  /\ m.role = MASTER
  /\ \E c \in Range(controllers) : c.rolle = MASTER /\ c.generation # m.generation

(* Only the first request is ever stored: the loop that is to change the   *)
(* role of a known controller changes a copy.                              *)
RoleRequest(m) ==
  /\ m.type = "ROLE_REQUEST"
  /\ OFVersion' = m.version
  /\ controllers' = IF controllers = <<>>
                    THEN <<[generation |-> m.generation, rolle |-> m.role]>>
                    ELSE controllers
  /\ send(IF Stale(m) THEN "STALE" ELSE "ROLE_REPLY", m.xid, m.version)
  /\ UNCHANGED <<switchStatusFlags, multipartMsg>>

Kept(m) == [xid |-> m.xid, version |-> m.version]

(* Mutant: the id of a further piece is not compared.                      *)
DescPiece_AnyXid(m) ==
  /\ m.type = "DESC" /\ m.more
  /\ OFVersion' = m.version
  /\ multipartMsg' = Append(multipartMsg, Kept(m))
  /\ UNCHANGED <<switchStatusFlags, controllers, replies>>

(* A piece of a multipart request that announces another.                  *)
DescPiece(m) ==
  /\ m.type = "DESC" /\ m.more
  /\ OFVersion' = m.version
  /\ IF multipartMsg # <<>> /\ Last(multipartMsg).xid # m.xid
     THEN multipartMsg' = <<>> /\ send("BAD_MULTIPART", m.xid, m.version)
     ELSE multipartMsg' = Append(multipartMsg, Kept(m)) /\ UNCHANGED replies
  /\ UNCHANGED <<switchStatusFlags, controllers>>

(* The last or only piece, kept without a comparison: the reply has the id *)
(* and the version of the first one kept.                                  *)
Desc(m) ==
  /\ m.type = "DESC" /\ ~m.more
  /\ OFVersion' = m.version
  /\ LET first == Head(Append(multipartMsg, Kept(m)))
     IN send("MULTIPART_REPLY", first.xid, first.version)
  /\ multipartMsg' = <<>>
  /\ UNCHANGED <<switchStatusFlags, controllers>>

(* FLOW_MOD and PACKET_OUT go past the responder to the pipeline.          *)
Passed(m) ==
  /\ m.type \in {"FLOW_MOD", "PACKET_OUT"}
  /\ UNCHANGED responder

push(m) ==
  \/ Immediate(m) \/ Echo(m) \/ SetConfig(m) \/ Logged(m) \/ RoleRequest(m)
  \/ DescPiece(m) \/ Desc(m) \/ Passed(m)

-----------------------------------------------------------------------------
ResponderTypeOK ==
  /\ OFVersion \in Versions
  /\ switchStatusFlags \in Nat
  /\ controllers \in Seq(Controller) /\ Len(controllers) <= 1
  /\ multipartMsg \in Seq([xid : Nat, version : Versions])
  /\ replies \in Seq(Reply)
=============================================================================
