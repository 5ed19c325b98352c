----------------------------- MODULE OFPacketIn -----------------------------
(***************************************************************************)
(* What Elements/OFPipeline/OFTableMng.cc sends to the controller, on top  *)
(* of module OFTableMng: the PACKET_INs of the entries that output to      *)
(* OFPP_CONTROLLER.                                                        *)
(*                                                                         *)
(* A table does not point to the manager but to a copy of it, the tables   *)
(* of the next generation to copies of that copy, and an entry keeps the   *)
(* copy its table had when it was added.  Every copy has a packetInBuffer  *)
(* of its own, and its length is the id of the next PACKET_IN.             *)
(***************************************************************************)
EXTENDS OFTableMng

ASSUME ManagerAssumption ==
  IsFiniteSet(Tables) /\ Tables = 0..(Cardinality(Tables) - 1)

VARIABLES
  buffers,    (* the managers ever made -> the length of packetInBuffer      *)
  tableMng,   (* table of the active generation -> the copy it points to     *)
  flowMng,    (* entry -> the copy its action points to                      *)
  lastId      (* history: entry -> the id of its last PACKET_IN, or NoId     *)

packetInVars == <<vars, buffers, tableMng, flowMng, lastId>>

Own == 1      (* the manager that OFPipeline holds and cleans up             *)
NoId == -1

(* Mutant: a copied table keeps the manager of the original.               *)
CopyManagers_Shared(from, heap) == [heap |-> heap, copies |-> from]

(* One make_shared<OFTableMng> per table: a copy starts with the packets   *)
(* of the buffer it copies.                                                *)
CopyManagers(from, heap) ==
  [heap   |-> heap \o [k \in 1..Cardinality(Tables) |-> heap[from[k - 1]]],
   copies |-> [t \in Tables |-> Len(heap) + 1 + t]]

InitManagers ==
  LET c == CopyManagers([t \in Tables |-> Own], <<0>>)
  IN /\ Init
     /\ buffers = c.heap /\ tableMng = c.copies
     /\ flowMng = <<>> /\ lastId = <<>>

AddFlowMng(m) ==
  LET c == CopyManagers(tableMng, buffers)
  IN /\ FlowModAdd(m)
     /\ buffers' = c.heap /\ tableMng' = c.copies
     /\ flowMng' = Append(flowMng, c.copies[m.table])
     /\ lastId' = Append(lastId, NoId)

(* The entries, at most one per table, that send the packet they are       *)
(* applied to to the controller.                                           *)
Senders(hit) ==
  {i \in FlowIds : /\ flows[i].action = "CONTROLLER"
                   /\ \E t \in Tables : i \in hit[t]}

(* sendPacketToSocket: the id is the length of the buffer, to which a      *)
(* clone of the packet is then added.                                      *)
sendPacketToSocket(senders) ==
  /\ lastId' = [i \in FlowIds |->
       IF i \in senders THEN buffers[flowMng[i]] ELSE lastId[i]]
  /\ buffers' = [k \in DOMAIN buffers |->
       buffers[k] + Cardinality({i \in senders : flowMng[i] = k})]

HandlePacket(p) ==
  /\ checkPacketInFlow(p)
  /\ sendPacketToSocket(Senders(applied'))
  /\ UNCHANGED <<tableMng, flowMng>>

OtherMod(m) ==
  FlowModOther(m) /\ UNCHANGED <<buffers, tableMng, flowMng, lastId>>

Second == Tick /\ UNCHANGED <<buffers, tableMng, flowMng, lastId>>

NextManagers ==
  \/ \E m \in FlowMods : AddFlowMng(m)
  \/ \E m \in FlowMods : OtherMod(m)
  \/ \E p \in Packets : HandlePacket(p)
  \/ Second

PacketInSpec == InitManagers /\ [][NextManagers]_packetInVars

-----------------------------------------------------------------------------
(* The PACKET_INs of one entry are numbered without a gap or a repetition, *)
(* whatever FLOW_MODs copied its table, and with it the buffer whose       *)
(* length numbers them, in between.  And OFTableMng::cleanup, which kills  *)
(* every packet of its buffer twice, finds none: packets are only ever     *)
(* added to copies, never to the buffer of the pipeline's own manager.     *)
BuffersAreApart ==
  /\ \A i \in FlowIds : lastId[i] # NoId => buffers[flowMng[i]] = lastId[i] + 1
  /\ buffers[Own] = 0

=============================================================================
