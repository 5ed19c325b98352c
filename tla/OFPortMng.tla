------------------------------ MODULE OFPortMng ------------------------------
(***************************************************************************)
(* The port manager, Elements/OFPipeline/OFPortMng.cc: through which ports *)
(* a packet leaves, and the answer to a PORT_DESC request, which it        *)
(* collects from the wrappers of all ports.                                *)
(***************************************************************************)
EXTENDS Integers, Sequences, Functions

CONSTANTS
  NumberOfPorts,   (* outputs of the pipeline besides the controller's       *)
  Xids,            (* the transaction ids of requests                        *)
  MaxRequests      (* bound on the number of PORT_DESC requests              *)

(* OFPipeline.hh fixes what three of the ports lead to.                    *)
WLANPORT == 1
ETHERPORT == 2
VLCPORT == 3

PRIOETHER == 1
PRIOWLAN == 7
PRIOVLC == 8

ASSUME PortAssumption ==
  /\ NumberOfPorts \in Nat /\ NumberOfPorts >= VLCPORT
  /\ Xids \subseteq Nat
  /\ MaxRequests \in Nat

VARIABLES
  portDesc,        (* the descriptions collected; a port stands for its own  *)
  numberOfPorts,   (* of the OFPortMng that is the pipeline's                *)
  asked,           (* the xid of the last request                            *)
  reply,           (* history: the last reply                                *)
  forwarded        (* history: where the last packet came from and went      *)

portMng == <<portDesc, numberOfPorts, asked, reply, forwarded>>

Ports == 1..NumberOfPorts
Outputs == 0..NumberOfPorts   (* port_active: the controller's is 0          *)
NoRequest == -1
NoReply == [xid |-> NoRequest, ports |-> <<>>, more |-> FALSE]

(* Reserved port numbers, as the int they are pushed as.                   *)
OFPP_ANY == -1
OFPP_CONTROLLER == -3
OFPP_ALL == -4
OFPP_FLOOD == -5

(* The ports a PACKET_OUT names: outputs, one too many, reserved numbers.  *)
PortNumbers == Outputs \cup {NumberOfPorts + 1, OFPP_ALL, OFPP_FLOOD}

PortMngInit ==
  /\ portDesc = <<>>
  /\ numberOfPorts = 0
  /\ asked = NoRequest
  /\ reply = NoReply
  /\ forwarded = [type |-> "none", from |-> OFPP_ANY, out |-> OFPP_ANY, to |-> {}]

-----------------------------------------------------------------------------
(* Mutant: the port is not compared with the outputs there are.            *)
PacketOut_Unchecked(inPort, port) ==
  /\ forwarded' =
       [type |-> "PACKET_OUT", from |-> inPort, out |-> port,
        to |-> IF port = OFPP_FLOOD THEN Ports \ {inPort} ELSE {port}]
  /\ UNCHANGED <<portDesc, numberOfPorts, asked, reply>>

(* What the wrappers push back, one after the other: Click's calls nest.   *)
Descriptions == [i \in Ports |-> i]

(* Mutant: a reply whenever there are enough descriptions.                 *)
PortDescReply_AtLeast(collected) ==
  /\ numberOfPorts' = numberOfPorts + 1
  /\ reply' = [xid |-> asked', ports |-> collected, more |-> FALSE]

(* The reply is sent by the push of the description that makes them        *)
(* NumberOfPorts, never by one before or after.                            *)
PortDescReply(collected) ==
  IF \E n \in Len(portDesc) + 1 .. Len(collected) : n = NumberOfPorts
    THEN /\ numberOfPorts' = numberOfPorts + 1
         /\ reply' = [xid |-> asked', ports |-> SubSeq(collected, 1, NumberOfPorts),
                      more |-> numberOfPorts' + 1 # NumberOfPorts + 1]
    ELSE UNCHANGED <<numberOfPorts, reply>>

PortDescRequest(xid) ==
  /\ Len(portDesc) < MaxRequests * NumberOfPorts
  /\ asked' = xid
  /\ portDesc' = portDesc \o Descriptions
  /\ PortDescReply(portDesc')
  /\ UNCHANGED forwarded

(* The controller's PACKET_OUT with one OUTPUT action.  Without an in_port *)
(* any active output is pushed to, the controller's included; with one the *)
(* search starts at port 1, and FLOOD is known.  Another reserved number   *)
(* is that of no output.                                                   *)
PacketOut(inPort, port) ==
  /\ forwarded' =
       [type |-> "PACKET_OUT", from |-> inPort, out |-> port,
        to |-> IF inPort = OFPP_ANY THEN Outputs \cap {port}
               ELSE IF port = OFPP_FLOOD THEN Ports \ {inPort}
               ELSE Ports \cap {port}]
  /\ UNCHANGED <<portDesc, numberOfPorts, asked, reply>>

(* selected(): a broadcast is flooded; two addresses have fixed ways out,  *)
(* whatever port the packet came from; a packet for another address is for *)
(* the tables.  (Packets for this host do not pass the wrapper.)           *)
UnicastPort(dst, vlcPortStatus) ==
  IF dst = "ETH212" THEN ETHERPORT
  ELSE IF PRIOWLAN > PRIOVLC \/ ~vlcPortStatus THEN WLANPORT ELSE VLCPORT

selected(inPort, type, dst, vlcPortStatus) ==
  CASE type = "BROADCAST" -> Ports \ {inPort}
    [] dst \in {"ETH212", "ETH213"} -> {UnicastPort(dst, vlcPortStatus)}
    [] OTHER -> {}

PacketIn(inPort, type, dst, vlcPortStatus) ==
  /\ forwarded' = [type |-> type, from |-> inPort, out |-> OFPP_ANY,
                   to |-> selected(inPort, type, dst, vlcPortStatus)]
  /\ UNCHANGED <<portDesc, numberOfPorts, asked, reply>>

-----------------------------------------------------------------------------
PortMngTypeOK ==
  /\ portDesc \in Seq(Ports)
  /\ numberOfPorts \in Nat
  /\ asked \in Xids \cup {NoRequest}
  /\ reply \in [xid : Xids \cup {NoRequest}, ports : Seq(Ports), more : BOOLEAN]
  /\ forwarded \in [type : {"none", "PACKET_OUT", "BROADCAST", "OTHERHOST"},
                    from : Ports \cup {OFPP_ANY, OFPP_CONTROLLER},
                    out : PortNumbers \cup {OFPP_ANY}, to : SUBSET Outputs]

(* A reply describes every port once, although the collected descriptions  *)
(* are never cleared between requests.                                     *)
ReplyIsComplete ==
  reply # NoReply => Range(reply.ports) = Ports /\ IsInjective(reply.ports)

-----------------------------------------------------------------------------
(* A statement of openflow_1_5.h that the code does not keep: "The reply   *)
(* body is an array of struct ofp_port." (line 2449).  Every PORT_DESC     *)
(* request is answered, at once since the calls nest; only the first is.   *)
EveryRequestAnswered == asked # NoRequest => reply.xid = asked
=============================================================================
