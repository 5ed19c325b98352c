------------------------------- MODULE Failover -------------------------------
(***************************************************************************)
(* A switch whose VLC port is supervised: the wrapper at the near end of   *)
(* the VLC link (OFInterfaceWrapper) and the pipeline (OFPipeline), which  *)
(* Click connects by a nested call.  The PORT_STATUS that the wrapper      *)
(* sends is therefore handled within the step that sends it.  Packets from *)
(* the other ports, and what the controller sends, come in between.        *)
(***************************************************************************)
EXTENDS OFInterfaceWrapper

CONSTANTS
  Near,        (* the end of the VLC link at this switch                     *)
  Arrivals,    (* the packets that arrive: <<port, type, destination>>       *)
  PacketOuts,  (* the controller's: <<in_port, port>>                        *)
  NumberOfPorts, Xids, MaxRequests, Interval, Late

VARIABLES
  portDesc, numberOfPorts, asked, reply, forwarded,
  rules, due, vlcPortStatus, renewals

P == INSTANCE OFPipeline

ASSUME FailoverAssumption ==
  /\ Near \in VLC
  /\ NumberOfPorts \in Nat /\ NumberOfPorts >= P!VLCPORT
  /\ Xids \subseteq Nat /\ MaxRequests \in Nat
  /\ Interval \in Nat \ {0} /\ Late \in Nat
  /\ Arrivals \subseteq P!Ports \X {"BROADCAST", "OTHERHOST"} \X P!Destinations
  /\ PacketOuts \subseteq (P!Ports \cup {P!OFPP_ANY, P!OFPP_CONTROLLER}) \X P!PortNumbers

ports == <<portDesc, numberOfPorts, asked, reply, forwarded>>
pipeline == <<rules, due, vlcPortStatus, renewals>>
switch == <<vars, ports, pipeline>>

SwitchInit == Init /\ P!Init

(* output(0) of the wrapper is the VLC port's input of the pipeline.       *)
Forwarding ==
  /\ IF status'[Near] # None THEN P!PortStatus(status'[Near]) ELSE UNCHANGED pipeline
  /\ UNCHANGED ports

PingTimer(e) == run_timer(e) /\ Forwarding
LinkMoves(e) == (PingRequest(e) \/ PingResponse(e) \/ Lose(e)) /\ Forwarding
LinkChanges == (Break \/ Repair) /\ Forwarding

Packet ==
  \E a \in Arrivals : P!PacketIn(a[1], a[2], a[3], vlcPortStatus) /\ UNCHANGED pipeline

(* What the controller sends does not touch the pings of the wrappers.     *)
Controller ==
  \/ P!FlowModAdd /\ UNCHANGED ports
  \/ \E o \in PacketOuts : P!PacketOut(o[1], o[2]) /\ UNCHANGED pipeline
  \/ \E xid \in Xids : P!PortDescRequest(xid) /\ UNCHANGED pipeline

RuleTimer == P!Timer /\ UNCHANGED vars
Second == P!Clock /\ UNCHANGED vars

SwitchNext ==
  \/ \E e \in VLC : PingTimer(e)
  \/ \E e \in Ends : LinkMoves(e)
  \/ LinkChanges
  \/ (Packet \/ Controller) /\ UNCHANGED vars
  \/ RuleTimer
  \/ Second

SwitchSpec == SwitchInit /\ [][SwitchNext]_switch

FairSwitchSpec ==
  /\ SwitchSpec
  /\ \A e \in VLC : WF_switch(PingTimer(e))
  /\ \A e \in Ends : WF_switch(LinkMoves(e))
  /\ WF_switch(RuleTimer)
  /\ WF_switch(Second)

-----------------------------------------------------------------------------
(* No unicast packet for a fixed address, whatever port it comes from, is  *)
(* sent to a VLC port that is reported down: the pipeline has the          *)
(* wrapper's state, as far as LINK_DOWN goes, in the same step.  (A        *)
(* broadcast still goes to every port, a PACKET_OUT to the one it names.)  *)
DownIsAvoided ==
  state[Near] = Down =>
    \A inPort \in P!Ports, dst \in P!Destinations :
      P!VLCPORT \notin P!selected(inPort, "OTHERHOST", dst, vlcPortStatus)

(* When the VLC link breaks for good, the unicast packets for the address  *)
(* behind it end up with the WLAN port, and no rule of the timer sends to  *)
(* the VLC port, from any state of pings and timers and whatever packets   *)
(* and messages come.                                                      *)
LossIsBypassed ==
  <>[]~up => <>[](/\ \A inPort \in P!Ports :
                       P!selected(inPort, "OTHERHOST", "ETH213", vlcPortStatus) = {P!WLANPORT}
                  /\ \A r \in rules : r.port # P!VLCPORT)

(* openflow_1_5.h line 357, OFPPS_LIVE: "Live for Fast Failover Group."; a *)
(* VLC port that is reported live is used.                                 *)
LiveIsUsed ==
  state[Near] = Live => P!UnicastPort("ETH213", vlcPortStatus) = P!VLCPORT
=============================================================================
