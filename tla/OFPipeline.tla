------------------------------ MODULE OFPipeline ------------------------------
(***************************************************************************)
(* The pipeline element, Elements/OFPipeline/OFPipeline.cc, with its port  *)
(* manager: the timer that renews the switch's own forwarding rules, the   *)
(* status of the VLC port that it takes from PORT_STATUS messages, and the *)
(* dispatch of messages and packets to the port manager.                   *)
(*                                                                         *)
(* The rules of the timer are entries of table 0 of OFTableMng.  Here they *)
(* are a set, with the whole seconds that are left until each expires.     *)
(***************************************************************************)
EXTENDS PortState, OFPortMng, FiniteSets

CONSTANTS
  Interval,   (* _interval / 1000: the timer's period and the rules' idle    *)
              (* timeout                                                     *)
  Late        (* bound: the seconds by which the timer may fire too late     *)

ASSUME PipelineAssumption == Interval \in Nat /\ Interval > 0 /\ Late \in Nat

VARIABLES
  rules,           (* the rules of the timer that are in the table           *)
  due,             (* seconds until the timer is to fire                     *)
  vlcPortStatus,
  renewals         (* history: timer events since vlcPortStatus became       *)
                   (* FALSE, up to two                                       *)

pipeline == <<rules, due, vlcPortStatus, renewals>>
vars == <<portMng, pipeline>>

Destinations == {"ETH212", "ETH213", "other"}

Rule == [dst : {"ETH212", "ETH213"}, port : Ports, priority : Nat, left : Int]

(* Mutants: the idle timeout is a second too short; it is doubled.         *)
createMessage_Short(priority, dst, port) ==
  [dst |-> dst, port |-> port, priority |-> priority, left |-> Interval - 1]

createMessage_Long(priority, dst, port) ==
  [dst |-> dst, port |-> port, priority |-> priority, left |-> 2 * Interval]

createMessage(priority, dst, port) ==
  [dst |-> dst, port |-> port, priority |-> priority, left |-> Interval]

(* Mutant: the VLC rules are added in any case.                            *)
NewRules_Always(vlc) ==
  UNION {{createMessage(PRIOETHER, dst, ETHERPORT), createMessage(PRIOWLAN, dst, WLANPORT),
          createMessage(PRIOVLC, dst, VLCPORT)} : dst \in {"ETH212", "ETH213"}}

(* The six rules, two of them only while the VLC port is taken for live.   *)
NewRules(vlc) ==
  UNION {{createMessage(PRIOETHER, dst, ETHERPORT), createMessage(PRIOWLAN, dst, WLANPORT)}
           \cup {createMessage(PRIOVLC, dst, port) : port \in IF vlc THEN {VLCPORT} ELSE {}}
         : dst \in {"ETH212", "ETH213"}}

(* What OFTableMng leaves of them when it handles a FLOW_MOD ADD.          *)
Unexpired == {r \in rules : r.left >= 0}

-----------------------------------------------------------------------------
initialize ==
  /\ rules = NewRules(TRUE)
  /\ due = Interval
  /\ vlcPortStatus = TRUE
  /\ renewals = 0

Init == PortMngInit /\ initialize

run_timer ==
  /\ due <= 0
  /\ rules' = Unexpired \cup NewRules(vlcPortStatus)
  /\ due' = Interval
  /\ renewals' = IF ~vlcPortStatus /\ renewals < 2 THEN renewals + 1 ELSE renewals
  /\ UNCHANGED vlcPortStatus

(* A controller's ADD purges the table too; its own entry is not ours.     *)
FlowModAdd ==
  /\ rules' = Unexpired
  /\ UNCHANGED <<due, vlcPortStatus, renewals>>

Tick ==
  /\ due > -Late
  /\ due' = due - 1
  /\ rules' = {[r EXCEPT !.left = @ - 1] : r \in rules}
  /\ UNCHANGED <<vlcPortStatus, renewals>>

(* Mutant: taken for live unless the message says LINK_DOWN; compared as   *)
(* it is, it never does.                                                   *)
PortStatus_UnlessDown(state) ==
  /\ vlcPortStatus' = (state # OFPPS_LINK_DOWN)
  /\ renewals' = IF vlcPortStatus' THEN 0 ELSE renewals
  /\ UNCHANGED <<rules, due>>

(* A PORT_STATUS, whatever port it is from.  `state' is what the message   *)
(* carries, in network order; it is compared as it is.                     *)
PortStatus(state) ==
  /\ vlcPortStatus' = (state = OFPPS_LIVE)
  /\ renewals' = IF vlcPortStatus' THEN 0 ELSE renewals
  /\ UNCHANGED <<rules, due>>

Reported == {__builtin_bswap32(OFPPS_LIVE), __builtin_bswap32(OFPPS_LINK_DOWN)}

FromPort ==
  \/ \E state \in Reported : PortStatus(state) /\ UNCHANGED portMng
  \/ \E inPort \in Ports, type \in {"BROADCAST", "OTHERHOST"}, dst \in Destinations :
       PacketIn(inPort, type, dst, vlcPortStatus) /\ UNCHANGED pipeline

FromController ==
  \/ FlowModAdd /\ UNCHANGED portMng
  \/ \E inPort \in Ports \cup {OFPP_ANY, OFPP_CONTROLLER}, port \in PortNumbers :
       PacketOut(inPort, port) /\ UNCHANGED pipeline
  \/ \E xid \in Xids : PortDescRequest(xid) /\ UNCHANGED pipeline

Timer == run_timer /\ UNCHANGED portMng
Clock == Tick /\ UNCHANGED portMng

Next == FromPort \/ FromController \/ Timer \/ Clock

Spec == Init /\ [][Next]_vars

-----------------------------------------------------------------------------
(* Every variable keeps its type; in particular a packet is pushed to      *)
(* outputs that exist only, whatever port a PACKET_OUT names.              *)
TypeOK ==
  /\ PortMngTypeOK
  /\ rules \subseteq Rule
  /\ due \in -Late..Interval
  /\ vlcPortStatus \in BOOLEAN
  /\ renewals \in 0..2

(* The table does not fill up although every period adds rules and nothing *)
(* replaces the old ones: there are at most two generations of them,       *)
(* however late the timer.                                                 *)
TwoGenerations == Cardinality({r.left : r \in rules}) <= 2

(* As long as the timer is not late there is an unexpired WLAN and an      *)
(* unexpired Ethernet rule for either address, whatever a controller's     *)
(* FLOW_MODs purge in between.                                             *)
RulesAreRenewed ==
  due >= 0 => \A r \in NewRules(FALSE) : \E q \in Unexpired :
                q.dst = r.dst /\ q.port = r.port

(* Once the VLC port is taken for down, the second timer event has removed *)
(* the last rule that sends to it.                                         *)
VLCRulesLapse ==
  ~vlcPortStatus /\ renewals = 2 => \A r \in rules : r.port # VLCPORT
=============================================================================
