-------------------------- MODULE OFPipeline_proofs --------------------------
(***************************************************************************)
(* Proofs about the pipeline and its port manager, for any number of       *)
(* ports, any period of the timer and any delay of it.                     *)
(***************************************************************************)
EXTENDS OFPipeline, FiniteSetTheorems, TLAPS

(* The rules are of this timer event or of the one before, which fired at  *)
(* the second it was due: had it been late, none of its rules were left.   *)
TwoAges == \A r \in rules : r.left = due \/ r.left = due - Interval

(* The rules of the last timer event are there until they expire.          *)
Fresh ==
  due >= 0 => \A r \in NewRules(FALSE) : \E q \in rules :
                q.dst = r.dst /\ q.port = r.port /\ q.left = due

(* After one timer event only rules of the event before send to the VLC    *)
(* port that is taken for down.                                            *)
OneAgeLapses ==
  /\ ~vlcPortStatus /\ renewals >= 1 => \A r \in rules : r.left = due => r.port # VLCPORT
  /\ vlcPortStatus => renewals = 0

(* The descriptions are all there or none is.                              *)
AllOrNone == portDesc = <<>> \/ Len(portDesc) >= NumberOfPorts

RulesInv == TwoAges /\ Fresh /\ OneAgeLapses /\ VLCRulesLapse
PortsInv == AllOrNone /\ ReplyIsComplete
IInv == TypeOK /\ RulesInv /\ PortsInv

-----------------------------------------------------------------------------
LEMMA PortsAre ==
  /\ NumberOfPorts \in Nat /\ NumberOfPorts >= 3
  /\ WLANPORT \in Ports /\ ETHERPORT \in Ports /\ VLCPORT \in Ports
BY PortAssumption DEF Ports, WLANPORT, ETHERPORT, VLCPORT

LEMMA RuleType ==
  ASSUME NEW priority \in Nat, NEW dst \in {"ETH212", "ETH213"}, NEW port \in Ports
  PROVE  /\ createMessage(priority, dst, port) \in Rule
         /\ createMessage(priority, dst, port).left = Interval
         /\ createMessage(priority, dst, port).port = port
BY PipelineAssumption DEF createMessage, Rule

(* What a timer event adds.                                                *)
LEMMA NewRulesAre ==
  ASSUME NEW vlc \in BOOLEAN
  PROVE  /\ NewRules(vlc) \subseteq Rule
         /\ \A r \in NewRules(vlc) : r.left = Interval /\ (~vlc => r.port # VLCPORT)
         /\ NewRules(FALSE) \subseteq NewRules(vlc)
<1>1. \A r \in NewRules(vlc) : \E dst \in {"ETH212", "ETH213"} :
        \/ r = createMessage(PRIOETHER, dst, ETHERPORT)
        \/ r = createMessage(PRIOWLAN, dst, WLANPORT)
        \/ vlc /\ r = createMessage(PRIOVLC, dst, VLCPORT)
  BY DEF NewRules
<1>2. PRIOETHER \in Nat /\ PRIOWLAN \in Nat /\ PRIOVLC \in Nat
  BY DEF PRIOETHER, PRIOWLAN, PRIOVLC
<1>3. ETHERPORT # VLCPORT /\ WLANPORT # VLCPORT
  BY DEF ETHERPORT, WLANPORT, VLCPORT
<1>4. ASSUME NEW r \in NewRules(vlc)
      PROVE  r \in Rule /\ r.left = Interval /\ (~vlc => r.port # VLCPORT)
  BY <1>1, <1>2, <1>3, PortsAre, RuleType
<1>5. NewRules(FALSE) \subseteq NewRules(vlc)
  BY DEF NewRules
<1> QED BY <1>4, <1>5

-----------------------------------------------------------------------------
LEMMA TimerKeepsRules ==
  ASSUME TypeOK, RulesInv, run_timer
  PROVE  RulesInv' /\ rules' \subseteq Rule /\ due' \in -Late..Interval /\ renewals' \in 0..2
<1> DEFINE new == NewRules(vlcPortStatus)
<1>1. /\ Interval \in Nat /\ Interval > 0 /\ Late \in Nat
      /\ due \in Int /\ due <= 0 /\ renewals \in 0..2 /\ vlcPortStatus \in BOOLEAN
      /\ rules \subseteq Rule
  BY PipelineAssumption DEF TypeOK, run_timer
<1>2. /\ rules' = Unexpired \cup new /\ due' = Interval /\ vlcPortStatus' = vlcPortStatus
      /\ renewals' = IF ~vlcPortStatus /\ renewals < 2 THEN renewals + 1 ELSE renewals
  BY DEF run_timer
<1>3. /\ new \subseteq Rule /\ NewRules(FALSE) \subseteq new
      /\ \A r \in new : r.left = Interval /\ (~vlcPortStatus => r.port # VLCPORT)
  BY <1>1, NewRulesAre
<1> HIDE DEF new
<1>4. \A r \in Unexpired : r \in rules /\ r.left = 0 /\ due = 0
  BY <1>1 DEF Unexpired, RulesInv, TwoAges, Rule
<1>5. TwoAges'
  BY <1>1, <1>2, <1>3, <1>4 DEF TwoAges
<1>6. Fresh'
  <2>1. \A r \in NewRules(FALSE) : r \in rules' /\ r.left = due'
    BY <1>2, <1>3
  <2>2. NewRules(FALSE)' = NewRules(FALSE)
    BY DEF NewRules, createMessage
  <2> QED BY <2>1, <2>2 DEF Fresh
<1>7. OneAgeLapses'
  <2>1. ASSUME ~vlcPortStatus, NEW r \in rules', r.left = Interval
        PROVE  r.port # VLCPORT
    <3>1. r \notin Unexpired
      BY <1>1, <1>4, <2>1
    <3> QED BY <1>2, <1>3, <2>1, <3>1
  <2>2. vlcPortStatus => renewals' = 0
    BY <1>2 DEF RulesInv, OneAgeLapses
  <2> QED BY <1>2, <2>1, <2>2 DEF OneAgeLapses
<1>8. VLCRulesLapse'
  <2> SUFFICES ASSUME ~vlcPortStatus, renewals >= 1, NEW r \in rules'
               PROVE  r.port # VLCPORT
    BY <1>1, <1>2 DEF VLCRulesLapse
  <2>1. CASE r \in new
    BY <1>3, <2>1
  <2>2. CASE r \in Unexpired
    BY <1>4, <2>2 DEF RulesInv, OneAgeLapses
  <2> QED BY <1>2, <2>1, <2>2
<1>9. rules' \subseteq Rule
  BY <1>1, <1>2, <1>3 DEF Unexpired
<1> QED BY <1>1, <1>2, <1>5, <1>6, <1>7, <1>8, <1>9 DEF RulesInv

LEMMA PurgeKeepsRules ==
  ASSUME TypeOK, RulesInv, FlowModAdd
  PROVE  RulesInv' /\ rules' \subseteq Rule
<1>1. /\ rules' = Unexpired /\ Unexpired \subseteq rules
      /\ UNCHANGED <<due, vlcPortStatus, renewals>>
  BY DEF FlowModAdd, Unexpired
<1>2. Fresh'
  BY <1>1 DEF RulesInv, Fresh, Unexpired, NewRules, createMessage
<1>3. TwoAges' /\ OneAgeLapses' /\ VLCRulesLapse'
  BY <1>1 DEF RulesInv, TwoAges, OneAgeLapses, VLCRulesLapse
<1> QED BY <1>1, <1>2, <1>3 DEF RulesInv, TypeOK

LEMMA TickKeepsRules ==
  ASSUME TypeOK, RulesInv, Tick
  PROVE  RulesInv' /\ rules' \subseteq Rule /\ due' \in -Late..Interval
<1> DEFINE older(r) == [r EXCEPT !.left = @ - 1]
<1>1. /\ Interval \in Nat /\ Late \in Nat /\ due \in -Late..Interval
      /\ due > -Late /\ due' = due - 1
      /\ rules' = {older(r) : r \in rules} /\ UNCHANGED <<vlcPortStatus, renewals>>
  BY PipelineAssumption DEF TypeOK, Tick
<1>2. \A r \in rules : /\ older(r) \in Rule /\ older(r).left = r.left - 1 /\ r.left \in Int
                       /\ older(r).port = r.port /\ older(r).dst = r.dst
  BY DEF TypeOK, Rule
<1> HIDE DEF older
<1>3. TwoAges'
  BY <1>1, <1>2 DEF RulesInv, TwoAges
<1>4. Fresh'
  <2> SUFFICES ASSUME due - 1 >= 0, NEW r \in NewRules(FALSE)
               PROVE  \E q \in rules' : q.dst = r.dst /\ q.port = r.port /\ q.left = due - 1
    BY <1>1 DEF Fresh, NewRules, createMessage
  <2>1. PICK q \in rules : q.dst = r.dst /\ q.port = r.port /\ q.left = due
    <3>1. due >= 0
      BY <1>1
    <3> QED BY <3>1 DEF RulesInv, Fresh
  <2> QED BY <1>1, <1>2, <2>1
<1>5. OneAgeLapses' /\ VLCRulesLapse'
  BY <1>1, <1>2 DEF RulesInv, OneAgeLapses, VLCRulesLapse
<1>6. rules' \subseteq Rule /\ due' \in -Late..Interval
  BY <1>1, <1>2
<1> QED BY <1>3, <1>4, <1>5, <1>6 DEF RulesInv

LEMMA StatusKeepsRules ==
  ASSUME TypeOK, RulesInv, NEW status \in Int, PortStatus(status)
  PROVE  RulesInv' /\ vlcPortStatus' \in BOOLEAN /\ renewals' \in 0..2
<1>1. /\ UNCHANGED <<rules, due>> /\ vlcPortStatus' = (status = OFPPS_LIVE)
      /\ renewals' = IF vlcPortStatus' THEN 0 ELSE renewals
  BY DEF PortStatus
<1>2. TwoAges' /\ Fresh'
  BY <1>1 DEF RulesInv, TwoAges, Fresh, NewRules, createMessage
<1>3. vlcPortStatus' \in BOOLEAN /\ renewals \in 0..2 /\ vlcPortStatus \in BOOLEAN
  BY <1>1 DEF TypeOK
<1>4. CASE vlcPortStatus'
  <2>1. renewals' = 0
    BY <1>1, <1>4
  <2> QED BY <1>2, <1>3, <1>4, <2>1 DEF RulesInv, OneAgeLapses, VLCRulesLapse
<1>5. CASE ~vlcPortStatus'
  <2>1. renewals' = renewals
    BY <1>1, <1>5
  <2>2. OneAgeLapses' /\ VLCRulesLapse'
    BY <1>1, <1>3, <1>5, <2>1 DEF RulesInv, OneAgeLapses, VLCRulesLapse
  <2> QED BY <1>2, <1>3, <2>1, <2>2 DEF RulesInv
<1> QED BY <1>4, <1>5
-----------------------------------------------------------------------------
LEMMA InitIInv == Init => IInv
<1> SUFFICES ASSUME Init PROVE IInv
  OBVIOUS
<1>1. /\ rules = NewRules(TRUE) /\ due = Interval /\ vlcPortStatus = TRUE /\ renewals = 0
      /\ portDesc = <<>> /\ numberOfPorts = 0 /\ asked = NoRequest /\ reply = NoReply
      /\ forwarded = [type |-> "none", from |-> OFPP_ANY, out |-> OFPP_ANY, to |-> {}]
  BY DEF Init, initialize, PortMngInit
<1>2. /\ NewRules(TRUE) \subseteq Rule /\ NewRules(FALSE) \subseteq NewRules(TRUE)
      /\ \A r \in NewRules(TRUE) : r.left = Interval
  BY NewRulesAre
<1>3. Interval \in Nat /\ Late \in Nat /\ Interval \in -Late..Interval
  BY PipelineAssumption
<1>4. PortMngTypeOK
  BY <1>1 DEF PortMngTypeOK, NoReply
<1>5. TypeOK
  <2>1. due \in -Late..Interval /\ renewals \in 0..2 /\ vlcPortStatus \in BOOLEAN
    BY <1>1, <1>3
  <2>2. rules \subseteq Rule
    BY <1>1, <1>2
  <2> QED BY <1>4, <2>1, <2>2 DEF TypeOK
<1>6. RulesInv
  BY <1>1, <1>2, <1>3 DEF RulesInv, TwoAges, Fresh, OneAgeLapses, VLCRulesLapse
<1> QED BY <1>1, <1>5, <1>6 DEF IInv, PortsInv, AllOrNone, ReplyIsComplete

LEMMA Concatenated ==
  ASSUME NEW S, NEW s \in Seq(S), NEW t \in Seq(S)
  PROVE  s \o t \in Seq(S) /\ Len(s \o t) = Len(s) + Len(t)
OBVIOUS

(* All descriptions come in one nested call: the first request finds none  *)
(* and sees each port once, a later one finds too many ever to reply.      *)
LEMMA RequestKeepsPorts ==
  ASSUME TypeOK, PortsInv, NEW xid \in Xids, PortDescRequest(xid)
  PROVE  PortsInv' /\ PortMngTypeOK'
<1> DEFINE N == NumberOfPorts
<1>1. N \in Nat /\ N >= 3 /\ Ports = 1..N
  BY PortsAre DEF Ports
<1>2. /\ Descriptions \in Seq(Ports) /\ Len(Descriptions) = N
      /\ \A i \in 1..N : Descriptions[i] = i
  BY <1>1 DEF Descriptions
<1>3. portDesc \in Seq(Ports) /\ Len(portDesc) \in Nat
  BY DEF TypeOK, PortMngTypeOK
<1>4. /\ portDesc' = portDesc \o Descriptions /\ asked' = xid /\ UNCHANGED forwarded
      /\ PortDescReply(portDesc')
  BY DEF PortDescRequest
<1>5. portDesc' \in Seq(Ports) /\ Len(portDesc') = Len(portDesc) + N
  BY <1>2, <1>3, <1>4, Concatenated
<1>6. AllOrNone'
  BY <1>1, <1>3, <1>5 DEF AllOrNone
<1>7. CASE portDesc = <<>>
  <2>1. portDesc' = Descriptions /\ Len(portDesc) = 0
    BY <1>2, <1>3, <1>4, <1>7
  <2>2. \E n \in Len(portDesc) + 1 .. Len(portDesc') : n = NumberOfPorts
    BY <1>1, <1>2, <2>1
  <2>3. /\ numberOfPorts' = numberOfPorts + 1
        /\ reply' = [xid |-> xid, ports |-> SubSeq(portDesc', 1, N),
                     more |-> numberOfPorts' + 1 # N + 1]
    BY <1>4, <2>2 DEF PortDescReply
  <2>4. SubSeq(portDesc', 1, N) = Descriptions
    BY <1>1, <1>2, <2>1
  <2>5. reply'.ports = Descriptions /\ reply' \in [xid : Xids \cup {NoRequest}, ports : Seq(Ports), more : BOOLEAN]
    BY <1>2, <2>3, <2>4
  <2>6. Range(Descriptions) = Ports /\ IsInjective(Descriptions)
    BY <1>1 DEF Range, IsInjective, Descriptions
  <2>7. ReplyIsComplete'
    BY <2>5, <2>6 DEF ReplyIsComplete, Ports
  <2>8. PortMngTypeOK'
    <3>1. numberOfPorts' \in Nat
      BY <2>3 DEF TypeOK, PortMngTypeOK
    <3>2. asked' \in Xids \cup {NoRequest} /\ forwarded' = forwarded
      BY <1>4
    <3> HIDE DEF N
    <3> QED BY <1>5, <2>5, <3>1, <3>2 DEF TypeOK, PortMngTypeOK, Ports
  <2> QED BY <1>6, <2>7, <2>8 DEF PortsInv
<1>8. CASE portDesc # <<>>
  <2>1. Len(portDesc) >= N
    BY <1>8 DEF PortsInv, AllOrNone
  <2>2. ~ \E n \in Len(portDesc) + 1 .. Len(portDesc') : n = NumberOfPorts
    BY <1>1, <1>3, <1>5, <2>1
  <2>3. UNCHANGED <<numberOfPorts, reply>>
    BY <1>4, <2>2 DEF PortDescReply
  <2>4. ReplyIsComplete'
    BY <2>3 DEF PortsInv, ReplyIsComplete, NoReply, Ports
  <2>5. PortMngTypeOK'
    BY <1>4, <1>5, <2>3 DEF TypeOK, PortMngTypeOK, Ports
  <2> QED BY <1>6, <2>4, <2>5 DEF PortsInv
<1> QED BY <1>7, <1>8

LEMMA PacketsKeepPorts ==
  ASSUME TypeOK, PortsInv,
         \/ \E inPort \in Ports, type \in {"BROADCAST", "OTHERHOST"}, dst \in Destinations :
              PacketIn(inPort, type, dst, vlcPortStatus)
         \/ \E inPort \in Ports \cup {OFPP_ANY, OFPP_CONTROLLER}, port \in PortNumbers :
              PacketOut(inPort, port)
  PROVE  PortsInv' /\ PortMngTypeOK'
<1> DEFINE Forwarded == [type : {"none", "PACKET_OUT", "BROADCAST", "OTHERHOST"},
                         from : Ports \cup {OFPP_ANY, OFPP_CONTROLLER},
                         out : PortNumbers \cup {OFPP_ANY}, to : SUBSET Outputs]
<1>1. UNCHANGED <<portDesc, numberOfPorts, asked, reply>>
  BY DEF PacketIn, PacketOut
<1>2. ASSUME NEW inPort \in Ports, NEW type \in {"BROADCAST", "OTHERHOST"}, NEW dst \in Destinations,
             PacketIn(inPort, type, dst, vlcPortStatus)
      PROVE  forwarded' \in Forwarded
  <2>1. UnicastPort(dst, vlcPortStatus) \in Ports
    BY PortsAre DEF UnicastPort
  <2>2. selected(inPort, type, dst, vlcPortStatus) \subseteq Ports
    BY <2>1 DEF selected
  <2>3. Ports \subseteq Outputs
    BY DEF Ports, Outputs
  <2> QED BY <1>2, <2>2, <2>3 DEF PacketIn
<1>3. ASSUME NEW inPort \in Ports \cup {OFPP_ANY, OFPP_CONTROLLER},
             NEW port \in PortNumbers, PacketOut(inPort, port)
      PROVE  forwarded' \in Forwarded
  <2>1. Ports \subseteq Outputs
    BY DEF Ports, Outputs
  <2> QED BY <1>3, <2>1 DEF PacketOut
<1>4. forwarded' \in Forwarded
  BY <1>2, <1>3
<1>5. PortsInv'
  BY <1>1 DEF PortsInv, AllOrNone, ReplyIsComplete, NoReply, Ports
<1> QED BY <1>1, <1>4, <1>5 DEF TypeOK, PortMngTypeOK, Ports

LEMMA StepIInv == IInv /\ [Next]_vars => IInv'
<1> SUFFICES ASSUME IInv, [Next]_vars PROVE IInv'
  OBVIOUS
<1> USE DEF IInv
<1>1. (UNCHANGED portMng) => PortsInv' /\ PortMngTypeOK'
  BY DEF portMng, TypeOK, PortMngTypeOK, PortsInv, AllOrNone, ReplyIsComplete, NoReply, Ports
<1>2. (UNCHANGED pipeline) => /\ RulesInv' /\ rules' \subseteq Rule /\ due' \in -Late..Interval
                              /\ vlcPortStatus' \in BOOLEAN /\ renewals' \in 0..2
  BY DEF pipeline, TypeOK, RulesInv, TwoAges, Fresh, OneAgeLapses, VLCRulesLapse, NewRules, createMessage
<1>3. ASSUME NEW status \in Reported, PortStatus(status), UNCHANGED portMng PROVE IInv'
  <2>1. status \in Int
    BY DEF Reported, __builtin_bswap32, Byte, OFPPS_LIVE, OFPPS_LINK_DOWN
  <2> QED BY <1>1, <1>3, <2>1, StatusKeepsRules DEF PortStatus, TypeOK
<1>4. ASSUME NEW inPort \in Ports, NEW type \in {"BROADCAST", "OTHERHOST"}, NEW dst \in Destinations,
             PacketIn(inPort, type, dst, vlcPortStatus), UNCHANGED pipeline
      PROVE  IInv'
  BY <1>2, <1>4, PacketsKeepPorts DEF TypeOK
<1>5. CASE FlowModAdd /\ UNCHANGED portMng
  BY <1>1, <1>5, PurgeKeepsRules DEF FlowModAdd, TypeOK
<1>6. ASSUME NEW inPort \in Ports \cup {OFPP_ANY, OFPP_CONTROLLER},
             NEW port \in PortNumbers, PacketOut(inPort, port), UNCHANGED pipeline
      PROVE  IInv'
  BY <1>2, <1>6, PacketsKeepPorts DEF TypeOK
<1>7. ASSUME NEW xid \in Xids, PortDescRequest(xid), UNCHANGED pipeline PROVE IInv'
  BY <1>2, <1>7, RequestKeepsPorts DEF TypeOK
<1>8. CASE Timer
  BY <1>1, <1>8, TimerKeepsRules DEF Timer, run_timer, TypeOK
<1>9. CASE Clock
  BY <1>1, <1>9, TickKeepsRules DEF Clock, Tick, TypeOK
<1>10. CASE UNCHANGED vars
  BY <1>1, <1>2, <1>10 DEF vars, TypeOK
<1> QED BY <1>3, <1>4, <1>5, <1>6, <1>7, <1>8, <1>9, <1>10 DEF Next, FromPort, FromController

LEMMA Invariance == Spec => []IInv
BY InitIInv, StepIInv, PTL DEF Spec

(* Every variable of the pipeline and of its port manager keeps its type;  *)
(* in particular the timer is never late by more than Late (TypeOK).       *)
THEOREM TypeCorrect == Spec => []TypeOK
BY Invariance, PTL DEF IInv

(* The only reply to PORT_DESC describes every port once, for any number   *)
(* of ports and requests (ReplyIsComplete).                                *)
THEOREM ReplyDescribesEveryPort == Spec => []ReplyIsComplete
BY Invariance, PTL DEF IInv, PortsInv

(* The rules of the timer never pile up, however late it is and whatever   *)
(* period it has (TwoGenerations).                                         *)
THEOREM RulesDoNotPileUp == Spec => []TwoGenerations
<1>1. IInv => TwoGenerations
  <2> SUFFICES ASSUME IInv PROVE TwoGenerations
    OBVIOUS
  <2> DEFINE ages == {r.left : r \in rules}
             two == {due} \cup {due - Interval}
  <2>1. ages \in SUBSET two
    BY DEF IInv, RulesInv, TwoAges
  <2>2. IsFiniteSet({due}) /\ Cardinality({due}) = 1
    BY FS_Singleton
  <2>3. /\ IsFiniteSet(two)
        /\ Cardinality(two) = IF due - Interval \in {due} THEN 1 ELSE 1 + 1
    BY <2>2, FS_AddElement, Zenon
  <2> HIDE DEF ages, two
  <2>4. Cardinality(ages) <= Cardinality(two) /\ IsFiniteSet(ages)
    BY <2>1, <2>3, FS_Subset
  <2>5. Cardinality(ages) \in Nat
    BY <2>4, FS_CardinalityType
  <2>6. Cardinality(ages) <= 2
    BY <2>3, <2>4, <2>5
  <2> QED BY <2>6 DEF ages, TwoGenerations
<1> QED BY <1>1, Invariance, PTL

(* While the timer is in time there are rules to both addresses over WLAN  *)
(* and Ethernet, for any period (RulesAreRenewed).                         *)
THEOREM RulesAreAlwaysThere == Spec => []RulesAreRenewed
<1>1. IInv => RulesAreRenewed
  BY DEF IInv, RulesInv, Fresh, RulesAreRenewed, Unexpired
<1> QED BY <1>1, Invariance, PTL

(* Two timer events after the VLC port is taken for down no rule sends to  *)
(* it, however late they are (VLCRulesLapse).                              *)
THEOREM RulesLapse == Spec => []VLCRulesLapse
BY Invariance, PTL DEF IInv, RulesInv
=============================================================================
