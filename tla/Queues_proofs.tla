---------------------------- MODULE Queues_proofs ----------------------------
(***************************************************************************)
(* Proofs about the two queues, for every size of theirs and every number  *)
(* of frames: each is a bounded FIFO, and no frame is unaccounted for.     *)
(***************************************************************************)
EXTENDS Queues, TLAPS

PortTypeOK ==
  /\ outputQueue \in Seq(DeviceFrames)
  /\ counter \in [packets : Nat, overruns : Nat]
  /\ received \in Nat /\ toPipeline \in Nat /\ pulls \in Nat
  /\ pulled \in DeviceFrames \cup {Nothing}
  /\ ended \in BOOLEAN

VlcTypeOK ==
  /\ vlcQueue \in Seq(VlcFrames)
  /\ vlcCount \in [arrived : Nat, dropped : Nat, sent : Nat, acks : Nat]

(* The counters of either queue agree with what it holds.                  *)
PortAccounts ==
  /\ counter.packets = pulls + Len(outputQueue)
  /\ counter.overruns = IF ended THEN 1 ELSE 0
  /\ toPipeline <= received

VlcAccounts ==
  /\ vlcCount.sent <= vlcCount.acks
  /\ vlcCount.arrived = vlcCount.dropped + vlcCount.sent + Len(vlcQueue)

PortInv == PortTypeOK /\ PortAccounts
VlcInv == VlcTypeOK /\ VlcAccounts
IInv == PortInv /\ VlcInv

-----------------------------------------------------------------------------
(* What a frame more and a frame less make of a queue.                     *)
LEMMA QueueGrows ==
  ASSUME NEW S, NEW q \in Seq(S), NEW f \in S
  PROVE  Append(q, f) \in Seq(S) /\ Len(Append(q, f)) = Len(q) + 1 /\ Len(q) \in Nat
OBVIOUS

LEMMA QueueShrinks ==
  ASSUME NEW S, NEW q \in Seq(S), q # <<>>
  PROVE  Tail(q) \in Seq(S) /\ Len(q) = Len(Tail(q)) + 1 /\ Len(Tail(q)) \in Nat /\ Head(q) \in S
OBVIOUS

(* A count of the VLC queue is its four numbers.                           *)
LEMMA CountIsNumbers ==
  ASSUME VlcInv
  PROVE  /\ vlcCount = [arrived |-> vlcCount.arrived, dropped |-> vlcCount.dropped,
                        sent |-> vlcCount.sent, acks |-> vlcCount.acks]
         /\ vlcCount.arrived \in Nat /\ vlcCount.dropped \in Nat
         /\ vlcCount.sent \in Nat /\ vlcCount.acks \in Nat
         /\ vlcCount.sent <= vlcCount.acks
         /\ vlcCount.arrived = vlcCount.dropped + vlcCount.sent + Len(vlcQueue)
BY DEF VlcInv, VlcTypeOK, VlcAccounts

LEMMA CountsAccount ==
  ASSUME vlcQueue' \in Seq(VlcFrames),
         NEW a \in Nat, NEW d \in Nat, NEW s \in Nat, NEW k \in Nat,
         vlcCount' = [arrived |-> a, dropped |-> d, sent |-> s, acks |-> k],
         s <= k, a = d + s + Len(vlcQueue')
  PROVE  VlcInv'
BY DEF VlcInv, VlcTypeOK, VlcAccounts

LEMMA NormalMessageKeeps ==
  ASSUME PortInv, ~ended, NEW f \in DeviceFrames, normalMessage(f), UNCHANGED pulls
  PROVE  /\ outputQueue' \in Seq(DeviceFrames)
         /\ counter' \in [packets : Nat, overruns : Nat]
         /\ counter'.packets = pulls' + Len(outputQueue')
         /\ counter'.overruns = (IF ended' THEN 1 ELSE 0)
         /\ ended' \in BOOLEAN
<1>1. CASE Len(outputQueue) < QUEUESIZE
  <2>1. /\ outputQueue' = Append(outputQueue, f)
        /\ counter' = [counter EXCEPT !.packets = @ + 1]
        /\ ended' = ended
    BY <1>1 DEF normalMessage
  <2>2. /\ outputQueue' \in Seq(DeviceFrames)
        /\ Len(outputQueue') = Len(outputQueue) + 1 /\ Len(outputQueue) \in Nat
    BY <2>1, QueueGrows DEF PortInv, PortTypeOK
  <2>3. /\ counter.packets = pulls + Len(outputQueue) /\ pulls \in Nat
        /\ counter.overruns = (IF ended THEN 1 ELSE 0) /\ ended \in BOOLEAN
        /\ counter \in [packets : Nat, overruns : Nat]
    BY DEF PortInv, PortTypeOK, PortAccounts
  <2>4. /\ counter' \in [packets : Nat, overruns : Nat]
        /\ counter'.packets = counter.packets + 1 /\ counter'.overruns = counter.overruns
    BY <2>1, <2>3
  <2>5. counter'.packets = pulls' + Len(outputQueue')
    BY <2>2, <2>3, <2>4
  <2>6. counter'.overruns = (IF ended' THEN 1 ELSE 0) /\ ended' \in BOOLEAN
    BY <2>1, <2>3, <2>4
  <2> QED BY <2>2, <2>4, <2>5, <2>6
<1>2. CASE ~ Len(outputQueue) < QUEUESIZE
  BY <1>2 DEF normalMessage, PortInv, PortTypeOK, PortAccounts
<1> QED BY <1>1, <1>2

LEMMA PortStepKeeps == PortInv /\ ~ended /\ QueueNext => PortInv'
<1> SUFFICES ASSUME PortInv, ~ended, QueueNext PROVE PortInv'
  OBVIOUS
<1>1. ASSUME NEW type \in FromPipelineTypes, FromPipeline(type) PROVE PortInv'
  <2>1. CASE type = "PACKET_OUT"
    <3>1. normalMessage("DATA") /\ UNCHANGED <<received, toPipeline, pulls>> /\ pulled' = Nothing
      BY <1>1, <2>1 DEF FromPipeline
    <3> QED BY <3>1, NormalMessageKeeps DEF DeviceFrames, PortInv, PortTypeOK, PortAccounts
  <2>2. CASE type # "PACKET_OUT"
    BY <1>1, <2>2 DEF FromPipeline, PortInv, PortTypeOK, PortAccounts
  <2> QED BY <2>1, <2>2
<1>2. ASSUME NEW annotation \in Annotations, sendPacketToPipeline(annotation) PROVE PortInv'
  BY <1>2 DEF sendPacketToPipeline, PortInv, PortTypeOK, PortAccounts
<1>3. CASE PingFromDevice
  <2>1. normalMessage("PING_RESPONSE") /\ UNCHANGED <<received, toPipeline, pulls>> /\ pulled' = Nothing
    BY <1>3 DEF PingFromDevice
  <2> QED BY <2>1, NormalMessageKeeps DEF DeviceFrames, PortInv, PortTypeOK, PortAccounts
<1>4. CASE PingTimer
  <2>1. normalMessage("PING_REQUEST") /\ UNCHANGED <<received, toPipeline, pulls>> /\ pulled' = Nothing
    BY <1>4 DEF PingTimer
  <2> QED BY <2>1, NormalMessageKeeps DEF DeviceFrames, PortInv, PortTypeOK, PortAccounts
<1>5. CASE pull
  <2>1. /\ outputQueue' \in Seq(DeviceFrames) /\ Len(outputQueue) = Len(outputQueue') + 1
        /\ Len(outputQueue') \in Nat /\ pulled' \in DeviceFrames
    BY <1>5, QueueShrinks DEF pull, PortInv, PortTypeOK
  <2> QED BY <1>5, <2>1 DEF pull, PortInv, PortTypeOK, PortAccounts
<1> QED BY <1>1, <1>2, <1>3, <1>4, <1>5 DEF QueueNext

LEMMA VlcStepKeeps == VlcInv /\ VlcNext => VlcInv'
<1> SUFFICES ASSUME VlcInv, VlcNext PROVE VlcInv'
  OBVIOUS
<1> DEFINE c == vlcCount
           Count(a, d, s, k) == [arrived |-> a, dropped |-> d, sent |-> s, acks |-> k]
<1>0. c = Count(c.arrived, c.dropped, c.sent, c.acks)
  BY CountIsNumbers
<1>1. ASSUME NEW f \in VlcFrames, ToQueue(f) PROVE VlcInv'
  <2>1. CASE Len(vlcQueue) < SIZE
    <3>1. /\ vlcQueue' \in Seq(VlcFrames)
          /\ Len(vlcQueue') = Len(vlcQueue) + 1 /\ Len(vlcQueue) \in Nat
      BY <1>1, <2>1, QueueGrows DEF ToQueue, VlcInv, VlcTypeOK
    <3>2. vlcCount' = Count(c.arrived + 1, c.dropped, c.sent, c.acks)
      BY <1>0, <1>1, <2>1 DEF ToQueue
    <3> QED BY <3>1, <3>2, CountIsNumbers, CountsAccount
  <2>2. CASE ~ Len(vlcQueue) < SIZE
    <3>1. vlcQueue' = vlcQueue /\ vlcQueue \in Seq(VlcFrames) /\ Len(vlcQueue) \in Nat
      BY <1>1, <2>2 DEF ToQueue, VlcInv, VlcTypeOK
    <3>2. vlcCount' = Count(c.arrived + 1, c.dropped + 1, c.sent, c.acks)
      BY <1>0, <1>1, <2>2 DEF ToQueue
    <3> QED BY <3>1, <3>2, CountIsNumbers, CountsAccount
  <2> QED BY <2>1, <2>2
<1>2. CASE ACKFromVLC
  <2>1. CASE vlcQueue = <<>>
    <3>1. vlcQueue' = vlcQueue /\ vlcQueue \in Seq(VlcFrames) /\ Len(vlcQueue) \in Nat
      BY <1>2, <2>1 DEF ACKFromVLC, VlcInv, VlcTypeOK
    <3>2. vlcCount' = Count(c.arrived, c.dropped, c.sent, c.acks + 1)
      BY <1>0, <1>2, <2>1 DEF ACKFromVLC
    <3> QED BY <3>1, <3>2, CountIsNumbers, CountsAccount
  <2>2. CASE vlcQueue # <<>>
    <3>1. /\ vlcQueue' \in Seq(VlcFrames) /\ Len(vlcQueue) = Len(vlcQueue') + 1
          /\ Len(vlcQueue') \in Nat
      BY <1>2, <2>2, QueueShrinks DEF ACKFromVLC, VlcInv, VlcTypeOK
    <3>2. vlcCount' = Count(c.arrived, c.dropped, c.sent + 1, c.acks + 1)
      BY <1>0, <1>2, <2>2 DEF ACKFromVLC
    <3>3. /\ c.arrived \in Nat /\ c.dropped \in Nat /\ c.sent + 1 \in Nat /\ c.acks + 1 \in Nat
          /\ c.sent + 1 <= c.acks + 1
          /\ c.arrived = c.dropped + (c.sent + 1) + Len(vlcQueue')
      BY <3>1, CountIsNumbers
    <3> QED BY <3>1, <3>2, <3>3, CountsAccount
  <2> QED BY <2>1, <2>2
<1>3. CASE WrongPacket
  BY <1>3 DEF WrongPacket, VlcInv, VlcTypeOK, VlcAccounts
<1> QED BY <1>1, <1>2, <1>3 DEF VlcNext

LEMMA InitIInv == Init => IInv
<1> SUFFICES ASSUME Init PROVE IInv
  OBVIOUS
<1>1. PortInv
  <2>1. /\ outputQueue \in Seq(DeviceFrames) /\ Len(outputQueue) = 0
        /\ counter \in [packets : Nat, overruns : Nat]
        /\ counter.packets = 0 /\ counter.overruns = 0
    BY DEF Init, QueueInit
  <2>2. /\ received = 0 /\ toPipeline = 0 /\ pulls = 0 /\ ended = FALSE
        /\ pulled \in DeviceFrames \cup {Nothing}
    BY DEF Init, QueueInit
  <2>3. PortTypeOK
    BY <2>1, <2>2 DEF PortTypeOK
  <2>4. PortAccounts
    <3>1. /\ counter.packets = 0 /\ counter.overruns = 0 /\ ended = FALSE
          /\ pulls = 0 /\ Len(outputQueue) = 0 /\ toPipeline = 0 /\ received = 0
      BY <2>1, <2>2
    <3> QED BY <3>1 DEF PortAccounts
  <2> QED BY <2>3, <2>4 DEF PortInv
<1>2. VlcInv
  BY DEF Init, VlcInit, VlcInv, VlcTypeOK, VlcAccounts
<1> QED BY <1>1, <1>2 DEF IInv

LEMMA StepIInv == IInv /\ [Next]_vars => IInv'
<1> SUFFICES ASSUME IInv, [Next]_vars PROVE IInv'
  OBVIOUS
<1>1. (UNCHANGED queueVars) => PortInv'
  BY DEF queueVars, IInv, PortInv, PortTypeOK, PortAccounts
<1>2. (UNCHANGED vlcVars) => VlcInv'
  BY DEF vlcVars, IInv, VlcInv, VlcTypeOK, VlcAccounts
<1> QED BY <1>1, <1>2, PortStepKeeps, VlcStepKeeps DEF IInv, Next, PortStep, VlcStep, vars

LEMMA Invariance == Spec => []IInv
BY InitIInv, StepIInv, PTL DEF Spec

(* Transmit_Packets and the counts of the VLC queue account for every      *)
(* frame at every time, for queues of any size (FramesAreAccounted).       *)
THEOREM NoFrameUnaccounted == Spec => []FramesAreAccounted
<1>1. IInv => FramesAreAccounted
  BY DEF IInv, PortInv, VlcInv, PortAccounts, VlcAccounts, FramesAreAccounted
<1> QED BY <1>1, Invariance, PTL

-----------------------------------------------------------------------------
LEMMA PortStepIsFIFO == ~ended /\ QueueNext => [Port!Next]_<<outputQueue, pulled>>
<1> SUFFICES ASSUME QueueNext PROVE Port!Next
  OBVIOUS
<1>1. ASSUME NEW f \in DeviceFrames, normalMessage(f), pulled' = Nothing PROVE Port!Next
  <2>1. CASE Len(outputQueue) < QUEUESIZE
    BY <1>1, <2>1 DEF normalMessage, Port!Next, Port!Put
  <2>2. CASE ~ Len(outputQueue) < QUEUESIZE
    BY <1>1, <2>2 DEF normalMessage, Port!Next, Port!Forget
  <2> QED BY <2>1, <2>2
<1>2. ASSUME NEW type \in FromPipelineTypes, FromPipeline(type) PROVE Port!Next
  <2>1. CASE type = "PACKET_OUT"
    BY <1>1, <1>2, <2>1 DEF FromPipeline, DeviceFrames
  <2>2. CASE type # "PACKET_OUT"
    BY <1>2, <2>2 DEF FromPipeline, Port!Next, Port!Forget
  <2> QED BY <2>1, <2>2
<1>3. ASSUME NEW annotation \in Annotations, sendPacketToPipeline(annotation) PROVE Port!Next
  BY <1>3 DEF sendPacketToPipeline, Port!Next, Port!Forget
<1>4. CASE PingFromDevice
  BY <1>1, <1>4 DEF PingFromDevice, DeviceFrames
<1>5. CASE PingTimer
  BY <1>1, <1>5 DEF PingTimer, DeviceFrames
<1>6. CASE pull
  BY <1>6 DEF pull, Port!Next, Port!Take
<1> QED BY <1>2, <1>3, <1>4, <1>5, <1>6 DEF QueueNext

LEMMA VlcStepIsFIFO == VlcNext => [Vlc!Next]_<<vlcQueue, vlcSent>>
<1> SUFFICES ASSUME VlcNext PROVE Vlc!Next
  OBVIOUS
<1>1. ASSUME NEW f \in VlcFrames, ToQueue(f) PROVE Vlc!Next
  BY <1>1 DEF ToQueue, Vlc!Next, Vlc!Put, Vlc!Forget
<1>2. CASE ACKFromVLC
  BY <1>2 DEF ACKFromVLC, Vlc!Next, Vlc!Take, Vlc!Forget
<1>3. CASE WrongPacket
  BY <1>3 DEF WrongPacket, Vlc!Next, Vlc!Forget
<1> QED BY <1>1, <1>2, <1>3 DEF VlcNext

(* The port's queue and that of the VLC module each implement a bounded    *)
(* FIFO, whatever their size (KeepsOrder).                                 *)
THEOREM QueuesKeepOrder == Spec => KeepsOrder
<1>1. Init => Port!Init /\ Vlc!Init
  BY DEF Init, QueueInit, VlcInit, Port!Init, Vlc!Init
<1>2. [Next]_vars => [Port!Next]_<<outputQueue, pulled>>
  BY PortStepIsFIFO DEF Next, PortStep, VlcStep, vars, queueVars
<1>3. [Next]_vars => [Vlc!Next]_<<vlcQueue, vlcSent>>
  BY VlcStepIsFIFO DEF Next, PortStep, VlcStep, vars, vlcVars
<1> QED BY <1>1, <1>2, <1>3, PTL DEF Spec, KeepsOrder, Port!Spec, Vlc!Spec
=============================================================================
