-------------------------------- MODULE Queues --------------------------------
(***************************************************************************)
(* The two queues of the switch side by side in one Click router.          *)
(***************************************************************************)
EXTENDS OFQueue, OFVLCQueue

vars == <<queueVars, vlcVars>>

Init == QueueInit /\ VlcInit

(* The assertion of an overrun ends the whole program.                     *)
PortStep == ~ended /\ QueueNext /\ UNCHANGED vlcVars

VlcStep == ~ended /\ VlcNext /\ UNCHANGED queueVars

(* ToDevice pulls whenever its device takes frames.                        *)
DevicePulls == ~ended /\ pull /\ UNCHANGED vlcVars

Next == PortStep \/ VlcStep

Spec == Init /\ [][Next]_vars
FairSpec == Spec /\ WF_vars(DevicePulls)

-----------------------------------------------------------------------------
(* Both queues keep the order, lose and double nothing that they accepted  *)
(* and never hold more than they are configured for.                       *)
Port == INSTANCE BoundedFIFO WITH
  Frames <- DeviceFrames, Size <- QUEUESIZE, fifo <- outputQueue, taken <- pulled

Vlc == INSTANCE BoundedFIFO WITH
  Frames <- VlcFrames, Size <- SIZE, fifo <- vlcQueue, taken <- vlcSent,
  Nothing <- NoFrame

KeepsOrder == Port!Spec /\ Vlc!Spec

(* Every frame is accounted for.  Transmit_Packets counts what was         *)
(* accepted: what the device has taken and what still waits.  An overrun   *)
(* ends the program, so no program that runs has counted one; and every    *)
(* frame of the device that is no ping was counted, although not all of    *)
(* them are passed on.  The VLC module is never given a frame it has not   *)
(* asked for: at most one per acknowledgement, whatever the queue holds.   *)
FramesAreAccounted ==
  /\ counter.packets = pulls + Len(outputQueue)
  /\ counter.overruns = IF ended THEN 1 ELSE 0
  /\ toPipeline <= received
  /\ vlcCount.sent <= vlcCount.acks
  /\ vlcCount.arrived = vlcCount.dropped + vlcCount.sent + Len(vlcQueue)

(* A frame that waits for the device is sent in the end, unless the        *)
(* program ends: pings and packets that keep coming do not overtake it.    *)
AcceptedIsSent ==
  \A n \in 1..MaxAccepted : counter.packets >= n ~> pulls >= n \/ ended
=============================================================================
