------------------------------ MODULE OFVLCQueue ------------------------------
(***************************************************************************)
(* The queue of the VLC module, Elements/OFVLCQueue/OFVLCQueue.cc, with a  *)
(* push output: the module acknowledges what it has sent, and each         *)
(* acknowledgement fetches the next frame.                                 *)
(*                                                                         *)
(* push() tests whether the queue is empty after it has put the frame into *)
(* it, so the branch that would send at once is never taken, and with it   *)
(* _vlcReady keeps its initial value for ever and has no variable here.    *)
(* pull() takes no port and so does not override Click's pull(int): nobody *)
(* calls it.                                                               *)
(***************************************************************************)
EXTENDS Integers, Sequences

CONSTANTS
  SIZE,         (* _queueMaxSize                                             *)
  VlcFrames,    (* the frames                                                *)
  MaxFrames,    (* bound on the frames that arrive                           *)
  MaxAcks       (* bound on the acknowledgements                             *)

ASSUME VlcQueueAssumption ==
  SIZE \in Nat /\ MaxFrames \in Nat /\ MaxAcks \in Nat

VARIABLES
  vlcQueue,     (* _queue                                                    *)
  vlcSent,      (* the frame pushed to the VLC module in this step, or none  *)
  vlcCount      (* history: arrived, dropped and sent frames, and the ACKs   *)

vlcVars == <<vlcQueue, vlcSent, vlcCount>>

NoFrame == "none"

VlcInit ==
  /\ vlcQueue = <<>>
  /\ vlcSent = NoFrame
  /\ vlcCount = [arrived |-> 0, dropped |-> 0, sent |-> 0, acks |-> 0]

(* Mutant: the queue is tested before the frame is put into it.            *)
ToQueue_SendsAtOnce(f) ==
  /\ vlcCount.arrived < MaxFrames
  /\ vlcQueue' = IF vlcQueue = <<>> THEN <<>> ELSE Append(vlcQueue, f)
  /\ vlcSent' = IF vlcQueue = <<>> THEN f ELSE NoFrame
  /\ vlcCount' = [vlcCount EXCEPT !.arrived = @ + 1,
                                  !.sent = IF vlcQueue = <<>> THEN @ + 1 ELSE @]

ToQueue(f) ==
  /\ vlcCount.arrived < MaxFrames
  /\ IF Len(vlcQueue) < SIZE
     THEN /\ vlcQueue' = Append(vlcQueue, f)
          /\ vlcCount' = [vlcCount EXCEPT !.arrived = @ + 1]
     ELSE /\ vlcCount' = [vlcCount EXCEPT !.arrived = @ + 1, !.dropped = @ + 1]
          /\ UNCHANGED vlcQueue
  /\ vlcSent' = NoFrame

(* Mutant: the frame that was sent stays in the queue.                     *)
ACKFromVLC_Keeps ==
  /\ vlcCount.acks < MaxAcks
  /\ vlcSent' = IF vlcQueue = <<>> THEN NoFrame ELSE Head(vlcQueue)
  /\ vlcCount' = [vlcCount EXCEPT !.acks = @ + 1,
                                  !.sent = IF vlcQueue = <<>> THEN @ ELSE @ + 1]
  /\ UNCHANGED vlcQueue

(* An ACK that finds the queue empty fetches nothing, and is forgotten.    *)
ACKFromVLC ==
  /\ vlcCount.acks < MaxAcks
  /\ IF vlcQueue = <<>>
     THEN /\ vlcSent' = NoFrame
          /\ vlcCount' = [vlcCount EXCEPT !.acks = @ + 1]
          /\ UNCHANGED vlcQueue
     ELSE /\ vlcSent' = Head(vlcQueue)
          /\ vlcQueue' = Tail(vlcQueue)
          /\ vlcCount' = [vlcCount EXCEPT !.acks = @ + 1, !.sent = @ + 1]

(* Anything else on input 1, and everything on other inputs, is killed.    *)
WrongPacket == vlcSent' = NoFrame /\ UNCHANGED <<vlcQueue, vlcCount>>

VlcNext ==
  \/ \E f \in VlcFrames : ToQueue(f)
  \/ ACKFromVLC
  \/ WrongPacket
=============================================================================
