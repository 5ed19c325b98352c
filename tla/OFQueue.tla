------------------------------- MODULE OFQueue -------------------------------
(***************************************************************************)
(* The transmission queue of a port, Elements/OFQueue/OFQueue.cc, inside   *)
(* the element class Interface of OpenFlow.click: the pipeline's packets   *)
(* reach the queue past the wrapper, the wrapper's pings share it, and     *)
(* ToDevice pulls from it.  The wrapper of the port is the one whose pings *)
(* module OFInterfaceWrapper is about; here only what it sends and passes  *)
(* on counts.                                                              *)
(***************************************************************************)
EXTENDS Integers, Sequences

CONSTANTS
  QUEUESIZE,     (* maxQueueSize                                             *)
  MaxAccepted,   (* bound on Transmit_Packets                                *)
  MaxReceived    (* bound on ReceivedPackets                                 *)

ASSUME QueueAssumption ==
  QUEUESIZE \in Nat /\ MaxAccepted \in Nat /\ MaxReceived \in Nat

VARIABLES
  outputQueue,   (* the copies that wait for the device                      *)
  counter,       (* packets: Transmit_Packets, overruns: ..._Overrun_Errors  *)
  received,      (* ReceivedPackets of the wrapper                           *)
  toPipeline,    (* history: the PACKET_INs the wrapper has passed on        *)
  pulled,        (* the frame the device took in this step, or Nothing       *)
  pulls,         (* history: how many frames the device has taken            *)
  ended          (* the program was ended by an assertion                    *)

queueVars == <<outputQueue, counter, received, toPipeline, pulled, pulls, ended>>

Nothing == "none"

(* What leaves through a port.                                             *)
DeviceFrames == {"DATA", "PING_REQUEST", "PING_RESPONSE"}

(* The types of message of click_port_comm_type that reach the port.       *)
FromPipelineTypes == {"PACKET_OUT", "PORT_DESC", "PORT_STATUS"}

(* Click's packet type annotation of a frame from the device; the wrapper  *)
(* passes on what is not meant for this host alone.                        *)
Annotations == {"BROADCAST", "MULTICAST", "OTHERHOST", "HOST", "OUTGOING"}
PassedOn == {"BROADCAST", "MULTICAST", "OTHERHOST"}

-----------------------------------------------------------------------------
QueueInit ==
  /\ outputQueue = <<>>
  /\ counter = [packets |-> 0, overruns |-> 0]
  /\ received = 0 /\ toPipeline = 0
  /\ pulled = Nothing /\ pulls = 0
  /\ ended = FALSE

(* Mutant: the counter is incremented before the test.                     *)
normalMessage_CountsFirst(f) ==
  /\ counter.packets < MaxAccepted
  /\ IF Len(outputQueue) < QUEUESIZE
     THEN /\ outputQueue' = Append(outputQueue, f)
          /\ UNCHANGED ended
     ELSE ended' = TRUE /\ UNCHANGED outputQueue
  /\ counter' = [packets  |-> counter.packets + 1,
                 overruns |-> counter.overruns + IF ended' THEN 1 ELSE 0]

(* Mutant: a full queue gives up its oldest frame.                         *)
normalMessage_DropsOldest(f) ==
  /\ counter.packets < MaxAccepted
  /\ outputQueue' = IF Len(outputQueue) < QUEUESIZE
                    THEN Append(outputQueue, f) ELSE Append(Tail(outputQueue), f)
  /\ counter' = [counter EXCEPT !.packets = @ + 1]
  /\ UNCHANGED ended

(* A full queue pushes the packet to output 1, which OpenFlow.click does   *)
(* not connect: Click's output() asserts that the port exists.             *)
normalMessage(f) ==
  /\ counter.packets < MaxAccepted
  /\ IF Len(outputQueue) < QUEUESIZE
     THEN /\ outputQueue' = Append(outputQueue, f)
          /\ counter' = [counter EXCEPT !.packets = @ + 1]
          /\ UNCHANGED ended
     ELSE /\ counter' = [counter EXCEPT !.overruns = @ + 1]
          /\ ended' = TRUE
          /\ UNCHANGED outputQueue

(* The Classifier in front of wrapper and queue: PACKET_OUT goes straight  *)
(* to the queue, a PORT_DESC request to the wrapper, which answers without *)
(* the queue, and everything else is discarded.                            *)
FromPipeline(type) ==
  /\ IF type = "PACKET_OUT" THEN normalMessage("DATA")
     ELSE UNCHANGED <<outputQueue, counter, ended>>
  /\ pulled' = Nothing
  /\ UNCHANGED <<received, toPipeline, pulls>>

(* sendPacketToPipeline.                                                   *)
sendPacketToPipeline(annotation) ==
  /\ received < MaxReceived
  /\ received' = received + 1
  /\ toPipeline' = IF annotation \in PassedOn THEN toPipeline + 1 ELSE toPipeline
  /\ pulled' = Nothing
  /\ UNCHANGED <<outputQueue, counter, pulls, ended>>

(* A ping request from the device is answered through the same queue.      *)
PingFromDevice ==
  /\ normalMessage("PING_RESPONSE")
  /\ pulled' = Nothing
  /\ UNCHANGED <<received, toPipeline, pulls>>

(* The ping that ends every timer event of the wrapper.                    *)
PingTimer ==
  /\ normalMessage("PING_REQUEST")
  /\ pulled' = Nothing
  /\ UNCHANGED <<received, toPipeline, pulls>>

(* Mutant: the frame that came last leaves first.                          *)
pull_Last ==
  /\ outputQueue # <<>>
  /\ pulled' = outputQueue[Len(outputQueue)]
  /\ outputQueue' = SubSeq(outputQueue, 1, Len(outputQueue) - 1)
  /\ pulls' = pulls + 1
  /\ UNCHANGED <<counter, received, toPipeline, ended>>

pull ==
  /\ outputQueue # <<>>
  /\ pulled' = Head(outputQueue)
  /\ outputQueue' = Tail(outputQueue)
  /\ pulls' = pulls + 1
  /\ UNCHANGED <<counter, received, toPipeline, ended>>

QueueNext ==
  \/ \E type \in FromPipelineTypes : FromPipeline(type)
  \/ \E annotation \in Annotations : sendPacketToPipeline(annotation)
  \/ PingFromDevice
  \/ PingTimer
  \/ pull
=============================================================================
