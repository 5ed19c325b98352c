------------------------------- MODULE OFSocket -------------------------------
(***************************************************************************)
(* The connection to the controller, Elements/OFSocket/OFSocket.cc: a TCP  *)
(* socket that is a client or a server, and whose input is pushed to or    *)
(* pulls.  OpenFlow.click uses the client whose input is pushed to.        *)
(*                                                                         *)
(* selected() reads what has arrived and pushes it on.  When the input is  *)
(* pushed to, what the elements behind it have to say comes back as nested *)
(* calls of push(), which block the whole process: a packet is written in  *)
(* as many pieces as the kernel takes, and nothing else runs until the     *)
(* last one is.  When the input pulls, the packets wait upstream for the   *)
(* task, which keeps what it could not write for the next time.  The first *)
(* fatal error, or the end of the stream, ends the process.                *)
(*                                                                         *)
(* A packet is its number, from 0 and round again after Numbers - 1.  It   *)
(* is written as PacketLength units.  The controller reads units.          *)
(***************************************************************************)
EXTENDS Naturals, Sequences, SequencesExt

CONSTANTS
  PacketLength,   (* the units of a packet                                   *)
  SendBuffer,     (* the units the kernel takes before write() would block   *)
  ReceiveBuffer,  (* messages of the controller that wait to be read         *)
  MaxPushes,      (* packets pushed to the socket while one read is handled, *)
                  (* and packets that wait upstream of it                    *)
  Numbers,        (* bound: packets are numbered modulo this                 *)
  Hosts,          (* who may connect to a server                             *)
  NoHost,         (* not a host: nobody has been accepted                    *)
  Allow, Deny     (* the routing tables ALLOW and DENY: the hosts they find  *)

ASSUME SocketAssumption ==
  /\ PacketLength \in Nat \ {0} /\ SendBuffer \in Nat \ {0}
  /\ ReceiveBuffer \in Nat \ {0} /\ MaxPushes \in Nat \ {0}
  /\ Numbers \in Nat /\ Numbers > SendBuffer + 3
  /\ NoHost \notin Hosts /\ Allow \subseteq Hosts /\ Deny \subseteq Hosts

VARIABLES
  client,        (* _client                                                  *)
  pull,          (* input_is_pull(0)                                         *)
  running,       (* FALSE: close_active() has ended the process              *)
  active,        (* _active >= 0                                             *)
  backlog,       (* hosts that wait to be accepted                           *)
  host,          (* the host that was accepted last                          *)
  arrived,       (* messages of the controller in the kernel's buffer        *)
  pushes,        (* calls of push() that the handling of the read still      *)
                 (* makes; when the input pulls, the packets upstream        *)
  unsent,        (* what write_packet() has yet to write of its packet: _wq  *)
                 (* between two runs of the task                             *)
  scheduled,     (* _task is scheduled                                       *)
  inTask,        (* run_task() is running                                    *)
  writeSelected, (* SELECT_WRITE is set for _active                          *)
  sent,          (* units in the kernel's buffer                             *)
  next,          (* the number of the next packet                            *)
  partial,       (* what the controller has of a packet it has not complete  *)
  expected,      (* the number of the packet the controller is to get next   *)
  peer           (* there is a connection and the controller has not closed  *)
                 (* it                                                       *)

mode == <<client, pull>>
server == <<running, active, backlog, host>>
output == <<pushes, unsent, next>>
task == <<scheduled, inTask, writeSelected>>
controller == <<partial, expected, peer>>
vars == <<mode, server, arrived, output, task, sent, controller>>

Unit == [packet : 0..(Numbers - 1), part : 1..PacketLength]

Units(n) == [i \in 1..PacketLength |-> [packet |-> n, part |-> i]]

(* _client, from the number of outputs and the value given with CLIENT, if *)
(* there is one.                                                           *)
configure(noutputs, given) ==
  IF given = {} THEN noutputs = 0 ELSE TRUE \in given

(* Mutant: DENY is looked up first.                                        *)
allowed_DenyFirst(h) == h \notin Deny

(* ALLOW is looked up first.                                               *)
allowed(h) == h \in Allow \/ h \notin Deny

(* The call stack is back in the router's event loop.                      *)
Idle == running /\ ~inTask /\ (pull \/ (pushes = 0 /\ unsent = <<>>))

Init ==
  /\ \E given \in {{}, {TRUE}, {FALSE}} : client = configure(2, given)
  /\ pull \in BOOLEAN
  /\ running = TRUE /\ active = client /\ backlog = <<>> /\ host = NoHost
  /\ arrived = 0 /\ pushes = 0 /\ next = 0 /\ unsent = <<>>
  /\ scheduled = pull /\ inTask = FALSE /\ writeSelected = (pull /\ client)
  /\ sent = <<>> /\ partial = <<>> /\ expected = 0 /\ peer = client

close_active ==
  /\ active' = FALSE /\ running' = FALSE
  /\ pushes' = 0 /\ unsent' = <<>> /\ inTask' = FALSE
  /\ UNCHANGED <<mode, backlog, host, arrived, scheduled, writeSelected, sent, next, controller>>

-----------------------------------------------------------------------------
(* selected().                                                             *)

(* Mutant: the descriptor of a denied connection is closed and kept.       *)
Accept_KeepsActive ==
  /\ Idle /\ ~client /\ ~active /\ backlog # <<>>
  /\ backlog' = Tail(backlog)
  /\ active' = TRUE
  /\ IF allowed(Head(backlog))
     THEN /\ host' = Head(backlog) /\ peer' = TRUE /\ inTask' = pull
     ELSE UNCHANGED <<host, peer, inTask>>
  /\ UNCHANGED <<mode, running, arrived, output, scheduled, writeSelected, sent, partial, expected>>

(* A connection is accepted, and closed again if its host is denied.  The  *)
(* read that follows finds nothing yet; a pulling input is run.            *)
Accept ==
  /\ Idle /\ ~client /\ ~active /\ backlog # <<>>
  /\ backlog' = Tail(backlog)
  /\ IF allowed(Head(backlog))
     THEN /\ active' = TRUE
          /\ host' = Head(backlog) /\ peer' = TRUE /\ inTask' = pull
     ELSE UNCHANGED <<active, host, peer, inTask>>
  /\ UNCHANGED <<mode, running, arrived, output, scheduled, writeSelected, sent, partial, expected>>

Writable == writeSelected /\ Len(sent) < SendBuffer

(* Some of what has arrived is read and handled, or there is nothing to    *)
(* read and the socket may be written to.  A pulling input is run.         *)
ReadMessages ==
  /\ Idle /\ active
  /\ IF arrived > 0
     THEN \E n \in 1..arrived : arrived' = arrived - n
     ELSE Writable /\ peer /\ UNCHANGED arrived
  /\ pushes' \in IF arrived > 0 THEN pushes..MaxPushes ELSE {pushes}
  /\ inTask' = pull
  /\ UNCHANGED <<mode, server, unsent, next, scheduled, writeSelected, sent, controller>>

(* read() returns 0, or an error when the connection was reset or there is *)
(* none.                                                                   *)
ReadEnd ==
  /\ Idle /\ active /\ ~peer
  /\ close_active

-----------------------------------------------------------------------------
(* Packets for the controller.                                             *)

(* A timer of another element has something for the controller.  Upstream  *)
(* of a pulling input, a Notifier wakes the task unless that waits for the *)
(* socket already.                                                         *)
TimerPushes ==
  /\ Idle
  /\ IF pull
     THEN /\ pushes < MaxPushes /\ pushes' = pushes + 1
          /\ scheduled' = (scheduled \/ ~writeSelected)
     ELSE pushes' = 1 /\ UNCHANGED scheduled
  /\ UNCHANGED <<mode, server, unsent, next, inTask, writeSelected, arrived, sent, controller>>

(* The next packet is taken, from the caller or from upstream.             *)
TakePacket ==
  /\ pushes > 0 /\ unsent = <<>>
  /\ pushes' = pushes - 1
  /\ unsent' = Units(next)
  /\ next' = (next + 1) % Numbers
  /\ UNCHANGED <<mode, server, arrived, task, sent, controller>>

(* Without a connection the packet is killed.                              *)
push ==
  /\ running /\ ~pull
  /\ \/ active /\ TakePacket
     \/ /\ ~active /\ pushes > 0
        /\ pushes' = pushes - 1
        /\ UNCHANGED <<mode, server, unsent, next, arrived, task, sent, controller>>

(* Mutant: the packet is not advanced after a partial write.               *)
Write_NoPull ==
  /\ active /\ unsent # <<>> /\ (pull => inTask)
  /\ \E n \in 1..Len(unsent) :
       /\ Len(sent) + n <= SendBuffer
       /\ sent' = sent \o SubSeq(unsent, 1, n)
       /\ unsent' = IF n = Len(unsent) THEN <<>> ELSE unsent
  /\ UNCHANGED <<mode, server, pushes, next, arrived, task, controller>>

(* write_packet(): as much as the kernel takes.  While it takes nothing    *)
(* the loop in push() spins.                                               *)
Write ==
  /\ active /\ unsent # <<>> /\ (pull => inTask)
  /\ \E n \in 1..Len(unsent) :
       /\ Len(sent) + n <= SendBuffer
       /\ sent' = sent \o SubSeq(unsent, 1, n)
       /\ unsent' = SubSeq(unsent, n + 1, Len(unsent))
  /\ UNCHANGED <<mode, server, pushes, next, arrived, task, controller>>

(* Mutant: any error of write() is taken for EAGAIN, and push() spins on.  *)
WriteFails_Spins == FALSE /\ UNCHANGED vars

(* write() to a connection the controller has closed.  What the kernel     *)
(* took before the reset came is lost with it.                             *)
WriteFails ==
  /\ active /\ unsent # <<>> /\ (pull => inTask) /\ ~peer
  /\ close_active

-----------------------------------------------------------------------------
(* run_task(), of a pulling input.                                         *)
RunTask ==
  /\ Idle /\ scheduled
  /\ scheduled' = FALSE
  /\ inTask' = active
  /\ UNCHANGED <<mode, server, output, writeSelected, arrived, sent, controller>>

TaskPulls == inTask /\ TakePacket

(* Mutant: nobody is to say when the socket can be written to again.       *)
TaskWouldBlock_NotSelected ==
  /\ inTask /\ unsent # <<>> /\ Len(sent) = SendBuffer
  /\ inTask' = FALSE
  /\ UNCHANGED <<mode, server, output, scheduled, writeSelected, arrived, sent, controller>>

(* The rest of the packet is kept in _wq.                                  *)
TaskWouldBlock ==
  /\ inTask /\ unsent # <<>> /\ Len(sent) = SendBuffer
  /\ inTask' = FALSE
  /\ writeSelected' = TRUE
  /\ UNCHANGED <<mode, server, output, scheduled, arrived, sent, controller>>

(* Nothing was there to pull.  The Notifier may not have noticed yet.      *)
TaskEnds ==
  /\ inTask /\ unsent = <<>> /\ pushes = 0
  /\ inTask' = FALSE
  /\ \/ scheduled' = TRUE /\ UNCHANGED writeSelected
     \/ writeSelected' = FALSE /\ UNCHANGED scheduled
  /\ UNCHANGED <<mode, server, output, arrived, sent, controller>>

-----------------------------------------------------------------------------
(* The controller, and hosts that connect to a server; listen() lets two   *)
(* of them wait.  Who connects while another is served is left out, as     *)
(* nobody is accepted any more.                                            *)
HostConnects ==
  /\ running /\ ~client /\ ~active /\ Len(backlog) < 2
  /\ \E h \in Hosts : backlog' = Append(backlog, h)
  /\ UNCHANGED <<mode, running, active, host, output, task, arrived, sent, controller>>

ControllerSends ==
  /\ active /\ peer /\ arrived < ReceiveBuffer
  /\ arrived' = arrived + 1
  /\ UNCHANGED <<mode, server, output, task, sent, controller>>

(* It takes one unit; a packet is complete with its last part.             *)
ControllerReads ==
  /\ peer /\ sent # <<>>
  /\ sent' = Tail(sent)
  /\ IF Len(partial) + 1 = PacketLength
     THEN partial' = <<>> /\ expected' = (expected + 1) % Numbers
     ELSE partial' = Append(partial, Head(sent)) /\ UNCHANGED expected
  /\ UNCHANGED <<mode, server, output, task, arrived, peer>>

ControllerCloses ==
  /\ active /\ peer
  /\ peer' = FALSE
  /\ UNCHANGED <<mode, server, output, task, arrived, sent, partial, expected>>

-----------------------------------------------------------------------------
Handling ==
  push \/ Write \/ WriteFails \/ TaskPulls \/ TaskWouldBlock \/ TaskEnds

selected == Accept \/ ReadMessages \/ ReadEnd

Next ==
  \/ Handling \/ selected \/ RunTask \/ TimerPushes
  \/ HostConnects \/ ControllerSends \/ ControllerReads \/ ControllerCloses

Spec == Init /\ [][Next]_vars

(* The process runs, its event loop comes back to the socket and to the    *)
(* task, and a controller that keeps the connection reads what it is sent. *)
FairSpec ==
  /\ Spec
  /\ WF_vars(Handling) /\ SF_vars(selected) /\ SF_vars(RunTask)
  /\ WF_vars(ControllerReads)

-----------------------------------------------------------------------------
(* What the controller holds of a packet, what is on its way and what is   *)
(* still to be written are together whole packets in the order in which    *)
(* they were taken: no partial write, and no packet kept for the next run  *)
(* of the task, loses, repeats or mixes anything.                          *)
StreamIsWhole ==
  active =>
    LET stream == partial \o sent \o unsent
    IN /\ Len(stream) % PacketLength = 0
       /\ \A i \in DOMAIN stream :
            stream[i] = [packet |-> (expected + (i - 1) \div PacketLength) % Numbers,
                         part   |-> ((i - 1) % PacketLength) + 1]
       /\ next = (expected + Len(stream) \div PacketLength) % Numbers

(* However often the kernel is full: when the input is pushed to, the      *)
(* handling of a read comes to its end and the router's other elements get *)
(* to run again; when it pulls, a packet that waits is written, or at      *)
(* least one more is taken, and no wake-up is lost in between.             *)
HandlingEnds ==
  /\ ~Idle ~> Idle \/ ~running
  /\ \A n \in 0..(Numbers - 1) :
       active /\ next = n /\ (pushes > 0 \/ unsent # <<>>)
         ~> next # n \/ (pushes = 0 /\ unsent = <<>>) \/ ~running

(* A controller that goes is noticed, also by a process that is blocked in *)
(* a write: the process ends.                                              *)
EndIsNoticed == active /\ ~peer ~> ~running

(* Hosts that are denied come to nothing, whenever they connect: they are  *)
(* never served, the process of a server ends only because of one that     *)
(* was, and while nobody is served they do not keep out one who is allowed *)
(* by ALLOW or not found in DENY.                                          *)
DeniedAreHarmless ==
  /\ [](host \notin Deny \ Allow)
  /\ [](~client /\ (active \/ ~running) => host # NoHost)
  /\ \A h \in Allow \cup (Hosts \ Deny) :
       ~active /\ h \in Range(backlog) ~> active \/ ~running
=============================================================================
