------------------------------ MODULE SocketMain ------------------------------
(***************************************************************************)
(* The stand-alone prototype, Socket/main.cc: a thread that reads from the *)
(* controller, a detached thread that works through the shared queue, and  *)
(* the main thread that waits for a key and then cleans up.                *)
(*                                                                         *)
(* The messages of the controller are 1, 2, ...; a packet is what one read *)
(* returns, a sequence of consecutive messages.  The responder             *)
(* (Socket/OFResponder_Test.cc) handles the first message of a packet and  *)
(* puts the others at the END of the queue.  `script' says what the        *)
(* messages are; what the responder does with one is module                *)
(* SocketResponder.                                                        *)
(***************************************************************************)
EXTENDS SocketResponder, FiniteSets

CONSTANTS
  Messages,   (* bound: how many messages the controller sends               *)
  MaxRead,    (* bound: messages in one read                                 *)
  Scripts     (* what the controller may send, sequences of messages         *)

ASSUME MainAssumption ==
  /\ Messages \in Nat /\ MaxRead \in Nat \ {0}
  /\ \A s \in Scripts : s \in Seq(Message) /\ Len(s) = Messages

VARIABLES
  socketQueue,
  readThread,     (* the flag the worker looks at                            *)
  run,            (* the flag the reader looks at                            *)
  reader,         (* where the reader is                                     *)
  buffer,         (* what it has read and not yet pushed                     *)
  worker,         (* where the worker is                                     *)
  request,        (* its copy of the packet at the front                     *)
  main,           (* where the main thread is                                *)
  alive,          (* FALSE: the process has ended or crashed                 *)
  script,         (* what the controller sends                               *)
  received,       (* history: number of messages read                        *)
  heads,          (* history: messages that came first in a read             *)
  handled         (* history: messages, in the order they were handled       *)

readerVars == <<readThread, reader, buffer, received, heads>>
workerVars == <<worker, request, handled, responder>>
vars == <<script, socketQueue, run, main, alive, readerVars, workerVars>>

Init ==
  /\ socketQueue = <<>> /\ readThread = FALSE /\ run = TRUE /\ alive = TRUE
  /\ reader = "start" /\ buffer = <<>> /\ received = 0 /\ heads = {}
  /\ worker = "test" /\ request = <<>> /\ handled = <<>>
  /\ main = "input"
  /\ script \in Scripts
  /\ ResponderInit

-----------------------------------------------------------------------------
(* readDataFromSocket                                                      *)
ReaderStarts ==
  /\ reader = "start"
  /\ readThread' = TRUE
  /\ reader' = "test"
  /\ UNCHANGED <<socketQueue, run, main, alive, buffer, received, heads, workerVars>>

(* Mutant: the reader is to end with the connection only.                  *)
ReaderTests_Forever ==
  /\ reader = "test"
  /\ reader' = "receive"
  /\ UNCHANGED <<socketQueue, run, main, alive, readThread, buffer, received, heads, workerVars>>

ReaderTests ==
  /\ reader = "test"
  /\ reader' = IF run THEN "receive" ELSE "end"
  /\ UNCHANGED <<socketQueue, run, main, alive, readThread, buffer, received, heads, workerVars>>

receive ==
  /\ reader = "receive"
  /\ \E n \in 1..MaxRead :
       /\ received + n <= Messages
       /\ buffer' = [i \in 1..n |-> received + i]
       /\ received' = received + n
       /\ heads' = heads \cup {received + 1}
  /\ reader' = "push"
  /\ UNCHANGED <<socketQueue, run, main, alive, readThread, workerVars>>

(* The controller has closed the connection.                               *)
receive_Closed ==
  /\ reader = "receive"
  /\ reader' = "end"
  /\ UNCHANGED <<socketQueue, run, main, alive, readThread, buffer, received, heads, workerVars>>

(* read() fails.  The length is unsigned, so the test for less than zero   *)
(* does not see it, and 2^32 - 1 bytes are copied from a small buffer.     *)
receive_Fails ==
  /\ reader = "receive"
  /\ alive' = FALSE
  /\ UNCHANGED <<socketQueue, run, main, readerVars, workerVars>>

(* Under queueLock.                                                        *)
ReaderPushes ==
  /\ reader = "push"
  /\ socketQueue' = Append(socketQueue, buffer)
  /\ buffer' = <<>>
  /\ reader' = "test"
  /\ UNCHANGED <<run, main, alive, readThread, received, heads, workerVars>>

ReaderEnds ==
  /\ reader = "end"
  /\ readThread' = FALSE
  /\ reader' = "joinable"
  /\ UNCHANGED <<socketQueue, run, main, alive, buffer, received, heads, workerVars>>

-----------------------------------------------------------------------------
(* readDataFromQueue.  Only pushes and pops are under queueLock.  The      *)
(* thread ends as soon as it finds readThread FALSE, be it before the      *)
(* reader has started.                                                     *)
WorkerTests ==
  /\ worker = "test"
  /\ worker' = IF readThread THEN "size" ELSE "gone"
  /\ UNCHANGED <<socketQueue, run, main, alive, readerVars, request, handled, responder>>

WorkerLooks ==
  /\ worker = "size"
  /\ worker' = IF socketQueue # <<>> THEN "front" ELSE "test"
  /\ UNCHANGED <<socketQueue, run, main, alive, readerVars, request, handled, responder>>

WorkerCopies ==
  /\ worker = "front" /\ socketQueue # <<>>
  /\ request' = Head(socketQueue)
  /\ worker' = "handle"
  /\ UNCHANGED <<socketQueue, run, main, alive, readerVars, handled, responder>>

(* Mutant: what is split off goes to the front, to keep the order.         *)
simple_action_PushesFront ==
  /\ worker = "handle"
  /\ handled' = Append(handled, Head(request))
  /\ Respond(script[Head(request)])
  /\ socketQueue' = IF Len(request) > 1 THEN <<Tail(request)>> \o socketQueue ELSE socketQueue
  /\ worker' = "pop"
  /\ UNCHANGED <<run, main, alive, readerVars, request>>

(* Mutant: what is split off is dropped.                                   *)
simple_action_DropsRest ==
  /\ worker = "handle"
  /\ handled' = Append(handled, Head(request))
  /\ Respond(script[Head(request)])
  /\ worker' = "pop"
  /\ UNCHANGED <<socketQueue, run, main, alive, readerVars, request>>

(* The responder: the first message is answered, the rest goes to the end  *)
(* of the queue, under queueLock.                                          *)
simple_action ==
  /\ worker = "handle"
  /\ handled' = Append(handled, Head(request))
  /\ Respond(script[Head(request)])
  /\ socketQueue' = IF Len(request) > 1 THEN Append(socketQueue, Tail(request)) ELSE socketQueue
  /\ worker' = "pop"
  /\ UNCHANGED <<run, main, alive, readerVars, request>>

WorkerPops ==
  /\ worker = "pop" /\ socketQueue # <<>>
  /\ socketQueue' = Tail(socketQueue)
  /\ worker' = "delete"
  /\ UNCHANGED <<run, main, alive, readerVars, request, handled, responder>>

(* Mutant: the worker ends when it has handled a packet.                   *)
WorkerDeletes_Tests ==
  /\ worker = "delete"
  /\ worker' = "gone"
  /\ request' = <<>>
  /\ UNCHANGED <<socketQueue, run, main, alive, readerVars, handled, responder>>

(* The responder has deleted a request that it split: deleting it again    *)
(* is undefined and may end the process.                                   *)
WorkerDeletes ==
  /\ worker = "delete"
  /\ worker' = "size"
  /\ alive' \in IF Len(request) > 1 THEN BOOLEAN ELSE {TRUE}
  /\ request' = <<>>
  /\ UNCHANGED <<socketQueue, run, main, readerVars, handled, responder>>

(* The main thread has deleted what this thread uses, or emptied the queue *)
(* between its looking and its reading: anything may follow.               *)
WorkerCrashes ==
  /\ worker \in {"front", "handle", "pop"}
  /\ main \in {"drain", "exit"}
  /\ alive' = FALSE
  /\ UNCHANGED <<socketQueue, run, main, readerVars, workerVars>>

-----------------------------------------------------------------------------
(* A key, or the end of the input: then the key is what was on the stack,  *)
(* and the reader may be waited for without being told to end.             *)
MainInput ==
  /\ main = "input"
  /\ run' \in {FALSE, run}
  /\ main' = "join"
  /\ UNCHANGED <<socketQueue, alive, readerVars, workerVars>>

(* The reader is joined; then responder and pipeline are deleted.          *)
MainDeletes ==
  /\ main = "join" /\ reader = "joinable"
  /\ main' = "drain"
  /\ UNCHANGED <<socketQueue, run, alive, readerVars, workerVars>>

(* The loop compares a growing index with a shrinking size and leaves half *)
(* of the queue; no lock is taken.                                         *)
MainDrains ==
  /\ main = "drain"
  /\ socketQueue' = SubSeq(socketQueue, (Len(socketQueue) + 1) \div 2 + 1, Len(socketQueue))
  /\ main' = "exit"
  /\ UNCHANGED <<run, alive, readerVars, workerVars>>

MainExits ==
  /\ main = "exit"
  /\ alive' = FALSE
  /\ UNCHANGED <<socketQueue, run, main, readerVars, workerVars>>

-----------------------------------------------------------------------------
Reader == alive /\ (ReaderStarts \/ ReaderTests \/ receive \/ receive_Closed
                    \/ receive_Fails \/ ReaderPushes \/ ReaderEnds)
Worker == alive /\ (WorkerTests \/ WorkerLooks \/ WorkerCopies \/ simple_action
                    \/ WorkerPops \/ WorkerDeletes \/ WorkerCrashes)
Main   == alive /\ (MainInput \/ MainDeletes \/ MainDrains \/ MainExits)

Next == (Reader \/ Worker \/ Main) /\ UNCHANGED script

Spec == Init /\ [][Next]_vars

(* The operating system runs the worker, and the reader that has something *)
(* to push; the lock is never kept.                                        *)
FairSpec == Spec /\ WF_vars(Worker /\ UNCHANGED script) /\ WF_vars(alive /\ ReaderPushes /\ UNCHANGED script)

-----------------------------------------------------------------------------
(* The packets that are still to be handled; the front one is handled      *)
(* before it is popped.                                                    *)
ToBeHandled == IF worker = "pop" THEN Tail(socketQueue) ELSE socketQueue

(* Nothing has been deleted under the worker yet.                          *)
Sound == main \in {"input", "join"}

(* Every variable keeps its type.                                          *)
TypeOK ==
  /\ socketQueue \in Seq(Seq(1..Messages) \ {<<>>})
  /\ readThread \in BOOLEAN /\ run \in BOOLEAN /\ alive \in BOOLEAN
  /\ reader \in {"start", "test", "receive", "push", "end", "joinable"}
  /\ worker \in {"test", "size", "front", "handle", "pop", "delete", "gone"}
  /\ main \in {"input", "join", "drain", "exit"}
  /\ buffer \in Seq(1..Messages) /\ request \in Seq(1..Messages)
  /\ received \in 0..Messages /\ heads \subseteq 1..Messages
  /\ handled \in Seq(1..Messages)
  /\ script \in Scripts
  /\ ResponderTypeOK

(* The front is read without the lock and popped later under it, with      *)
(* pushes of two threads in between: it is still the same packet.          *)
PopsWhatItHandled ==
  Sound /\ worker \in {"handle", "pop"} => socketQueue # <<>> /\ Head(socketQueue) = request

(* Every message that was read is in exactly one place: with the reader,   *)
(* handled, or in a packet of the queue.                                   *)
NothingLostOrDoubled ==
  Sound => \A m \in 1..received :
    LET held   == <<buffer, handled>> \o ToBeHandled
        places == UNION {{k} \X {i \in DOMAIN held[k] : held[k][i] = m} : k \in DOMAIN held}
    IN Cardinality(places) = 1

(* Of the messages that came first in a read, the one read first is        *)
(* handled first, whatever is split off and queued again in between.       *)
HeadsInOrder ==
  \A i, j \in DOMAIN handled :
    i < j /\ handled[i] \in heads /\ handled[j] \in heads => handled[i] < handled[j]

(* Whatever role requests came in whatever order, at most one controller   *)
(* is master, and it is the one accepted last.                             *)
OneMaster ==
  \A i \in DOMAIN controllers : controllers[i].rolle = MASTER => i = Len(controllers)

(* The pieces that are kept belong to one request, though other requests   *)
(* are handled between them.                                               *)
PiecesOfOneRequest ==
  \A i, j \in DOMAIN multipartMsg : multipartMsg[i] = multipartMsg[j]

(* Three parties send: handler, pipeline and worker.  Still, through       *)
(* whatever splitting and queueing a message went, no id is answered more  *)
(* often than a message with that id was handled; only a SET_CONFIG may be *)
(* followed by two answers to what seems to stand behind it, with any id.  *)
(* The STALE error, whose id is not set, is no answer to an id.            *)
AnswersAreAsked ==
  LET settings    == {i \in DOMAIN handled : script[handled[i]].type = "SET_CONFIG"}
      requests(x) == {i \in DOMAIN handled : script[handled[i]].xid = x} \ settings
      answers(x)  == {i \in DOMAIN sent : sent[i].xid = x /\ sent[i].type # "STALE"}
  IN \A r \in Range(sent) :
       Cardinality(answers(r.xid)) <= Cardinality(requests(r.xid)) + 2 * Cardinality(settings)

(* While the reader goes on and the worker has not missed its start, what  *)
(* was read is handled in the end.                                         *)
HandledInTheEnd ==
  \A m \in 1..Messages :
    m <= received /\ readThread /\ worker # "gone"
      ~> m \in Range(handled) \/ ~readThread \/ ~alive
=============================================================================
