------------------------ MODULE SocketPipeline_proofs ------------------------
(***************************************************************************)
(* Proofs about the prototype, for every number of messages, every size of *)
(* a read, every script of the controller and any devices and ports.       *)
(*                                                                         *)
(* The first parts are about the three threads of SocketMain.  The         *)
(* worker's reads of the queue take no lock; what makes them safe is that  *)
(* it alone removes packets, and that the reader never queues an empty     *)
(* one.                                                                    *)
(*                                                                         *)
(* What is proved of the threads holds in the program around them, though  *)
(* that has an end of its own: a port's thread may find its manager        *)
(* deleted.  And the program is left in order.                             *)
(***************************************************************************)
EXTENDS SocketPipeline, SequenceTheorems, FiniteSetTheorems, FunctionTheorems, TLAPS

(* What the reader pushes and the worker handles.                          *)
Packet == Seq(1..Messages) \ {<<>>}

(* Nobody holds an empty packet when it is about to push or to handle it.  *)
NothingEmpty ==
  /\ reader = "push" => buffer # <<>>
  /\ worker = "handle" => request # <<>>

(* The inductive invariant.  PopsWhatItHandled needs NothingEmpty, for the *)
(* worker's Head and Tail, and TypeOK, which keeps the queue free of empty *)
(* packets.                                                                *)
IInv == TypeOK /\ NothingEmpty /\ PopsWhatItHandled /\ OneMaster /\ PiecesOfOneRequest

-----------------------------------------------------------------------------
(* Appending leaves the front of a queue that is not empty.                *)
LEMMA FrontStays ==
  ASSUME NEW S, NEW q \in Seq(S), NEW e \in S
  PROVE  /\ Append(q, e) \in Seq(S)
         /\ Append(q, e) # <<>>
         /\ q # <<>> => Head(Append(q, e)) = Head(q)
<1>1. /\ Append(q, e) \in Seq(S)
      /\ Len(Append(q, e)) = Len(q) + 1 /\ Len(q) \in Nat
      /\ \A i \in 1..Len(q) : Append(q, e)[i] = q[i]
  OBVIOUS
<1>2. Append(q, e) # <<>>
  BY <1>1
<1>3. q # <<>> => Head(Append(q, e)) = Head(q)
  <2>1. q # <<>> => Len(q) > 0 /\ Head(q) = q[1]
    OBVIOUS
  <2>2. Head(Append(q, e)) = Append(q, e)[1]
    BY <1>1, <1>2
  <2> QED BY <1>1, <2>1, <2>2
<1> QED BY <1>1, <1>2, <1>3

(* What is split off a packet with several messages is a packet.           *)
LEMMA RestIsPacket ==
  ASSUME NEW p \in Seq(1..Messages), Len(p) > 1
  PROVE  Tail(p) \in Packet
<1>1. Tail(p) \in Seq(1..Messages) /\ Len(Tail(p)) = Len(p) - 1
  OBVIOUS
<1> QED BY <1>1 DEF Packet

-----------------------------------------------------------------------------
(* What is stored of a controller.                                         *)
Controller == [generation : Nat, rolle : Roles]

(* Demoting changes masters only, and leaves none.                         *)
LEMMA DemotedEffect ==
  ASSUME ResponderTypeOK
  PROVE  /\ Demoted \in Seq(Controller)
         /\ Len(Demoted) = Len(controllers)
         /\ \A i \in 1..Len(controllers) : Demoted[i].rolle # MASTER
<1>1. controllers \in Seq(Controller)
  BY DEF ResponderTypeOK, Controller
<1>2. DOMAIN controllers = 1..Len(controllers) /\ Len(controllers) \in Nat
  BY <1>1
<1>3. ASSUME NEW i \in 1..Len(controllers)
      PROVE  Demoted[i] \in Controller /\ Demoted[i].rolle # MASTER
  <2>1. controllers[i] \in Controller
    BY <1>1
  <2>2. CASE controllers[i].rolle = MASTER
    <3>1. Demoted[i] = [controllers[i] EXCEPT !.rolle = SLAVE]
      BY <1>2, <2>2 DEF Demoted
    <3> QED BY <2>1, <3>1 DEF Controller, Roles, MASTER, SLAVE
  <2>3. CASE controllers[i].rolle # MASTER
    BY <1>2, <2>1, <2>3 DEF Demoted
  <2> QED BY <2>2, <2>3
<1>4. Demoted \in [1..Len(controllers) -> Controller]
  BY <1>2, <1>3 DEF Demoted
<1>5. Demoted \in Seq(Controller) /\ Len(Demoted) = Len(controllers)
  BY <1>2, <1>4
<1> QED BY <1>3, <1>5

(* Whatever the kind of a message, the responder's state keeps its type.   *)
LEMMA RespondType ==
  ASSUME ResponderTypeOK, NEW m \in Message, Respond(m)
  PROVE  ResponderTypeOK'
<1>m. m.type \in Types /\ m.xid \in Nat /\ m.role \in Roles /\ m.generation \in Nat
  BY DEF Message
<1>r. ASSUME NEW t \in {Answer[u] : u \in DOMAIN Answer} \cup {"ROLE_REPLY", "STALE", "BAD_MULTIPART"},
             NEW x \in Nat
      PROVE  reply(t, x) \in Reply
  BY DEF reply, Reply
<1>a. Answer["BARRIER_REQUEST"] = "BARRIER_REPLY" /\ "BARRIER_REQUEST" \in DOMAIN Answer
      /\ Answer["GET_CONFIG_REQUEST"] = "GET_CONFIG_REPLY" /\ "GET_CONFIG_REQUEST" \in DOMAIN Answer
      /\ Answer["MULTIPART_REPLY"] = "MULTIPART_REPLY" /\ "MULTIPART_REPLY" \in DOMAIN Answer
  BY DEF Answer
<1>1. CASE Immediate(m)
  BY <1>1, <1>m, <1>r DEF Immediate, ResponderTypeOK
<1>2. CASE Logged(m)
  BY <1>2 DEF Logged, responder, ResponderTypeOK
<1>3. CASE SetConfig(m)
  <2>1. PICK x \in Undefined, y \in Undefined :
          \E more \in {<<>>, <<reply("BARRIER_REPLY", x), reply("BARRIER_REPLY", x)>>,
                       <<reply("BARRIER_REPLY", x), reply("GET_CONFIG_REPLY", y)>>} :
            sent' = sent \o more
    BY <1>3 DEF SetConfig
  <2>2. x \in Nat /\ y \in Nat
    BY UndefinedAssumption
  <2>3. /\ reply("BARRIER_REPLY", x) \in Reply
        /\ reply("GET_CONFIG_REPLY", y) \in Reply
    BY <1>a, <1>r, <2>2
  <2>4. /\ <<>> \in Seq(Reply)
        /\ <<reply("BARRIER_REPLY", x), reply("BARRIER_REPLY", x)>> \in Seq(Reply)
        /\ <<reply("BARRIER_REPLY", x), reply("GET_CONFIG_REPLY", y)>> \in Seq(Reply)
    BY <2>3
  <2>5. sent' \in Seq(Reply)
    <3>1. \A more \in Seq(Reply) : sent \o more \in Seq(Reply)
      BY DEF ResponderTypeOK
    <3> QED BY <2>1, <2>4, <3>1
  <2> QED BY <1>3, <2>5 DEF SetConfig, ResponderTypeOK
<1>4. CASE RoleRequest(m)
  <2>1. /\ \A x \in Undefined : reply("STALE", x) \in Reply
        /\ reply("ROLE_REPLY", m.xid) \in Reply
    BY <1>m, <1>r, UndefinedAssumption
  <2>2. Accepted(m) \in Controller
    BY <1>m DEF Accepted, Controller
  <2>3. controllers' \in Seq(Controller)
    <3>1. Append(Demoted, Accepted(m)) \in Seq(Controller)
      BY <2>2, DemotedEffect
    <3> QED BY <1>4, <3>1 DEF RoleRequest, ResponderTypeOK, Controller
  <2>4. sent' \in Seq(Reply)
    <3>1. /\ \A x \in Undefined : Append(sent, reply("STALE", x)) \in Seq(Reply)
          /\ Append(sent, reply("ROLE_REPLY", m.xid)) \in Seq(Reply)
      BY <2>1 DEF ResponderTypeOK
    <3>2. \/ \E x \in Undefined : sent' = Append(sent, reply("STALE", x))
          \/ sent' = Append(sent, reply("ROLE_REPLY", m.xid))
      BY <1>4, Zenon DEF RoleRequest
    <3> QED BY <3>1, <3>2
  <2> QED BY <1>4, <2>3, <2>4 DEF RoleRequest, ResponderTypeOK, Controller
<1>5. CASE MultipartPiece(m)
  <2>1. Piece(m) \in [type : Multipart, xid : Nat]
    BY <1>5, <1>m DEF Piece, MultipartPiece
  <2>2. reply("BAD_MULTIPART", m.xid) \in Reply
    BY <1>m, <1>r
  <2> DEFINE P == [type : Multipart, xid : Nat]
  <2>3. multipartMsg \in Seq(P) /\ sent \in Seq(Reply)
    BY DEF ResponderTypeOK
  <2>4. Append(multipartMsg, Piece(m)) \in Seq(P) /\ Append(sent, reply("BAD_MULTIPART", m.xid)) \in Seq(Reply)
    BY <2>1, <2>2, <2>3
  <2>5. multipartMsg' \in Seq(P) /\ sent' \in Seq(Reply)
    <3>1. \/ multipartMsg' = <<>> /\ sent' = Append(sent, reply("BAD_MULTIPART", m.xid))
          \/ multipartMsg' = Append(multipartMsg, Piece(m)) /\ sent' = sent
      BY <1>5, Zenon DEF MultipartPiece
    <3>2. <<>> \in Seq(P)
      OBVIOUS
    <3> HIDE DEF P
    <3> QED BY <2>3, <2>4, <3>1, <3>2
  <2> QED BY <1>5, <2>5 DEF MultipartPiece, ResponderTypeOK
<1>6. CASE MultipartLast(m)
  <2> DEFINE first == Head(Append(multipartMsg, Piece(m)))
             answer == CASE first.type \in {"TABLE_FEATURES", "PORT_DESC"} -> PipelineAnswers(m)
                         [] first.type = "DESC" -> <<reply("MULTIPART_REPLY", first.xid)>>
                         [] OTHER -> <<>>
  <2>1. Piece(m) \in [type : Multipart, xid : Nat]
    BY <1>6, <1>m DEF Piece, MultipartLast
  <2>2. first \in [type : Multipart, xid : Nat]
    <3> DEFINE P == [type : Multipart, xid : Nat]
               pieces == Append(multipartMsg, Piece(m))
    <3>1. pieces \in Seq(P) /\ Len(pieces) > 0
      BY <2>1 DEF ResponderTypeOK
    <3>2. Head(pieces) \in P
      <4> HIDE DEF P, pieces
      <4> QED BY <3>1
    <3> QED BY <3>2
  <2>3. reply("MULTIPART_REPLY", m.xid) \in Reply /\ reply("MULTIPART_REPLY", first.xid) \in Reply
    BY <1>m, <1>a, <1>r, <2>2
  <2>4. PipelineAnswers(m) \in Seq(Reply)
    BY <2>3 DEF PipelineAnswers
  <2>5. answer \in Seq(Reply)
    <3>1. CASE first.type \in {"TABLE_FEATURES", "PORT_DESC"}
      <4>1. first.type # "DESC"
        BY <3>1
      <4> QED BY <3>1, <4>1, <2>4
    <3>2. CASE first.type = "DESC"
      BY <3>2, <2>3
    <3>3. CASE first.type \notin {"TABLE_FEATURES", "PORT_DESC", "DESC"}
      BY <3>3
    <3> QED BY <3>1, <3>2, <3>3
  <2>6. sent' = sent \o answer /\ multipartMsg' = <<>> /\ UNCHANGED controllers
    BY <1>6 DEF MultipartLast
  <2> HIDE DEF answer
  <2> QED BY <2>5, <2>6 DEF ResponderTypeOK
<1> QED BY <1>1, <1>2, <1>3, <1>4, <1>5, <1>6 DEF Respond

(* Before a role is stored, every master is demoted where it is stored.    *)
LEMMA RespondOneMaster ==
  ASSUME ResponderTypeOK, OneMaster, NEW m \in Message, Respond(m)
  PROVE  OneMaster'
<1>1. CASE UNCHANGED controllers
  BY <1>1 DEF OneMaster
<1>2. CASE RoleRequest(m) /\ ~Stale(m)
  <2>1. controllers' = Append(Demoted, Accepted(m))
    BY <1>2 DEF RoleRequest
  <2>2. /\ Demoted \in Seq(Controller)
        /\ Len(Demoted) = Len(controllers)
        /\ \A i \in 1..Len(controllers) : Demoted[i].rolle # MASTER
    BY DemotedEffect
  <2>3. /\ Len(controllers') = Len(Demoted) + 1
        /\ DOMAIN controllers' = 1..Len(controllers')
        /\ \A i \in 1..Len(Demoted) : controllers'[i] = Demoted[i]
    BY <2>1, <2>2
  <2>4. Len(Demoted) \in Nat
    BY <2>2
  <2> QED BY <2>2, <2>3, <2>4 DEF OneMaster
<1> QED BY <1>1, <1>2 DEF Respond, Immediate, Logged, responder, SetConfig, RoleRequest,
              MultipartPiece, MultipartLast

(* A piece is kept only if it goes with the last one kept.                 *)
LEMMA RespondPieces ==
  ASSUME ResponderTypeOK, PiecesOfOneRequest, NEW m \in Message, Respond(m)
  PROVE  PiecesOfOneRequest'
<1>1. CASE UNCHANGED multipartMsg
  BY <1>1 DEF PiecesOfOneRequest
<1>2. CASE multipartMsg' = <<>>
  BY <1>2 DEF PiecesOfOneRequest
<1>3. CASE /\ multipartMsg' = Append(multipartMsg, Piece(m))
           /\ multipartMsg = <<>> \/ Last(multipartMsg) = Piece(m)
  <2>1. multipartMsg \in Seq([type : Multipart, xid : Nat])
    BY DEF ResponderTypeOK
  <2>2. \A i \in 1..Len(multipartMsg) : multipartMsg[i] = Piece(m)
    <3>1. CASE multipartMsg = <<>>
      BY <3>1
    <3>2. CASE multipartMsg # <<>>
      <4>1. Len(multipartMsg) \in 1..Len(multipartMsg)
        BY <2>1, <3>2
      <4>2. multipartMsg[Len(multipartMsg)] = Piece(m)
        BY <1>3, <3>2 DEF Last
      <4> QED BY <2>1, <4>1, <4>2 DEF PiecesOfOneRequest
    <3> QED BY <3>1, <3>2
  <2>3. /\ DOMAIN multipartMsg' = 1..(Len(multipartMsg) + 1)
        /\ Len(multipartMsg) \in Nat
        /\ \A i \in 1..Len(multipartMsg) : multipartMsg'[i] = multipartMsg[i]
        /\ multipartMsg'[Len(multipartMsg) + 1] = Piece(m)
    BY <1>3, <2>1
  <2>4. \A i \in DOMAIN multipartMsg' : multipartMsg'[i] = Piece(m)
    BY <2>2, <2>3
  <2> QED BY <2>4 DEF PiecesOfOneRequest
<1>4. \/ UNCHANGED multipartMsg
      \/ multipartMsg' = <<>>
      \/ /\ multipartMsg' = Append(multipartMsg, Piece(m))
         /\ multipartMsg = <<>> \/ Last(multipartMsg) = Piece(m)
  BY DEF Respond, Immediate, Logged, responder, SetConfig, RoleRequest, MultipartPiece, MultipartLast
<1> QED BY <1>1, <1>2, <1>3, <1>4

-----------------------------------------------------------------------------
LEMMA InitIInv == Init => IInv
<1> SUFFICES ASSUME Init PROVE IInv
  OBVIOUS
<1>1. ResponderTypeOK
  BY DEF Init, ResponderInit, ResponderTypeOK
<1>2. 0 \in 0..Messages
  BY MainAssumption
<1>3. socketQueue \in Seq(Packet) /\ buffer \in Seq(1..Messages) /\ request \in Seq(1..Messages)
      /\ handled \in Seq(1..Messages)
  BY DEF Init
<1>4. TypeOK
  BY <1>1, <1>2, <1>3 DEF Init, TypeOK, Packet
<1> QED
  BY <1>4 DEF Init, ResponderInit, IInv, NothingEmpty, PopsWhatItHandled, OneMaster, PiecesOfOneRequest

(* The reader: it adds to the end of the queue only, and no empty packet.  *)
LEMMA ReaderIInv ==
  ASSUME IInv, Reader, UNCHANGED script
  PROVE  IInv'
<1> USE DEF IInv, NothingEmpty
<1>1. UNCHANGED <<workerVars, run, main>>
  BY DEF Reader, ReaderStarts, ReaderTests, receive, receive_Closed, receive_Fails,
         ReaderPushes, ReaderEnds, workerVars, readerVars
<1>2. OneMaster' /\ PiecesOfOneRequest' /\ ResponderTypeOK'
  BY <1>1 DEF workerVars, responder, OneMaster, PiecesOfOneRequest, ResponderTypeOK, TypeOK
<1>3. CASE ReaderPushes
  <2>1. buffer \in Packet /\ socketQueue \in Seq(Packet)
    BY <1>3 DEF ReaderPushes, TypeOK, Packet
  <2>2. socketQueue' = Append(socketQueue, buffer)
    BY <1>3 DEF ReaderPushes
  <2>3. /\ socketQueue' \in Seq(Packet)
        /\ socketQueue # <<>> => socketQueue' # <<>> /\ Head(socketQueue') = Head(socketQueue)
    BY <2>1, <2>2, FrontStays
  <2>4. TypeOK'
    BY <1>1, <1>2, <1>3, <2>3 DEF ReaderPushes, TypeOK, Packet, workerVars
  <2>5. PopsWhatItHandled' /\ NothingEmpty'
    BY <1>1, <1>3, <2>3 DEF ReaderPushes, PopsWhatItHandled, Sound, workerVars
  <2> QED BY <1>2, <2>4, <2>5
<1>4. CASE receive
  <2>1. PICK n \in 1..MaxRead :
          /\ received + n <= Messages
          /\ buffer' = [i \in 1..n |-> received + i]
          /\ received' = received + n
          /\ heads' = heads \cup {received + 1}
    BY <1>4 DEF receive
  <2>2. n \in Nat /\ n > 0 /\ received \in Nat /\ Messages \in Nat /\ MaxRead \in Nat
    BY MainAssumption DEF TypeOK
  <2>3. buffer' \in Seq(1..Messages) /\ buffer' # <<>>
    BY <2>1, <2>2
  <2>4. TypeOK'
    BY <1>1, <1>2, <1>4, <2>1, <2>2, <2>3 DEF receive, TypeOK, workerVars
  <2>5. PopsWhatItHandled' /\ NothingEmpty'
    BY <1>1, <1>4, <2>3 DEF receive, PopsWhatItHandled, Sound, workerVars
  <2> QED BY <1>2, <2>4, <2>5
<1>5. CASE ReaderStarts \/ ReaderTests \/ receive_Closed \/ receive_Fails \/ ReaderEnds
  <2>1. socketQueue' = socketQueue /\ reader' # "push"
    BY <1>5 DEF ReaderStarts, ReaderTests, receive_Closed, receive_Fails, ReaderEnds, readerVars
  <2>2. TypeOK'
    BY <1>1, <1>2, <1>5 DEF ReaderStarts, ReaderTests, receive_Closed, receive_Fails, ReaderEnds,
                        readerVars, TypeOK, workerVars
  <2>3. PopsWhatItHandled' /\ NothingEmpty'
    BY <1>1, <2>1 DEF PopsWhatItHandled, Sound, workerVars
  <2> QED BY <1>2, <2>2, <2>3
<1> QED BY <1>3, <1>4, <1>5 DEF Reader

(* The worker: it alone takes the front away, after it has handled it.     *)
LEMMA WorkerIInv ==
  ASSUME IInv, Worker, UNCHANGED script
  PROVE  IInv'
<1> USE DEF IInv, NothingEmpty
<1>1. UNCHANGED <<readerVars, run, main>>
  BY DEF Worker, WorkerTests, WorkerLooks, WorkerCopies, simple_action, WorkerPops,
         WorkerDeletes, WorkerCrashes
<1>2. CASE simple_action
  <2>0. worker = "handle" /\ request \in Packet /\ socketQueue \in Seq(Packet) /\ script \in Scripts
    BY <1>2 DEF simple_action, TypeOK, Packet
  <2>1. Head(request) \in 1..Messages
    <3> DEFINE S == 1..Messages
    <3>1. request \in Seq(S) /\ request # <<>>
      BY <2>0 DEF Packet
    <3> HIDE DEF S
    <3>2. Head(request) \in S
      BY <3>1
    <3> QED BY <3>2 DEF S
  <2>2. script[Head(request)] \in Message
    BY <2>0, <2>1, MainAssumption
  <2>3. Respond(script[Head(request)])
    BY <1>2 DEF simple_action
  <2>4. ResponderTypeOK' /\ OneMaster' /\ PiecesOfOneRequest'
    BY <2>2, <2>3, RespondType, RespondOneMaster, RespondPieces DEF TypeOK
  <2>5. /\ socketQueue' \in Seq(Packet)
        /\ socketQueue # <<>> => socketQueue' # <<>> /\ Head(socketQueue') = Head(socketQueue)
    <3>1. CASE Len(request) > 1
      <4>1. Tail(request) \in Packet
        BY <2>0, <3>1, RestIsPacket DEF Packet
      <4>2. socketQueue' = Append(socketQueue, Tail(request))
        BY <1>2, <3>1 DEF simple_action
      <4> QED BY <2>0, <4>1, <4>2, FrontStays
    <3>2. CASE ~(Len(request) > 1)
      BY <1>2, <2>0, <3>2 DEF simple_action
    <3> QED BY <3>1, <3>2
  <2>6. handled' \in Seq(1..Messages)
    BY <1>2, <2>1 DEF simple_action, TypeOK
  <2>7. TypeOK'
    BY <1>1, <1>2, <2>4, <2>5, <2>6 DEF simple_action, TypeOK, Packet, readerVars
  <2>8. PopsWhatItHandled' /\ NothingEmpty'
    BY <1>1, <1>2, <2>5 DEF simple_action, PopsWhatItHandled, Sound, readerVars
  <2> QED BY <2>4, <2>7, <2>8
<1>3. CASE ~simple_action
  <2>0. UNCHANGED responder
    BY <1>3 DEF Worker, WorkerTests, WorkerLooks, WorkerCopies, WorkerPops, WorkerDeletes,
                WorkerCrashes, workerVars
  <2>1. OneMaster' /\ PiecesOfOneRequest' /\ ResponderTypeOK'
    BY <2>0 DEF responder, OneMaster, PiecesOfOneRequest, ResponderTypeOK, TypeOK
  <2>2. CASE WorkerCopies
    <3>1. socketQueue \in Seq(Packet) /\ socketQueue # <<>> /\ request' = Head(socketQueue)
          /\ UNCHANGED socketQueue
      BY <2>2 DEF WorkerCopies, TypeOK, Packet
    <3>2. request' \in Packet
      BY <3>1
    <3>3. request' \in Seq(1..Messages) /\ worker' = "handle" /\ UNCHANGED <<alive, handled, readerVars, run, main>>
      BY <2>2, <3>2 DEF WorkerCopies, Packet
    <3>4. TypeOK'
      BY <2>1, <3>1, <3>3 DEF TypeOK, readerVars
    <3>5. PopsWhatItHandled' /\ NothingEmpty'
      BY <1>1, <2>2, <3>1, <3>2 DEF WorkerCopies, PopsWhatItHandled, Packet, readerVars
    <3> QED BY <2>1, <3>4, <3>5
  <2>3. CASE WorkerPops
    <3>1. socketQueue' \in Seq(Packet)
      BY <2>3 DEF WorkerPops, TypeOK, Packet
    <3>2. TypeOK'
      BY <1>1, <2>1, <2>3, <3>1 DEF WorkerPops, TypeOK, Packet, readerVars
    <3>3. PopsWhatItHandled' /\ NothingEmpty'
      BY <1>1, <2>3 DEF WorkerPops, PopsWhatItHandled, readerVars
    <3> QED BY <2>1, <3>2, <3>3
  <2>4. CASE WorkerDeletes
    <3>1. request' \in Seq(1..Messages) /\ worker' = "size" /\ alive' \in BOOLEAN
          /\ UNCHANGED <<socketQueue, handled>>
      <4>1. request' = <<>> /\ worker' = "size" /\ UNCHANGED <<socketQueue, handled>>
        BY <2>4 DEF WorkerDeletes
      <4>2. alive' \in BOOLEAN
        <5>1. CASE Len(request) > 1
          BY <2>4, <5>1 DEF WorkerDeletes
        <5>2. CASE ~(Len(request) > 1)
          BY <2>4, <5>2 DEF WorkerDeletes
        <5> QED BY <5>1, <5>2
      <4> QED BY <4>1, <4>2
    <3>2. TypeOK'
      BY <1>1, <2>1, <3>1 DEF TypeOK, readerVars
    <3>3. PopsWhatItHandled' /\ NothingEmpty'
      BY <1>1, <2>4 DEF WorkerDeletes, PopsWhatItHandled, readerVars
    <3> QED BY <2>1, <3>2, <3>3
  <2>5. CASE WorkerTests \/ WorkerLooks \/ WorkerCrashes
    <3>1. TypeOK'
      BY <1>1, <2>1, <2>5 DEF WorkerTests, WorkerLooks, WorkerCrashes, TypeOK, readerVars, workerVars
    <3>2. PopsWhatItHandled' /\ NothingEmpty'
      BY <1>1, <2>5 DEF WorkerTests, WorkerLooks, WorkerCrashes, PopsWhatItHandled, Sound,
                        readerVars, workerVars
    <3> QED BY <2>1, <3>1, <3>2
  <2> QED BY <1>3, <2>2, <2>3, <2>4, <2>5 DEF Worker
<1> QED BY <1>2, <1>3

(* The main thread touches the queue when the program is no longer sound.  *)
LEMMA MainIInv ==
  ASSUME IInv, Main, UNCHANGED script
  PROVE  IInv'
<1> USE DEF IInv, NothingEmpty
<1>1. UNCHANGED <<readerVars, workerVars>>
  BY DEF Main, MainInput, MainDeletes, MainDrains, MainExits
<1>2. OneMaster' /\ PiecesOfOneRequest' /\ ResponderTypeOK'
  BY <1>1 DEF workerVars, responder, OneMaster, PiecesOfOneRequest, ResponderTypeOK, TypeOK
<1>3. CASE MainDrains
  <2>1. socketQueue \in Seq(Packet)
    BY DEF TypeOK, Packet
  <2>2. socketQueue' \in Seq(Packet)
    <3>1. /\ (Len(socketQueue) + 1) \div 2 + 1 \in Nat \ {0}
          /\ Len(socketQueue) \in Nat
      BY <2>1
    <3>2. \A i \in ((Len(socketQueue) + 1) \div 2 + 1)..Len(socketQueue) : socketQueue[i] \in Packet
      BY <2>1, <3>1
    <3> QED BY <1>3, <2>1, <3>1, <3>2 DEF MainDrains
  <2>3. TypeOK'
    BY <1>1, <1>2, <1>3, <2>2 DEF MainDrains, TypeOK, Packet, readerVars, workerVars
  <2>4. PopsWhatItHandled' /\ NothingEmpty'
    BY <1>1, <1>3 DEF MainDrains, PopsWhatItHandled, Sound, readerVars, workerVars
  <2> QED BY <1>2, <2>3, <2>4
<1>4. CASE MainInput \/ MainDeletes \/ MainExits
  <2>1. TypeOK'
    BY <1>1, <1>2, <1>4 DEF MainInput, MainDeletes, MainExits, TypeOK, readerVars, workerVars
  <2>2. PopsWhatItHandled' /\ NothingEmpty'
    BY <1>1, <1>4 DEF MainInput, MainDeletes, MainExits, PopsWhatItHandled, Sound, readerVars, workerVars
  <2> QED BY <1>2, <2>1, <2>2
<1> QED BY <1>3, <1>4 DEF Main

LEMMA StepIInv == IInv /\ [Next]_vars => IInv'
<1> SUFFICES ASSUME IInv, [Next]_vars PROVE IInv'
  OBVIOUS
<1>1. CASE Next
  BY <1>1, ReaderIInv, WorkerIInv, MainIInv DEF Next
<1>2. CASE UNCHANGED vars
  BY <1>2 DEF vars, readerVars, workerVars, responder, IInv, TypeOK, ResponderTypeOK, NothingEmpty,
              PopsWhatItHandled, Sound, OneMaster, PiecesOfOneRequest
<1> QED BY <1>1, <1>2

(* The inductive invariant of the prototype holds in every reachable       *)
(* state, for every script and size of the reads.                          *)
THEOREM Invariance == Spec => []IInv
BY InitIInv, StepIInv, PTL DEF Spec

(* The queue holds packets with at least one message, and every variable   *)
(* of the three threads and of the responder keeps its type.               *)
THEOREM TypeCorrect == Spec => []TypeOK
BY Invariance, PTL DEF IInv

(* The packet that the worker pops is the one it copied without the lock,  *)
(* whatever the reader and the responder have pushed in between.           *)
THEOREM FrontIsStable == Spec => []PopsWhatItHandled
BY Invariance, PTL DEF IInv

(* However the role requests are reordered by splitting, the responder     *)
(* never stores two masters, and the one it stores was accepted last.      *)
THEOREM MasterIsUnique == Spec => []OneMaster
BY Invariance, PTL DEF IInv

(* The responder never keeps pieces of two multipart requests together.    *)
THEOREM PiecesBelongTogether == Spec => []PiecesOfOneRequest
BY Invariance, PTL DEF IInv
-----------------------------------------------------------------------------
(* The order in which messages are handled.                                *)
Below(s, b) == \A i \in DOMAIN s : s[i] < b

(* Wherever a message is, except with the reader, it is below b.           *)
AllBelow(b) ==
  /\ \A k \in DOMAIN socketQueue : Below(socketQueue[k], b)
  /\ Below(request, b) /\ Below(handled, b)

(* What has been read, and what the reader is about to push.               *)
ReadInOrder ==
  /\ heads \subseteq 1..received
  /\ AllBelow(received + 1) /\ Below(buffer, received + 1)
  /\ reader = "push" => AllBelow(buffer[1])

(* What came first in a read is never split off.                           *)
RestHasNoHead(s) == \A i \in DOMAIN s : i > 1 => s[i] \notin heads

RestsHaveNoHeads ==
  /\ \A k \in DOMAIN socketQueue : RestHasNoHead(socketQueue[k])
  /\ RestHasNoHead(request) /\ RestHasNoHead(buffer)

Earlier(a, b) == a \in heads /\ b \in heads => a < b

(* From the oldest to the youngest: what was handled, what the worker is   *)
(* about to handle, and the packets in the queue from its front.           *)
Queued ==
  /\ \A i, j \in DOMAIN handled : i < j => Earlier(handled[i], handled[j])
  /\ \A k, l \in DOMAIN socketQueue : k < l => Earlier(socketQueue[k][1], socketQueue[l][1])
  /\ \A i \in DOMAIN handled : \A k \in DOMAIN socketQueue :
       k > 1 \/ worker # "pop" => Earlier(handled[i], socketQueue[k][1])
  /\ worker = "handle" =>
       /\ \A i \in DOMAIN handled : Earlier(handled[i], request[1])
       /\ \A k \in DOMAIN socketQueue : k > 1 => Earlier(request[1], socketQueue[k][1])

OrderInv == ReadInOrder /\ RestsHaveNoHeads /\ Queued

-----------------------------------------------------------------------------
(* Sequences that grow at the end and shrink at the front.                 *)
LEMMA Appended ==
  ASSUME NEW S, NEW s \in Seq(S), NEW e \in S
  PROVE  /\ Append(s, e) \in Seq(S) /\ DOMAIN Append(s, e) = 1..(Len(s) + 1)
         /\ Len(s) \in Nat /\ DOMAIN s = 1..Len(s)
         /\ \A i \in 1..(Len(s) + 1) :
              \/ i \in DOMAIN s /\ Append(s, e)[i] = s[i]
              \/ i = Len(s) + 1 /\ Append(s, e)[i] = e
<1> DEFINE a == Append(s, e)
<1>1. /\ a \in Seq(S) /\ Len(a) = Len(s) + 1
      /\ \A i \in 1..Len(s) : a[i] = s[i]
      /\ a[Len(s) + 1] = e /\ DOMAIN s = 1..Len(s) /\ Len(s) \in Nat
      /\ DOMAIN a = 1..(Len(s) + 1)
  OBVIOUS
<1>2. ASSUME NEW i \in 1..(Len(s) + 1)
      PROVE  (i \in DOMAIN s /\ a[i] = s[i]) \/ (i = Len(s) + 1 /\ a[i] = e)
  <2>1. i \in 1..Len(s) \/ i = Len(s) + 1
    BY <1>1
  <2> QED BY <1>1, <2>1
<1> QED BY <1>1, <1>2

LEMMA ElementOf ==
  ASSUME NEW S, NEW s \in Seq(S), NEW i \in DOMAIN s
  PROVE  s[i] \in S
OBVIOUS

LEMMA Shortened ==
  ASSUME NEW S, NEW s \in Seq(S), s # <<>>
  PROVE  /\ Tail(s) \in Seq(S) /\ Head(s) = s[1] /\ Head(s) \in S /\ 1 \in DOMAIN s
         /\ Len(Tail(s)) = Len(s) - 1 /\ DOMAIN Tail(s) = 1..(Len(s) - 1) /\ DOMAIN s = 1..Len(s)
         /\ Len(s) \in Nat /\ Len(s) > 0
         /\ \A i \in DOMAIN Tail(s) : i \in Nat /\ i + 1 \in DOMAIN s /\ Tail(s)[i] = s[i + 1]
OBVIOUS

LEMMA Drained ==
  ASSUME NEW S, NEW s \in Seq(S), NEW n \in Nat
  PROVE  /\ SubSeq(s, n + 1, Len(s)) \in Seq(S)
         /\ \A i \in DOMAIN SubSeq(s, n + 1, Len(s)) :
              i \in Nat /\ i + n \in DOMAIN s /\ SubSeq(s, n + 1, Len(s))[i] = s[i + n]
<1>1. Len(s) \in Nat /\ n + 1 \in Nat
  OBVIOUS
<1>2. SubSeq(s, n + 1, Len(s)) = [i \in 1..(Len(s) - n) |-> s[i + n]]
  BY <1>1
<1>3. \A i \in 1..(Len(s) - n) : i \in Nat /\ i + n \in DOMAIN s /\ s[i + n] \in S
  BY <1>1
<1>4. SubSeq(s, n + 1, Len(s)) \in Seq(S)
  BY <1>1, <1>3
<1>5. DOMAIN SubSeq(s, n + 1, Len(s)) = 1..(Len(s) - n)
  BY <1>2
<1> QED BY <1>2, <1>3, <1>4, <1>5

LEMMA TailOfAppend ==
  ASSUME NEW S, NEW s \in Seq(S), s # <<>>, NEW e \in S
  PROVE  Tail(Append(s, e)) = Append(Tail(s), e)
<1> DEFINE a == Append(s, e)
           t == Tail(s)
<1>1. /\ Len(s) \in Nat /\ Len(s) > 0 /\ a \in Seq(S) /\ Len(a) = Len(s) + 1 /\ a # <<>>
      /\ t \in Seq(S) /\ Len(t) = Len(s) - 1
  OBVIOUS
<1>2. Len(Tail(a)) = Len(Append(t, e)) /\ Tail(a) \in Seq(S) /\ Append(t, e) \in Seq(S)
  BY <1>1
<1>3. ASSUME NEW i \in 1..Len(Tail(a)) PROVE Tail(a)[i] = Append(t, e)[i]
  OBVIOUS
<1> QED BY <1>2, <1>3, SeqEqual

LEMMA OrderTypes ==
  ASSUME IInv
  PROVE  /\ socketQueue \in Seq(Packet) /\ request \in Seq(1..Messages)
         /\ buffer \in Seq(1..Messages) /\ handled \in Seq(1..Messages)
         /\ received \in Nat /\ Messages \in Nat
         /\ \A k \in DOMAIN socketQueue : socketQueue[k] \in Packet
         /\ \A p \in Packet : p \in Seq(1..Messages) /\ p # <<>> /\ 1 \in DOMAIN p /\ p[1] \in 1..Messages
<1>1. /\ socketQueue \in Seq(Packet) /\ request \in Seq(1..Messages)
      /\ buffer \in Seq(1..Messages) /\ handled \in Seq(1..Messages)
      /\ received \in Nat /\ Messages \in Nat
  BY MainAssumption DEF IInv, TypeOK, Packet
<1>2. \A k \in DOMAIN socketQueue : socketQueue[k] \in Packet
  BY <1>1
<1>3. ASSUME NEW p \in Packet
      PROVE  p \in Seq(1..Messages) /\ p # <<>> /\ 1 \in DOMAIN p /\ p[1] \in 1..Messages
  <2> DEFINE S == 1..Messages
  <2>1. p \in Seq(S) /\ p # <<>>
    BY DEF Packet
  <2> HIDE DEF S
  <2>2. 1 \in DOMAIN p /\ p[1] \in S
    BY <2>1
  <2> QED BY <2>1, <2>2 DEF S
<1> QED BY <1>1, <1>2, <1>3

(* What is read is younger than everything else.                           *)
LEMMA ReceiveOrder ==
  ASSUME IInv, OrderInv, receive
  PROVE  OrderInv'
<1>1. PICK n \in 1..MaxRead :
        /\ received + n <= Messages /\ buffer' = [i \in 1..n |-> received + i]
        /\ received' = received + n /\ heads' = heads \cup {received + 1}
  BY DEF receive
<1>2. UNCHANGED <<socketQueue, request, handled, worker>> /\ reader' = "push"
  BY DEF receive, workerVars
<1>3. n \in Nat /\ n >= 1 /\ received \in Nat
  BY OrderTypes, MainAssumption
<1>4. /\ \A k \in DOMAIN socketQueue : \A i \in DOMAIN socketQueue[k] : socketQueue[k][i] \in Nat
      /\ \A i \in DOMAIN request : request[i] \in Nat
      /\ \A i \in DOMAIN handled : handled[i] \in Nat
      /\ \A k \in DOMAIN socketQueue : 1 \in DOMAIN socketQueue[k]
      /\ worker = "handle" => 1 \in DOMAIN request
  <2>1. ASSUME NEW s \in Seq(1..Messages), NEW i \in DOMAIN s PROVE s[i] \in Nat
    <3>1. s[i] \in 1..Messages
      BY ElementOf
    <3> QED BY <3>1
  <2>2. worker = "handle" => request # <<>>
    BY DEF IInv, NothingEmpty
  <2> QED BY <2>1, <2>2, OrderTypes
<1>5. AllBelow(received + 1) /\ heads \subseteq 1..received
  BY DEF OrderInv, ReadInOrder
<1>6. ReadInOrder'
  <2>1. heads' \subseteq 1..received'
    BY <1>1, <1>3, <1>5
  <2>2. buffer'[1] = received + 1 /\ Below(buffer', received' + 1)
    BY <1>1, <1>3 DEF Below
  <2>3. received + n + 1 \in Nat /\ received + n + 1 >= received + 1
    BY <1>3
  <2>4. AllBelow(received + 1)'
    <3>1. AllBelow(received + n + 1)
      BY <1>3, <1>4, <1>5, <2>3 DEF AllBelow, Below
    <3>2. /\ \A k \in DOMAIN socketQueue' : Below(socketQueue'[k], received' + 1)
          /\ Below(request', received' + 1) /\ Below(handled', received' + 1)
      BY <1>1, <1>2, <3>1 DEF AllBelow, Below
    <3> QED BY <3>2 DEF AllBelow
  <2>5. /\ \A k \in DOMAIN socketQueue' : Below(socketQueue'[k], buffer'[1])
        /\ Below(request', buffer'[1]) /\ Below(handled', buffer'[1])
    BY <1>2, <1>5, <2>2 DEF AllBelow, Below
  <2>6. AllBelow(buffer[1])'
    BY <2>5 DEF AllBelow
  <2> QED BY <2>1, <2>2, <2>4, <2>6 DEF ReadInOrder
<1>7. RestsHaveNoHeads'
  <2>1. RestHasNoHead(buffer)'
    BY <1>1, <1>3, <1>5 DEF RestHasNoHead
  <2>2. \A x \in Nat : x < received + 1 => (x \in heads' <=> x \in heads)
    BY <1>1, <1>3
  <2>3. RestHasNoHead(request)'
    BY <1>2, <1>4, <1>5, <2>2 DEF RestHasNoHead, AllBelow, Below, OrderInv, RestsHaveNoHeads
  <2>4. \A k \in DOMAIN socketQueue' : RestHasNoHead(socketQueue[k])'
    BY <1>2, <1>4, <1>5, <2>2 DEF RestHasNoHead, AllBelow, Below, OrderInv, RestsHaveNoHeads
  <2> QED BY <2>1, <2>3, <2>4 DEF RestsHaveNoHeads
<1>8. Queued'
  <2>1. ASSUME NEW x \in Nat, NEW y \in Nat, x < received + 1, y < received + 1, Earlier(x, y)
        PROVE  x \in heads' /\ y \in heads' => x < y
    BY <1>1, <1>3, <2>1 DEF Earlier
  <2>2. Queued
    BY DEF OrderInv
  <2> QED BY <1>2, <1>4, <1>5, <2>1, <2>2 DEF Queued, Earlier, AllBelow, Below
<1> QED BY <1>6, <1>7, <1>8 DEF OrderInv

(* What is pushed goes behind everything that was read before.             *)
LEMMA PushOrder ==
  ASSUME IInv, OrderInv, ReaderPushes
  PROVE  OrderInv'
<1> DEFINE q == socketQueue
           r == Append(q, buffer)
<1>1. /\ socketQueue' = r /\ buffer' = <<>> /\ reader = "push" /\ reader' = "test"
      /\ UNCHANGED <<received, heads, request, handled, worker>>
  BY DEF ReaderPushes, workerVars
<1>2. q \in Seq(Packet) /\ buffer \in Packet
  BY <1>1, OrderTypes DEF IInv, NothingEmpty, Packet
<1>3. /\ r \in Seq(Packet) /\ DOMAIN r = 1..(Len(q) + 1) /\ Len(q) \in Nat /\ DOMAIN q = 1..Len(q)
      /\ \A k \in 1..(Len(q) + 1) :
           (k \in DOMAIN q /\ r[k] = q[k]) \/ (k = Len(q) + 1 /\ r[k] = buffer)
  BY <1>2, Appended
<1> HIDE DEF r
<1>4. /\ AllBelow(received + 1) /\ Below(buffer, received + 1) /\ heads \subseteq 1..received
      /\ AllBelow(buffer[1])
  BY <1>1 DEF OrderInv, ReadInOrder
<1>5. ReadInOrder'
  <2>1. /\ \A k \in DOMAIN r : Below(r[k], received + 1)
        /\ Below(request, received + 1) /\ Below(handled, received + 1)
    BY <1>3, <1>4 DEF AllBelow
  <2>2. AllBelow(received + 1)'
    BY <1>1, <2>1 DEF AllBelow, Below
  <2>3. Below(buffer', received + 1)
    BY <1>1 DEF Below
  <2> QED BY <1>1, <1>4, <2>2, <2>3 DEF ReadInOrder
<1>6. RestsHaveNoHeads'
  <2>1. /\ \A k \in DOMAIN q : RestHasNoHead(q[k])
        /\ RestHasNoHead(request) /\ RestHasNoHead(buffer)
    BY DEF OrderInv, RestsHaveNoHeads
  <2>2. \A k \in DOMAIN r : RestHasNoHead(r[k])
    BY <1>3, <2>1
  <2>3. RestHasNoHead(<<>>)
    BY DEF RestHasNoHead
  <2> QED BY <1>1, <2>1, <2>2, <2>3 DEF RestsHaveNoHeads, RestHasNoHead
<1>7. Queued'
  <2>1. Queued
    BY DEF OrderInv
  <2>2. /\ \A k \in DOMAIN q : q[k][1] < buffer[1]
        /\ worker = "handle" => request[1] < buffer[1]
        /\ \A i \in DOMAIN handled : handled[i] < buffer[1]
    <3>1. \A k \in DOMAIN q : 1 \in DOMAIN q[k]
      BY OrderTypes
    <3>2. worker = "handle" => 1 \in DOMAIN request
      BY OrderTypes DEF IInv, NothingEmpty
    <3> QED BY <1>4, <3>1, <3>2 DEF AllBelow, Below
  <2>3. \A k, l \in DOMAIN r : k < l => Earlier(r[k][1], r[l][1])
    <3> SUFFICES ASSUME NEW k \in DOMAIN r, NEW l \in DOMAIN r, k < l
                 PROVE  Earlier(r[k][1], r[l][1])
      OBVIOUS
    <3>1. k \in DOMAIN q /\ r[k] = q[k]
      BY <1>3
    <3>2. CASE l \in DOMAIN q /\ r[l] = q[l]
      BY <2>1, <3>1, <3>2 DEF Queued
    <3>3. CASE l = Len(q) + 1 /\ r[l] = buffer
      BY <2>2, <3>1, <3>3 DEF Earlier
    <3> QED BY <1>3, <3>2, <3>3
  <2>4. \A i \in DOMAIN handled : \A k \in DOMAIN r :
          k > 1 \/ worker # "pop" => Earlier(handled[i], r[k][1])
    <3> SUFFICES ASSUME NEW i \in DOMAIN handled, NEW k \in DOMAIN r, k > 1 \/ worker # "pop"
                 PROVE  Earlier(handled[i], r[k][1])
      OBVIOUS
    <3>1. CASE k \in DOMAIN q /\ r[k] = q[k]
      BY <2>1, <3>1 DEF Queued
    <3>2. CASE k = Len(q) + 1 /\ r[k] = buffer
      BY <2>2, <3>2 DEF Earlier
    <3> QED BY <1>3, <3>1, <3>2
  <2>5. worker = "handle" => \A k \in DOMAIN r : k > 1 => Earlier(request[1], r[k][1])
    <3> SUFFICES ASSUME worker = "handle", NEW k \in DOMAIN r, k > 1
                 PROVE  Earlier(request[1], r[k][1])
      OBVIOUS
    <3>1. CASE k \in DOMAIN q /\ r[k] = q[k]
      BY <2>1, <3>1 DEF Queued
    <3>2. CASE k = Len(q) + 1 /\ r[k] = buffer
      BY <2>2, <3>2 DEF Earlier
    <3> QED BY <1>3, <3>1, <3>2
  <2> HIDE DEF q
  <2> QED BY <1>1, <2>1, <2>3, <2>4, <2>5 DEF Queued, Earlier
<1> QED BY <1>5, <1>6, <1>7 DEF OrderInv

(* What is handled is older than what waits, and what is split off has no  *)
(* head to be overtaken by.                                                *)
LEMMA HandleOrder ==
  ASSUME IInv, OrderInv, simple_action
  PROVE  OrderInv'
<1> DEFINE q == socketQueue
           t == Tail(request)
           h == Append(handled, request[1])
<1>1. /\ worker = "handle" /\ worker' = "pop" /\ request # <<>>
      /\ handled' = Append(handled, Head(request))
      /\ socketQueue' = IF Len(request) > 1 THEN Append(q, t) ELSE q
      /\ UNCHANGED <<received, heads, reader, buffer, request>>
  BY DEF simple_action, readerVars, IInv, NothingEmpty
<1>2. /\ q \in Seq(Packet) /\ request \in Seq(1..Messages) /\ handled \in Seq(1..Messages)
  BY OrderTypes
<1>3. /\ t \in Seq(1..Messages) /\ Head(request) = request[1] /\ request[1] \in 1..Messages
      /\ 1 \in DOMAIN request
      /\ \A i \in DOMAIN t : i \in Nat /\ i + 1 \in DOMAIN request /\ i + 1 > 1 /\ t[i] = request[i + 1]
  <2> DEFINE S == 1..Messages
  <2>1. request \in Seq(S) /\ request # <<>>
    BY <1>1, <1>2
  <2> HIDE DEF S
  <2>2. /\ t \in Seq(S) /\ Head(request) = request[1] /\ request[1] \in S
        /\ 1 \in DOMAIN request
        /\ \A i \in DOMAIN t : i \in Nat /\ i + 1 \in DOMAIN request /\ t[i] = request[i + 1]
    BY <2>1, Shortened
  <2> QED BY <2>2 DEF S
<1>4. /\ DOMAIN h = 1..(Len(handled) + 1) /\ Len(handled) \in Nat /\ DOMAIN handled = 1..Len(handled)
      /\ \A i \in 1..(Len(handled) + 1) :
           \/ i \in DOMAIN handled /\ h[i] = handled[i]
           \/ i = Len(handled) + 1 /\ h[i] = request[1]
  BY <1>2, <1>3, Appended
<1>5. handled' = h
  BY <1>1, <1>3
<1> HIDE DEF h, t
<1>6. \A k \in DOMAIN socketQueue' :
        \/ k \in DOMAIN q /\ socketQueue'[k] = q[k]
        \/ /\ socketQueue'[k] = t /\ 1 \in DOMAIN t
           /\ \A l \in DOMAIN q : l < k
  <2>1. CASE Len(request) > 1
    <3>1. t \in Packet
      BY <1>2, <2>1, RestIsPacket DEF t
    <3>2. socketQueue' = Append(q, t)
      BY <1>1, <2>1
    <3>3. /\ DOMAIN Append(q, t) = 1..(Len(q) + 1) /\ Len(q) \in Nat /\ DOMAIN q = 1..Len(q)
          /\ \A k \in 1..(Len(q) + 1) :
               \/ k \in DOMAIN q /\ Append(q, t)[k] = q[k]
               \/ k = Len(q) + 1 /\ Append(q, t)[k] = t
      BY <1>2, <3>1, Appended
    <3>4. 1 \in DOMAIN t
      BY <3>1, OrderTypes
    <3>5. \A l \in DOMAIN q : l < Len(q) + 1
      BY <3>3
    <3> HIDE DEF q
    <3> QED BY <3>2, <3>3, <3>4, <3>5
  <2>2. CASE ~(Len(request) > 1)
    BY <1>1, <2>2
  <2> QED BY <2>1, <2>2
<1>7. /\ RestHasNoHead(request) /\ RestHasNoHead(buffer)
      /\ \A k \in DOMAIN q : RestHasNoHead(q[k])
  BY DEF OrderInv, RestsHaveNoHeads
<1>8. \A i \in DOMAIN t : t[i] \notin heads
  BY <1>3, <1>7 DEF RestHasNoHead
<1>9. ReadInOrder'
  <2>1. ASSUME NEW b, AllBelow(b)
        PROVE  /\ \A k \in DOMAIN socketQueue' : Below(socketQueue'[k], b)
               /\ Below(request', b) /\ Below(handled', b)
    <3>1. \A i \in DOMAIN request : request[i] < b
      BY <2>1 DEF AllBelow, Below
    <3>2. Below(t, b)
      BY <1>3, <3>1 DEF Below
    <3>3. Below(h, b)
      BY <1>3, <1>4, <2>1, <3>1 DEF AllBelow, Below
    <3>4. \A k \in DOMAIN socketQueue' : Below(socketQueue'[k], b)
      BY <1>6, <2>1, <3>2 DEF AllBelow
    <3> QED BY <1>1, <1>5, <2>1, <3>3, <3>4 DEF AllBelow
  <2>2. AllBelow(received + 1)'
    <3>1. AllBelow(received + 1)
      BY DEF OrderInv, ReadInOrder
    <3> QED BY <1>1, <2>1, <3>1 DEF AllBelow
  <2>3. ASSUME reader' = "push" PROVE AllBelow(buffer[1])'
    <3>1. AllBelow(buffer[1])
      BY <1>1, <2>3 DEF OrderInv, ReadInOrder
    <3> QED BY <1>1, <2>1, <3>1 DEF AllBelow
  <2>4. heads \subseteq 1..received /\ Below(buffer, received + 1)
    BY DEF OrderInv, ReadInOrder
  <2> QED BY <1>1, <2>2, <2>3, <2>4 DEF ReadInOrder
<1>10. RestsHaveNoHeads'
  <2>1. RestHasNoHead(t)
    BY <1>8 DEF RestHasNoHead
  <2>2. \A k \in DOMAIN socketQueue' : RestHasNoHead(socketQueue'[k])
    BY <1>6, <1>7, <2>1
  <2> QED BY <1>1, <1>7, <2>2 DEF RestsHaveNoHeads, RestHasNoHead
<1>11. Queued'
  <2>1. Queued
    BY DEF OrderInv
  <2>2. \A i, j \in DOMAIN h : i < j => Earlier(h[i], h[j])
    <3> SUFFICES ASSUME NEW i \in DOMAIN h, NEW j \in DOMAIN h, i < j
                 PROVE  Earlier(h[i], h[j])
      OBVIOUS
    <3>1. i \in DOMAIN handled /\ h[i] = handled[i]
      BY <1>4
    <3>2. CASE j \in DOMAIN handled /\ h[j] = handled[j]
      BY <2>1, <3>1, <3>2 DEF Queued
    <3>3. CASE h[j] = request[1]
      BY <1>1, <2>1, <3>1, <3>3 DEF Queued
    <3> QED BY <1>4, <3>2, <3>3
  <2>3. \A k, l \in DOMAIN socketQueue' : k < l => Earlier(socketQueue'[k][1], socketQueue'[l][1])
    <3> SUFFICES ASSUME NEW k \in DOMAIN socketQueue', NEW l \in DOMAIN socketQueue', k < l
                 PROVE  Earlier(socketQueue'[k][1], socketQueue'[l][1])
      OBVIOUS
    <3>1. CASE k \in DOMAIN q /\ socketQueue'[k] = q[k] /\ l \in DOMAIN q /\ socketQueue'[l] = q[l]
      BY <2>1, <3>1 DEF Queued
    <3>2. CASE socketQueue'[k][1] \notin heads \/ socketQueue'[l][1] \notin heads
      BY <3>2 DEF Earlier
    <3> QED BY <1>6, <1>8, <3>1, <3>2
  <2>4. \A i \in DOMAIN h : \A k \in DOMAIN socketQueue' :
          k > 1 => Earlier(h[i], socketQueue'[k][1])
    <3> SUFFICES ASSUME NEW i \in DOMAIN h, NEW k \in DOMAIN socketQueue', k > 1
                 PROVE  Earlier(h[i], socketQueue'[k][1])
      OBVIOUS
    <3>1. CASE socketQueue'[k][1] \notin heads
      BY <3>1 DEF Earlier
    <3>2. CASE k \in DOMAIN q /\ socketQueue'[k] = q[k]
      <4>1. CASE i \in DOMAIN handled /\ h[i] = handled[i]
        BY <1>1, <2>1, <3>2, <4>1 DEF Queued
      <4>2. CASE h[i] = request[1]
        BY <1>1, <2>1, <3>2, <4>2 DEF Queued
      <4> QED BY <1>4, <4>1, <4>2
    <3> QED BY <1>6, <1>8, <3>1, <3>2
  <2> QED BY <1>1, <1>5, <2>2, <2>3, <2>4 DEF Queued, Earlier
<1> QED BY <1>9, <1>10, <1>11 DEF OrderInv

(* The worker's copy is the oldest of what waits.                          *)
LEMMA CopyOrder ==
  ASSUME IInv, OrderInv, WorkerCopies
  PROVE  OrderInv'
<1>1. /\ worker = "front" /\ worker' = "handle" /\ request' = Head(socketQueue) /\ socketQueue # <<>>
      /\ UNCHANGED <<received, heads, reader, buffer, socketQueue, handled>>
  BY DEF WorkerCopies, readerVars
<1>2. request' = socketQueue[1] /\ 1 \in DOMAIN socketQueue
  BY <1>1, OrderTypes, Shortened
<1>3. \A k \in DOMAIN socketQueue : k \in Nat
  BY OrderTypes
<1>4. ReadInOrder'
  <2>1. ASSUME NEW b, AllBelow(b)
        PROVE  /\ \A k \in DOMAIN socketQueue' : Below(socketQueue'[k], b)
               /\ Below(request', b) /\ Below(handled', b)
    BY <1>1, <1>2, <2>1 DEF AllBelow
  <2>2. AllBelow(received + 1)'
    <3>1. AllBelow(received + 1)
      BY DEF OrderInv, ReadInOrder
    <3> QED BY <1>1, <2>1, <3>1 DEF AllBelow
  <2>3. ASSUME reader' = "push" PROVE AllBelow(buffer[1])'
    <3>1. AllBelow(buffer[1])
      BY <1>1, <2>3 DEF OrderInv, ReadInOrder
    <3> QED BY <1>1, <2>1, <3>1 DEF AllBelow
  <2>4. heads \subseteq 1..received /\ Below(buffer, received + 1)
    BY DEF OrderInv, ReadInOrder
  <2> QED BY <1>1, <2>2, <2>3, <2>4 DEF ReadInOrder
<1>5. RestsHaveNoHeads'
  BY <1>1, <1>2 DEF OrderInv, RestsHaveNoHeads, RestHasNoHead
<1>6. Queued'
  <2>1. Queued
    BY DEF OrderInv
  <2> QED BY <1>1, <1>2, <1>3, <2>1 DEF Queued, Earlier
<1> QED BY <1>4, <1>5, <1>6 DEF OrderInv

(* Packets leave at the front, one by the worker or several when main      *)
(* drains the queue.                                                       *)
LEMMA LeaveOrder ==
  ASSUME IInv, OrderInv, NEW n \in Nat,
         \/ worker' = worker
         \/ n = 1 /\ worker' \notin {"pop", "handle"},
         \A k \in DOMAIN socketQueue' :
           k \in Nat \ {0} /\ k + n \in DOMAIN socketQueue /\ socketQueue'[k] = socketQueue[k + n],
         UNCHANGED <<received, heads, reader, buffer, request, handled>>
  PROVE  OrderInv'
<1>1. \A k \in DOMAIN socketQueue : k \in Nat /\ k >= 1
  BY OrderTypes
<1>2. \A k \in DOMAIN socketQueue' : /\ k \in Nat \ {0} /\ k + n \in DOMAIN socketQueue /\ k + n >= k
                                     /\ socketQueue'[k] = socketQueue[k + n]
  OBVIOUS
<1>3. ReadInOrder'
  <2>1. ASSUME NEW b, AllBelow(b)
        PROVE  /\ \A k \in DOMAIN socketQueue' : Below(socketQueue'[k], b)
               /\ Below(request', b) /\ Below(handled', b)
    BY <1>2, <2>1 DEF AllBelow
  <2>2. AllBelow(received + 1)'
    <3>1. AllBelow(received + 1)
      BY DEF OrderInv, ReadInOrder
    <3> QED BY <2>1, <3>1 DEF AllBelow
  <2>3. ASSUME reader' = "push" PROVE AllBelow(buffer[1])'
    <3>1. AllBelow(buffer[1])
      BY <2>3 DEF OrderInv, ReadInOrder
    <3> QED BY <2>1, <3>1 DEF AllBelow
  <2>4. heads \subseteq 1..received /\ Below(buffer, received + 1)
    BY DEF OrderInv, ReadInOrder
  <2> QED BY <2>2, <2>3, <2>4 DEF ReadInOrder
<1>4. RestsHaveNoHeads'
  BY <1>2 DEF OrderInv, RestsHaveNoHeads, RestHasNoHead
<1>5. Queued'
  <2>1. Queued
    BY DEF OrderInv
  <2>2. \A k, l \in DOMAIN socketQueue' : k < l => Earlier(socketQueue'[k][1], socketQueue'[l][1])
    <3> SUFFICES ASSUME NEW k \in DOMAIN socketQueue', NEW l \in DOMAIN socketQueue', k < l
                 PROVE  Earlier(socketQueue'[k][1], socketQueue'[l][1])
      OBVIOUS
    <3>1. k + n < l + n
      BY <1>2
    <3> QED BY <1>2, <2>1, <3>1 DEF Queued
  <2>3. \A i \in DOMAIN handled : \A k \in DOMAIN socketQueue' :
          k > 1 \/ worker' # "pop" => Earlier(handled[i], socketQueue'[k][1])
    <3> SUFFICES ASSUME NEW i \in DOMAIN handled, NEW k \in DOMAIN socketQueue',
                        k > 1 \/ worker' # "pop"
                 PROVE  Earlier(handled[i], socketQueue'[k][1])
      OBVIOUS
    <3>1. k + n > 1 \/ worker # "pop"
      <4>1. k \in Nat \ {0} /\ (n = 1 => k + n > 1) /\ (k > 1 => k + n > 1)
        BY <1>2
      <4> QED BY <4>1
    <3> QED BY <1>2, <2>1, <3>1 DEF Queued
  <2>4. worker' = "handle" => \A k \in DOMAIN socketQueue' : k > 1 => Earlier(request[1], socketQueue'[k][1])
    <3> SUFFICES ASSUME worker' = "handle", NEW k \in DOMAIN socketQueue', k > 1
                 PROVE  Earlier(request[1], socketQueue'[k][1])
      OBVIOUS
    <3>1. worker = "handle" /\ k + n > 1
      BY <1>1, <1>2
    <3> QED BY <1>2, <2>1, <3>1 DEF Queued
  <2>5. worker' = "handle" => \A i \in DOMAIN handled : Earlier(handled[i], request[1])
    BY <2>1 DEF Queued
  <2> QED BY <2>1, <2>2, <2>3, <2>4, <2>5 DEF Queued, Earlier
<1> QED BY <1>3, <1>4, <1>5 DEF OrderInv

LEMMA RestOrder ==
  ASSUME OrderInv, UNCHANGED <<received, heads, buffer, socketQueue, handled>>,
         reader' = reader \/ reader' # "push",
         \/ UNCHANGED <<worker, request>>
         \/ worker # "pop" /\ worker' # "handle" /\ (request' = request \/ request' = <<>>)
  PROVE  OrderInv'
<1>1. ReadInOrder'
  <2>1. ASSUME NEW b, AllBelow(b)
        PROVE  /\ \A k \in DOMAIN socketQueue' : Below(socketQueue'[k], b)
               /\ Below(request', b) /\ Below(handled', b)
    BY <2>1 DEF AllBelow, Below
  <2>2. AllBelow(received + 1)'
    <3>1. AllBelow(received + 1)
      BY DEF OrderInv, ReadInOrder
    <3> QED BY <2>1, <3>1 DEF AllBelow
  <2>3. ASSUME reader' = "push" PROVE AllBelow(buffer[1])'
    <3>1. AllBelow(buffer[1])
      BY <2>3 DEF OrderInv, ReadInOrder
    <3> QED BY <2>1, <3>1 DEF AllBelow
  <2>4. heads \subseteq 1..received /\ Below(buffer, received + 1)
    BY DEF OrderInv, ReadInOrder
  <2> QED BY <2>2, <2>3, <2>4 DEF ReadInOrder
<1>2. RestsHaveNoHeads'
  BY DEF OrderInv, RestsHaveNoHeads, RestHasNoHead
<1>3. Queued'
  BY DEF OrderInv, Queued, Earlier
<1> QED BY <1>1, <1>2, <1>3 DEF OrderInv

LEMMA StepOrder ==
  ASSUME IInv, OrderInv, [Next]_vars
  PROVE  OrderInv'
<1>1. CASE Reader
  <2>1. CASE receive
    BY <2>1, ReceiveOrder
  <2>2. CASE ReaderPushes
    BY <2>2, PushOrder
  <2>3. CASE ReaderStarts \/ ReaderTests \/ receive_Closed \/ receive_Fails \/ ReaderEnds
    <3>1. /\ UNCHANGED <<received, heads, buffer, socketQueue, handled, worker, request>>
          /\ reader' = reader \/ reader' # "push"
      BY <2>3 DEF ReaderStarts, ReaderTests, receive_Closed, receive_Fails, ReaderEnds,
                  readerVars, workerVars
    <3> QED BY <3>1, RestOrder
  <2> QED BY <1>1, <2>1, <2>2, <2>3 DEF Reader
<1>2. CASE Worker
  <2>1. CASE simple_action
    BY <2>1, HandleOrder
  <2>2. CASE WorkerCopies
    BY <2>2, CopyOrder
  <2>3. CASE WorkerPops
    <3>1. /\ worker' = "delete" /\ socketQueue # <<>> /\ socketQueue' = Tail(socketQueue)
          /\ UNCHANGED <<received, heads, reader, buffer, request, handled>>
      BY <2>3 DEF WorkerPops, readerVars
    <3>2. /\ socketQueue' \in Seq(Packet)
          /\ \A k \in DOMAIN socketQueue' :
               k \in Nat /\ k + 1 \in DOMAIN socketQueue /\ socketQueue'[k] = socketQueue[k + 1]
      BY <3>1, OrderTypes, Shortened
    <3>3. \A k \in DOMAIN socketQueue' : k \in Nat \ {0}
      BY <3>2
    <3> QED BY <3>1, <3>2, <3>3, LeaveOrder
  <2>4. CASE WorkerDeletes
    <3>1. /\ worker # "pop" /\ worker' # "handle" /\ request' = <<>>
          /\ UNCHANGED <<received, heads, buffer, socketQueue, handled, reader>>
      BY <2>4 DEF WorkerDeletes, readerVars
    <3> QED BY <3>1, RestOrder
  <2>5. CASE WorkerTests \/ WorkerLooks \/ WorkerCrashes
    <3>1. /\ UNCHANGED <<received, heads, buffer, socketQueue, handled, reader, request>>
          /\ worker' = worker \/ (worker # "pop" /\ worker' # "handle")
      BY <2>5 DEF WorkerTests, WorkerLooks, WorkerCrashes, readerVars, workerVars
    <3> QED BY <3>1, RestOrder
  <2> QED BY <1>2, <2>1, <2>2, <2>3, <2>4, <2>5 DEF Worker
<1>3. CASE Main
  <2>1. CASE MainDrains
    <3> DEFINE n == (Len(socketQueue) + 1) \div 2
    <3>1. /\ socketQueue' = SubSeq(socketQueue, n + 1, Len(socketQueue))
          /\ UNCHANGED <<received, heads, reader, buffer, request, handled, worker>>
      BY <2>1 DEF MainDrains, readerVars, workerVars
    <3>2. n \in Nat
      BY OrderTypes
    <3> HIDE DEF n
    <3>3. /\ socketQueue' \in Seq(Packet)
          /\ \A k \in DOMAIN socketQueue' :
               k \in Nat /\ k + n \in DOMAIN socketQueue /\ socketQueue'[k] = socketQueue[k + n]
      BY <3>1, <3>2, OrderTypes, Drained
    <3>4. \A k \in DOMAIN socketQueue' : k \in Nat \ {0}
      BY <3>3
    <3> QED BY <3>1, <3>2, <3>3, <3>4, LeaveOrder
  <2>2. CASE MainInput \/ MainDeletes \/ MainExits
    <3>1. UNCHANGED <<received, heads, buffer, socketQueue, handled, worker, request, reader>>
      BY <2>2 DEF MainInput, MainDeletes, MainExits, readerVars, workerVars
    <3> QED BY <3>1, RestOrder
  <2> QED BY <1>3, <2>1, <2>2 DEF Main
<1>4. CASE UNCHANGED vars
  <2>1. UNCHANGED <<received, heads, buffer, socketQueue, handled, worker, request, reader>>
    BY <1>4 DEF vars, readerVars, workerVars
  <2> QED BY <2>1, RestOrder
<1> QED BY <1>1, <1>2, <1>3, <1>4 DEF Next

LEMMA InitOrder == Init => OrderInv
<1> SUFFICES ASSUME Init PROVE OrderInv
  OBVIOUS
<1>1. /\ socketQueue = <<>> /\ buffer = <<>> /\ request = <<>> /\ handled = <<>>
      /\ received = 0 /\ heads = {} /\ reader = "start" /\ worker = "test"
  BY DEF Init
<1>2. ReadInOrder
  BY <1>1 DEF ReadInOrder, AllBelow, Below
<1>3. RestsHaveNoHeads
  BY <1>1 DEF RestsHaveNoHeads, RestHasNoHead
<1>4. Queued
  BY <1>1 DEF Queued
<1> QED BY <1>2, <1>3, <1>4 DEF OrderInv

(* Of the messages that came first in a read the one read first is handled *)
(* first, whatever the sizes of the reads and however often a rest is      *)
(* queued again in between (HeadsInOrder).                                 *)
THEOREM FirstReadFirstHandled == Spec => []HeadsInOrder
<1>1. OrderInv => HeadsInOrder
  BY DEF OrderInv, Queued, Earlier, HeadsInOrder
<1>2. IInv /\ OrderInv /\ [Next]_vars => OrderInv'
  BY StepOrder
<1> QED BY <1>1, <1>2, InitOrder, Invariance, PTL DEF Spec

-----------------------------------------------------------------------------
(* Where a message is: with the reader, handled, or in a packet that is    *)
(* still to be handled.  There is one place for each that was read.        *)
OnePlace(H, n) ==
  /\ \A k, l \in DOMAIN H : \A i \in DOMAIN H[k] : \A j \in DOMAIN H[l] :
       H[k][i] = H[l][j] => k = l /\ i = j
  /\ \A m \in 1..n : \E k \in DOMAIN H : \E i \in DOMAIN H[k] : H[k][i] = m

Held == <<buffer, handled>> \o ToBeHandled

PlaceInv ==
  /\ reader # "push" => buffer = <<>>
  /\ Sound => OnePlace(Held, received)

LEMMA HeldIs ==
  ASSUME NEW S, NEW b \in Seq(S), NEW h \in Seq(S), NEW t \in Seq(Seq(S))
  PROVE  /\ DOMAIN (<<b, h>> \o t) = 1..(Len(t) + 2) /\ Len(t) \in Nat
         /\ (<<b, h>> \o t)[1] = b /\ (<<b, h>> \o t)[2] = h
         /\ \A k \in 3..(Len(t) + 2) : (<<b, h>> \o t)[k] = t[k - 2]
<1>1. <<b, h>> \in Seq(Seq(S)) /\ Len(<<b, h>>) = 2 /\ <<b, h>>[1] = b /\ <<b, h>>[2] = h
  OBVIOUS
<1>2. /\ <<b, h>> \o t \in Seq(Seq(S)) /\ Len(<<b, h>> \o t) = 2 + Len(t)
      /\ Len(t) \in Nat
      /\ \A k \in 1..(2 + Len(t)) :
           (<<b, h>> \o t)[k] = IF k <= 2 THEN <<b, h>>[k] ELSE t[k - 2]
  BY <1>1, ConcatProperties
<1> DEFINE c == <<b, h>> \o t
<1>3. DOMAIN c = 1..(Len(t) + 2)
  BY <1>2
<1> HIDE DEF c
<1>4. c[1] = b /\ c[2] = h /\ \A k \in 3..(Len(t) + 2) : c[k] = t[k - 2]
  BY <1>1, <1>2 DEF c
<1> QED BY <1>2, <1>3, <1>4 DEF c

LEMMA OneOf ==
  ASSUME NEW H, NEW r, OnePlace(H, r), NEW a, NEW b, NEW x, NEW y,
         a \in DOMAIN H, b \in DOMAIN H[a], x \in DOMAIN H, y \in DOMAIN H[x], H[a][b] = H[x][y]
  PROVE  a = x /\ b = y
BY DEF OnePlace

(* New messages with the reader.                                           *)
LEMMA PlacesRead ==
  ASSUME NEW H, NEW G, NEW r \in Nat, NEW n \in Nat, NEW d \in Nat, OnePlace(H, r),
         DOMAIN H = 1..(d + 2), DOMAIN G = 1..(d + 2), H[1] = <<>>,
         G[1] = [i \in 1..n |-> r + i],
         \A k \in 2..(d + 2) : G[k] = H[k] /\ \A i \in DOMAIN H[k] : H[k][i] \in 1..r
  PROVE  OnePlace(G, r + n)
<1>1. ASSUME NEW k \in DOMAIN G, NEW l \in DOMAIN G, NEW i \in DOMAIN G[k], NEW j \in DOMAIN G[l],
             G[k][i] = G[l][j]
      PROVE  k = l /\ i = j
  <2>1. CASE k # 1 /\ l # 1
    <3>1. k \in 2..(d + 2) /\ l \in 2..(d + 2)
      BY <2>1
    <3> QED BY <1>1, <3>1 DEF OnePlace
  <2>2. CASE k = 1 /\ l = 1
    BY <1>1, <2>2
  <2>3. CASE k = 1 /\ l # 1
    <3>1. G[k][i] > r /\ l \in 2..(d + 2)
      BY <2>3
    <3>2. G[l][j] \in 1..r
      BY <3>1
    <3> QED BY <1>1, <3>1, <3>2
  <2>4. CASE k # 1 /\ l = 1
    <3>1. G[l][j] > r /\ k \in 2..(d + 2)
      BY <2>4
    <3>2. G[k][i] \in 1..r
      BY <3>1
    <3> QED BY <1>1, <3>1, <3>2
  <2> QED BY <2>1, <2>2, <2>3, <2>4
<1>2. ASSUME NEW m \in 1..(r + n)
      PROVE  \E k \in DOMAIN G : \E i \in DOMAIN G[k] : G[k][i] = m
  <2>1. CASE m <= r
    <3>1. PICK k \in DOMAIN H : \E i \in DOMAIN H[k] : H[k][i] = m
      BY <2>1 DEF OnePlace
    <3>2. k \in 2..(d + 2)
      BY <3>1
    <3> QED BY <3>1, <3>2
  <2>2. CASE m > r
    <3>1. m - r \in 1..n /\ 1 \in DOMAIN G /\ r + (m - r) = m
      BY <2>2
    <3> QED BY <3>1
  <2> QED BY <2>1, <2>2
<1> QED BY <1>1, <1>2 DEF OnePlace

(* The packet of the reader becomes the last of the queue.                 *)
LEMMA PlacesPushed ==
  ASSUME NEW H, NEW G, NEW r, NEW d \in Nat, OnePlace(H, r),
         DOMAIN H = 1..(d + 2), DOMAIN G = 1..(d + 3), G[1] = <<>>, G[d + 3] = H[1],
         \A k \in 2..(d + 2) : G[k] = H[k]
  PROVE  OnePlace(G, r)
<1>1. \A k \in DOMAIN G : \/ k = 1
                          \/ k \in 2..(d + 2) /\ k \in DOMAIN H /\ G[k] = H[k]
                          \/ k = d + 3 /\ 1 \in DOMAIN H /\ G[k] = H[1]
  OBVIOUS
<1>2. ASSUME NEW k \in DOMAIN G, NEW l \in DOMAIN G, NEW i \in DOMAIN G[k], NEW j \in DOMAIN G[l],
             G[k][i] = G[l][j]
      PROVE  k = l /\ i = j
  <2>1. k # 1 /\ l # 1
    OBVIOUS
  <2>2. CASE k \in 2..(d + 2) /\ k \in DOMAIN H /\ G[k] = H[k]
    <3>1. CASE l \in 2..(d + 2) /\ l \in DOMAIN H /\ G[l] = H[l]
      BY <1>2, <2>2, <3>1 DEF OnePlace
    <3>2. CASE l = d + 3 /\ 1 \in DOMAIN H /\ G[l] = H[1]
      BY <1>2, <2>2, <3>2 DEF OnePlace
    <3> QED BY <1>1, <2>1, <3>1, <3>2
  <2>3. CASE k = d + 3 /\ 1 \in DOMAIN H /\ G[k] = H[1]
    <3>1. CASE l \in 2..(d + 2) /\ l \in DOMAIN H /\ G[l] = H[l]
      BY <1>2, <2>3, <3>1 DEF OnePlace
    <3>2. CASE l = d + 3 /\ 1 \in DOMAIN H /\ G[l] = H[1]
      BY <1>2, <2>3, <3>2 DEF OnePlace
    <3> QED BY <1>1, <2>1, <3>1, <3>2
  <2> QED BY <1>1, <2>1, <2>2, <2>3
<1>3. ASSUME NEW m \in 1..r
      PROVE  \E k \in DOMAIN G : \E i \in DOMAIN G[k] : G[k][i] = m
  <2>1. PICK k \in DOMAIN H : \E i \in DOMAIN H[k] : H[k][i] = m
    BY DEF OnePlace
  <2>2. CASE k = 1
    <3>1. d + 3 \in DOMAIN G
      OBVIOUS
    <3> QED BY <2>1, <2>2, <3>1
  <2>3. CASE k # 1
    <3>1. k \in 2..(d + 2) /\ k \in DOMAIN G
      BY <2>3
    <3> QED BY <2>1, <3>1
  <2> QED BY <2>2, <2>3
<1> QED BY <1>2, <1>3 DEF OnePlace

(* The front packet is taken apart: its first message is handled, the      *)
(* others are the last packet of the queue, if there are any.              *)
TakenApart(H, G, d, n, c) ==
  /\ DOMAIN H = 1..(d + 3) /\ H[1] = G[1]
  /\ DOMAIN H[2] = 1..n /\ DOMAIN G[2] = 1..(n + 1)
  /\ \A i \in 1..n : G[2][i] = H[2][i]
  /\ DOMAIN H[3] = 1..c /\ G[2][n + 1] = H[3][1]
  /\ \A k \in 3..(d + 2) : G[k] = H[k + 1]
  /\ \/ c = 1 /\ DOMAIN G = 1..(d + 2)
     \/ /\ c > 1 /\ DOMAIN G = 1..(d + 3) /\ DOMAIN G[d + 3] = 1..(c - 1)
        /\ \A i \in 1..(c - 1) : G[d + 3][i] = H[3][i + 1]

LEMMA PlacesHandled ==
  ASSUME NEW H, NEW G, NEW r, NEW d \in Nat, NEW n \in Nat, NEW c \in Nat \ {0}, OnePlace(H, r),
         TakenApart(H, G, d, n, c)
  PROVE  OnePlace(G, r)
<1> USE DEF TakenApart
<1> DEFINE From(k, i, a, b) ==
             \/ k = 1 /\ a = 1 /\ b = i
             \/ k = 2 /\ i \in 1..n /\ a = 2 /\ b = i
             \/ k = 2 /\ i = n + 1 /\ a = 3 /\ b = 1
             \/ k \in 3..(d + 2) /\ a = k + 1 /\ b = i
             \/ k = d + 3 /\ i \in 1..(c - 1) /\ a = 3 /\ b = i + 1
<1>1. ASSUME NEW k \in DOMAIN G, NEW i \in DOMAIN G[k]
      PROVE  \E a \in DOMAIN H : \E b \in DOMAIN H[a] : From(k, i, a, b) /\ G[k][i] = H[a][b]
  <2>1. CASE k = 1
    BY <2>1
  <2>2. CASE k = 2
    <3>1. i \in 1..n \/ i = n + 1
      BY <2>2
    <3>2. 2 \in DOMAIN H /\ 3 \in DOMAIN H /\ 1 \in DOMAIN H[3]
      OBVIOUS
    <3> QED BY <2>2, <3>1, <3>2
  <2>3. CASE k \in 3..(d + 2)
    <3>1. k + 1 \in DOMAIN H /\ G[k] = H[k + 1]
      BY <2>3
    <3> QED BY <2>3, <3>1
  <2>4. CASE k = d + 3
    <3>1. k # d + 2 /\ ~(k \in 1..(d + 2))
      BY <2>4
    <3>2. c > 1 /\ i \in 1..(c - 1) /\ G[k][i] = H[3][i + 1]
      BY <2>4, <3>1
    <3>3. 3 \in DOMAIN H /\ i + 1 \in DOMAIN H[3]
      BY <3>2
    <3> QED BY <2>4, <3>2, <3>3
  <2> QED BY <2>1, <2>2, <2>3, <2>4
<1>2. ASSUME NEW k \in Nat, NEW i, NEW l \in Nat, NEW j, NEW a, NEW b,
             From(k, i, a, b), From(l, j, a, b)
      PROVE  k = l /\ i = j
  <2>1. CASE k = 1 \/ l = 1
    BY <1>2, <2>1
  <2>2. CASE k # 1 /\ l # 1 /\ a = 3
    BY <1>2, <2>2
  <2>3. CASE k # 1 /\ l # 1 /\ a # 3
    BY <1>2, <2>3
  <2> QED BY <2>1, <2>2, <2>3
<1>3. /\ 1 \in DOMAIN G /\ 2 \in DOMAIN G
      /\ \A k \in DOMAIN G : k \in Nat
      /\ \A k \in 3..(d + 2) : k \in DOMAIN G
      /\ c > 1 => d + 3 \in DOMAIN G
  OBVIOUS
<1>4. ASSUME NEW k \in DOMAIN G, NEW l \in DOMAIN G, NEW i \in DOMAIN G[k], NEW j \in DOMAIN G[l],
             G[k][i] = G[l][j]
      PROVE  k = l /\ i = j
  <2>1. PICK a, b : a \in DOMAIN H /\ b \in DOMAIN H[a] /\ From(k, i, a, b) /\ G[k][i] = H[a][b]
    BY <1>1
  <2>2. PICK x, y : x \in DOMAIN H /\ y \in DOMAIN H[x] /\ From(l, j, x, y) /\ G[l][j] = H[x][y]
    BY <1>1
  <2> HIDE DEF From
  <2>3. a = x /\ b = y
    <3>1. H[a][b] = H[x][y]
      BY <1>4, <2>1, <2>2
    <3>2. a \in DOMAIN H /\ b \in DOMAIN H[a] /\ x \in DOMAIN H /\ y \in DOMAIN H[x]
      BY <2>1, <2>2
    <3> QED BY <3>1, <3>2, OneOf
  <2> QED BY <1>2, <1>3, <2>1, <2>2, <2>3
<1>5. ASSUME NEW m \in 1..r
      PROVE  \E k \in DOMAIN G : \E i \in DOMAIN G[k] : G[k][i] = m
  <2>1. PICK a \in DOMAIN H : \E b \in DOMAIN H[a] : H[a][b] = m
    BY DEF OnePlace
  <2>2. PICK b \in DOMAIN H[a] : H[a][b] = m
    BY <2>1
  <2>3. CASE a = 1
    BY <1>3, <2>2, <2>3
  <2>4. CASE a = 2
    <3>1. b \in 1..n /\ b \in 1..(n + 1)
      BY <2>4
    <3> QED BY <1>3, <2>2, <2>4, <3>1
  <2>5. CASE a = 3 /\ b = 1
    <3>1. n + 1 \in DOMAIN G[2] /\ G[2][n + 1] = m
      BY <2>2, <2>5
    <3> QED BY <1>3, <3>1
  <2>6. CASE a = 3 /\ b # 1
    <3>0. b \in 1..c
      BY <2>6
    <3>1. c > 1 /\ b - 1 \in 1..(c - 1) /\ (b - 1) + 1 = b
      BY <2>6, <3>0
    <3>2. DOMAIN G[d + 3] = 1..(c - 1) /\ G[d + 3][b - 1] = H[3][(b - 1) + 1]
      BY <3>1
    <3>3. b - 1 \in DOMAIN G[d + 3] /\ G[d + 3][b - 1] = m /\ d + 3 \in DOMAIN G
      BY <1>3, <2>2, <2>6, <3>1, <3>2
    <3> QED BY <3>3
  <2>7. CASE a \notin 1..3
    <3>1. a - 1 \in 3..(d + 2) /\ (a - 1) + 1 = a
      BY <2>7
    <3>2. G[a - 1] = H[a]
      BY <3>1
    <3> QED BY <1>3, <2>2, <3>1, <3>2
  <2>8. a \in 1..3 => a = 1 \/ a = 2 \/ a = 3
    OBVIOUS
  <2> QED BY <2>3, <2>4, <2>5, <2>6, <2>7, <2>8
<1> QED BY <1>4, <1>5 DEF OnePlace

-----------------------------------------------------------------------------
(* The steps of the threads.                                               *)
LEMMA HeldTypes ==
  ASSUME IInv, Sound
  PROVE  /\ buffer \in Seq(1..Messages) /\ handled \in Seq(1..Messages)
         /\ ToBeHandled \in Seq(Packet) /\ ToBeHandled \in Seq(Seq(1..Messages))
         /\ worker = "pop" => socketQueue # <<>>
<1>1. worker = "pop" => socketQueue # <<>>
  BY DEF IInv, PopsWhatItHandled
<1>2. ToBeHandled \in Seq(Packet)
  BY <1>1, OrderTypes DEF ToBeHandled
<1>3. Packet \subseteq Seq(1..Messages)
  BY DEF Packet
<1>4. ToBeHandled \in Seq(Seq(1..Messages))
  <2>1. \A i \in DOMAIN ToBeHandled : ToBeHandled[i] \in Seq(1..Messages)
    BY <1>2, <1>3, ElementOf
  <2>2. ToBeHandled = [i \in 1..Len(ToBeHandled) |-> ToBeHandled[i]] /\ Len(ToBeHandled) \in Nat
        /\ DOMAIN ToBeHandled = 1..Len(ToBeHandled)
    BY <1>2
  <2> QED BY <2>1, <2>2
<1> QED BY <1>1, <1>2, <1>4, OrderTypes

LEMMA ReceivePlaces ==
  ASSUME IInv, OrderInv, PlaceInv, receive
  PROVE  PlaceInv'
<1>1. PICK n \in 1..MaxRead :
        buffer' = [i \in 1..n |-> received + i] /\ received' = received + n
  BY DEF receive
<1>2. UNCHANGED <<socketQueue, handled, worker, main>> /\ reader = "receive" /\ reader' = "push"
  BY DEF receive, workerVars
<1> SUFFICES ASSUME Sound PROVE OnePlace(Held', received')
  BY <1>2 DEF PlaceInv, Sound
<1> DEFINE t == ToBeHandled
           d == Len(t)
<1>3. n \in Nat /\ received \in Nat
  BY OrderTypes, MainAssumption
<1>4. buffer = <<>> /\ OnePlace(Held, received)
  BY <1>2 DEF PlaceInv
<1>5. UNCHANGED t
  BY <1>2 DEF ToBeHandled
<1>6. /\ handled \in Seq(Nat) /\ t \in Seq(Seq(Nat))
      /\ \A i \in DOMAIN handled : handled[i] \in 1..received
      /\ \A k \in DOMAIN t : \A i \in DOMAIN t[k] : t[k][i] \in 1..received
  <2>1. ASSUME NEW s \in Seq(1..Messages), Below(s, received + 1)
        PROVE  s \in Seq(Nat) /\ \A i \in DOMAIN s : s[i] \in 1..received
    <3>1. \A i \in DOMAIN s : s[i] \in 1..Messages /\ s[i] < received + 1
      BY <2>1, ElementOf DEF Below
    <3>2. \A i \in DOMAIN s : s[i] \in Nat /\ s[i] \in 1..received
      BY <1>3, <3>1, MainAssumption
    <3>3. Len(s) \in Nat /\ DOMAIN s = 1..Len(s) /\ s = [i \in 1..Len(s) |-> s[i]]
      OBVIOUS
    <3> QED BY <3>2, <3>3
  <2>2. AllBelow(received + 1)
    BY DEF OrderInv, ReadInOrder
  <2>3. \A k \in DOMAIN t : t[k] \in Seq(1..Messages) /\ Below(t[k], received + 1)
    <3>1. \A k \in DOMAIN socketQueue :
            socketQueue[k] \in Seq(1..Messages) /\ Below(socketQueue[k], received + 1)
      BY <2>2, OrderTypes DEF AllBelow
    <3>2. CASE worker = "pop"
      <4>1. \A k \in DOMAIN t : k + 1 \in DOMAIN socketQueue /\ t[k] = socketQueue[k + 1]
        BY <3>2, OrderTypes, HeldTypes, Shortened DEF ToBeHandled
      <4> QED BY <3>1, <4>1
    <3>3. CASE worker # "pop"
      BY <3>1, <3>3 DEF ToBeHandled
    <3> QED BY <3>2, <3>3
  <2>4. t \in Seq(Seq(1..Messages))
    BY HeldTypes
  <2>5. \A k \in DOMAIN t : t[k] \in Seq(Nat) /\ \A i \in DOMAIN t[k] : t[k][i] \in 1..received
    BY <2>1, <2>3
  <2>6. t \in Seq(Seq(Nat))
    <3>1. Len(t) \in Nat /\ DOMAIN t = 1..Len(t) /\ t = [i \in 1..Len(t) |-> t[i]]
      BY <2>4
    <3> QED BY <2>5, <3>1
  <2>7. Below(handled, received + 1) /\ handled \in Seq(1..Messages)
    BY <2>2, OrderTypes DEF AllBelow
  <2> QED BY <2>1, <2>5, <2>6, <2>7
<1>7. buffer \in Seq(Nat) /\ buffer' \in Seq(Nat)
  BY <1>1, <1>3, <1>4
<1> HIDE DEF t
<1>8. /\ DOMAIN Held = 1..(d + 2) /\ d \in Nat /\ Held[1] = buffer /\ Held[2] = handled
      /\ \A k \in 3..(d + 2) : Held[k] = t[k - 2]
  BY <1>6, <1>7, HeldIs DEF Held, t
<1>9. /\ DOMAIN Held' = 1..(d + 2) /\ Held'[1] = buffer' /\ Held'[2] = handled
      /\ \A k \in 3..(d + 2) : Held'[k] = t[k - 2]
  <2>1. Held' = <<buffer', handled>> \o t
    BY <1>2, <1>5 DEF Held, t
  <2> QED BY <1>6, <1>7, <2>1, HeldIs
<1>10. \A k \in 2..(d + 2) : Held'[k] = Held[k] /\ \A i \in DOMAIN Held[k] : Held[k][i] \in 1..received
  <2>1. DOMAIN t = 1..d
    BY <1>6
  <2>2. ASSUME NEW k \in 2..(d + 2)
        PROVE  Held'[k] = Held[k] /\ \A i \in DOMAIN Held[k] : Held[k][i] \in 1..received
    <3>1. CASE k = 2
      BY <1>6, <1>8, <1>9, <3>1
    <3>2. CASE k # 2
      <4>1. k \in 3..(d + 2) /\ k - 2 \in 1..d
        BY <1>8, <3>2
      <4> QED BY <1>6, <1>8, <1>9, <2>1, <4>1
    <3> QED BY <3>1, <3>2
  <2> QED BY <2>2
<1> HIDE DEF d
<1> DEFINE H == Held
           G == Held'
<1>11. /\ DOMAIN H = 1..(d + 2) /\ DOMAIN G = 1..(d + 2) /\ H[1] = <<>> /\ d \in Nat
       /\ G[1] = [i \in 1..n |-> received + i] /\ OnePlace(H, received)
       /\ \A k \in 2..(d + 2) : G[k] = H[k] /\ \A i \in DOMAIN H[k] : H[k][i] \in 1..received
  BY <1>1, <1>4, <1>8, <1>9, <1>10
<1> HIDE DEF H, G
<1>12. OnePlace(G, received + n)
  BY <1>3, <1>11, PlacesRead
<1> QED BY <1>1, <1>12 DEF G

LEMMA PushPlaces ==
  ASSUME IInv, PlaceInv, ReaderPushes
  PROVE  PlaceInv'
<1>1. /\ socketQueue' = Append(socketQueue, buffer) /\ buffer' = <<>> /\ reader = "push"
      /\ UNCHANGED <<received, handled, worker, main>>
  BY DEF ReaderPushes, workerVars
<1> SUFFICES ASSUME Sound PROVE OnePlace(Held', received')
  BY <1>1 DEF PlaceInv, Sound
<1> DEFINE t == ToBeHandled
           u == ToBeHandled'
           d == Len(t)
           S == Seq(1..Messages)
<1>2. /\ buffer \in S /\ handled \in S /\ t \in Seq(S) /\ OnePlace(Held, received) /\ <<>> \in S
  BY HeldTypes DEF PlaceInv
<1>3. u = Append(t, buffer)
  <2>1. CASE worker = "pop"
    <3>1. socketQueue # <<>> /\ socketQueue \in Seq(Packet) /\ buffer \in Packet
      BY <1>1, <2>1, HeldTypes, OrderTypes DEF IInv, NothingEmpty, Packet
    <3>2. Tail(Append(socketQueue, buffer)) = Append(Tail(socketQueue), buffer)
      BY <3>1, TailOfAppend
    <3> QED BY <1>1, <2>1, <3>2 DEF ToBeHandled
  <2>2. CASE worker # "pop"
    BY <1>1, <2>2 DEF ToBeHandled
  <2> QED BY <2>1, <2>2
<1>4. Held' = <<<<>>, handled>> \o u
  BY <1>1 DEF Held
<1>5. Held = <<buffer, handled>> \o t
  BY DEF Held
<1> HIDE DEF t, u, S
<1>6. /\ u \in Seq(S) /\ Len(u) = d + 1 /\ d \in Nat /\ u[d + 1] = buffer
      /\ \A k \in 1..d : u[k] = t[k]
  BY <1>2, <1>3
<1> DEFINE H == <<buffer, handled>> \o t
           G == <<<<>>, handled>> \o u
<1>7. /\ DOMAIN H = 1..(d + 2) /\ H[1] = buffer /\ H[2] = handled
      /\ \A k \in 3..(d + 2) : H[k] = t[k - 2]
  BY <1>2, HeldIs DEF S
<1>8. /\ DOMAIN G = 1..(Len(u) + 2) /\ G[1] = <<>> /\ G[2] = handled
      /\ \A k \in 3..(Len(u) + 2) : G[k] = u[k - 2]
  BY <1>2, <1>6, HeldIs DEF S
<1> HIDE DEF H, G, d
<1>9. Len(u) + 2 = d + 3 /\ d + 3 \in 3..(d + 3) /\ (d + 3) - 2 = d + 1
  BY <1>6
<1>10. DOMAIN G = 1..(d + 3) /\ G[d + 3] = H[1]
  BY <1>6, <1>7, <1>8, <1>9
<1>11. ASSUME NEW k \in 2..(d + 2) PROVE G[k] = H[k]
  <2>1. CASE k = 2
    BY <1>7, <1>8, <2>1
  <2>2. CASE k # 2
    <3>1. k \in 3..(d + 2) /\ k \in 3..(d + 3) /\ k - 2 \in 1..d
      BY <1>6, <2>2
    <3> QED BY <1>6, <1>7, <1>8, <1>9, <3>1
  <2> QED BY <2>1, <2>2
<1>12. OnePlace(H, received)
  BY <1>2, <1>5 DEF H
<1>13. OnePlace(G, received)
  BY <1>6, <1>7, <1>8, <1>10, <1>11, <1>12, PlacesPushed
<1> QED BY <1>1, <1>4, <1>13 DEF G

LEMMA HandlePlaces ==
  ASSUME IInv, PlaceInv, simple_action
  PROVE  PlaceInv'
<1>1. /\ worker = "handle" /\ worker' = "pop" /\ request # <<>>
      /\ handled' = Append(handled, Head(request))
      /\ socketQueue' = IF Len(request) > 1 THEN Append(socketQueue, Tail(request)) ELSE socketQueue
      /\ UNCHANGED <<received, reader, buffer, main>>
  BY DEF simple_action, readerVars, IInv, NothingEmpty
<1> SUFFICES ASSUME Sound PROVE OnePlace(Held', received')
  BY <1>1 DEF PlaceInv, Sound
<1> DEFINE S  == Seq(1..Messages)
           t  == socketQueue
           p  == Tail(request)
           u  == IF Len(request) > 1 THEN Append(Tail(t), p) ELSE Tail(t)
           h  == Append(handled, request[1])
           c  == Len(request)
           d  == Len(t) - 1
           n  == Len(handled)
<1>2. /\ t \in Seq(Packet) /\ t # <<>> /\ Head(t) = request /\ request \in S /\ buffer \in S
      /\ handled \in S /\ OnePlace(Held, received) /\ t \in Seq(S)
  <2>1. t # <<>> /\ Head(t) = request
    BY <1>1 DEF IInv, PopsWhatItHandled
  <2>2. ToBeHandled = t
    BY <1>1 DEF ToBeHandled
  <2> QED BY <2>1, <2>2, HeldTypes, OrderTypes DEF PlaceInv
<1>3. /\ p \in S /\ Head(request) = request[1] /\ c \in Nat \ {0} /\ DOMAIN request = 1..c
      /\ DOMAIN p = 1..(c - 1) /\ \A i \in 1..(c - 1) : p[i] = request[i + 1]
  BY <1>1, <1>2, Shortened
<1>4. request[1] \in 1..Messages
  BY <1>1, <1>2, Shortened
<1>5. /\ h \in S /\ DOMAIN h = 1..(n + 1) /\ n \in Nat /\ DOMAIN handled = 1..n
      /\ h[n + 1] = request[1] /\ \A i \in 1..n : h[i] = handled[i]
  <2> DEFINE M == 1..Messages
  <2>1. handled \in Seq(M) /\ request[1] \in M
    BY <1>2, <1>4
  <2> HIDE DEF M
  <2>2. /\ h \in Seq(M) /\ DOMAIN h = 1..(n + 1) /\ n \in Nat /\ DOMAIN handled = 1..n
        /\ h[n + 1] = request[1] /\ \A i \in 1..n : h[i] = handled[i]
    BY <2>1
  <2> QED BY <2>2 DEF M
<1>6. ToBeHandled' = u
  <2>1. ToBeHandled' = Tail(socketQueue')
    BY <1>1 DEF ToBeHandled
  <2>2. CASE c > 1
    <3>1. p \in Packet /\ socketQueue' = Append(t, p)
      BY <1>1, <1>2, <2>2, RestIsPacket
    <3>2. Tail(Append(t, p)) = Append(Tail(t), p)
      BY <1>2, <3>1, TailOfAppend
    <3> QED BY <2>1, <2>2, <3>1, <3>2
  <2>3. CASE ~(c > 1)
    BY <1>1, <2>1, <2>3
  <2> QED BY <2>2, <2>3
<1>7. Held' = <<buffer, h>> \o u /\ Held = <<buffer, handled>> \o t
  BY <1>1, <1>3, <1>6 DEF Held, ToBeHandled
<1>8. /\ d \in Nat /\ Tail(t) \in Seq(S) /\ Len(Tail(t)) = d /\ DOMAIN t = 1..(d + 1)
      /\ Head(t) = t[1] /\ \A k \in 1..d : Tail(t)[k] = t[k + 1]
      /\ Len(t) = d + 1
  <2> HIDE DEF S
  <2> QED BY <1>2, Shortened
<1> HIDE DEF S, t, p, h, d, c, n
<1>9. /\ u \in Seq(S) /\ \A k \in 1..d : u[k] = t[k + 1]
      /\ \/ c = 1 /\ Len(u) = d
         \/ c > 1 /\ Len(u) = d + 1 /\ u[d + 1] = p
  <2>1. CASE c > 1
    <3>1. u = Append(Tail(t), p)
      BY <2>1 DEF c
    <3>2. /\ Append(Tail(t), p) \in Seq(S) /\ Len(Append(Tail(t), p)) = d + 1
          /\ Append(Tail(t), p)[d + 1] = p
          /\ \A k \in 1..d : Append(Tail(t), p)[k] = Tail(t)[k]
      BY <1>3, <1>8
    <3> HIDE DEF u
    <3> QED BY <1>8, <2>1, <3>1, <3>2
  <2>2. CASE ~(c > 1)
    <3>1. u = Tail(t) /\ c = 1
      BY <1>3, <2>2 DEF c
    <3> QED BY <1>8, <3>1
  <2> QED BY <2>1, <2>2
<1> HIDE DEF u
<1> DEFINE H == <<buffer, handled>> \o t
           G == <<buffer, h>> \o u
<1>10. /\ DOMAIN H = 1..(d + 3) /\ H[1] = buffer /\ H[2] = handled /\ H[3] = request
       /\ \A k \in 3..(d + 3) : H[k] = t[k - 2]
  <2>1. /\ DOMAIN H = 1..(Len(t) + 2) /\ H[1] = buffer /\ H[2] = handled
        /\ \A k \in 3..(Len(t) + 2) : H[k] = t[k - 2]
    BY <1>2, HeldIs DEF S
  <2> HIDE DEF H
  <2>2. 3 \in 3..(d + 3) /\ 3 - 2 = 1 /\ Len(t) + 2 = d + 3
    BY <1>8
  <2>3. H[3] = t[1]
    BY <2>1, <2>2
  <2> QED BY <1>2, <1>8, <2>1, <2>2, <2>3
<1>11. /\ DOMAIN G = 1..(Len(u) + 2) /\ G[1] = buffer /\ G[2] = h
       /\ \A k \in 3..(Len(u) + 2) : G[k] = u[k - 2]
  BY <1>2, <1>5, <1>9, HeldIs DEF S
<1> HIDE DEF H, G
<1>12. ASSUME NEW k \in 3..(d + 2) PROVE G[k] = H[k + 1]
  <2>1. k \in 3..(Len(u) + 2) /\ k - 2 \in 1..d /\ k + 1 \in 3..(d + 3) /\ (k + 1) - 2 = (k - 2) + 1
    BY <1>8, <1>9
  <2> QED BY <1>9, <1>10, <1>11, <2>1
<1>13. \/ c = 1 /\ DOMAIN G = 1..(d + 2)
       \/ /\ c > 1 /\ DOMAIN G = 1..(d + 3) /\ DOMAIN G[d + 3] = 1..(c - 1)
          /\ \A i \in 1..(c - 1) : G[d + 3][i] = H[3][i + 1]
  <2>1. CASE c = 1 /\ Len(u) = d
    BY <1>11, <2>1
  <2>2. CASE c > 1 /\ Len(u) = d + 1 /\ u[d + 1] = p
    <3>1. Len(u) + 2 = d + 3 /\ d + 3 \in 3..(d + 3) /\ (d + 3) - 2 = d + 1
      BY <1>8, <2>2
    <3>2. G[d + 3] = p /\ DOMAIN G = 1..(d + 3)
      BY <1>11, <2>2, <3>1
    <3> QED BY <1>3, <1>10, <2>2, <3>2
  <2> QED BY <1>9, <2>1, <2>2
<1>14. /\ DOMAIN H[2] = 1..n /\ DOMAIN G[2] = 1..(n + 1) /\ H[1] = G[1]
       /\ DOMAIN H[3] = 1..c /\ G[2][n + 1] = H[3][1] /\ \A i \in 1..n : G[2][i] = H[2][i]
  BY <1>3, <1>5, <1>10, <1>11
<1>15. OnePlace(H, received)
  BY <1>2, <1>7 DEF H
<1>16. DOMAIN H = 1..(d + 3)
  BY <1>10
<1>17. OnePlace(G, received)
  <2>1. d \in Nat /\ n \in Nat /\ c \in Nat \ {0}
    BY <1>3, <1>5, <1>8
  <2>2. \A k \in 3..(d + 2) : G[k] = H[k + 1]
    BY <1>12
  <2>3. TakenApart(H, G, d, n, c)
    BY <1>13, <1>14, <1>16, <2>2 DEF TakenApart
  <2> QED BY <1>15, <2>1, <2>3, PlacesHandled
<1> QED BY <1>1, <1>7, <1>17 DEF G

(* Otherwise nothing moves while the program is sound.                     *)
LEMMA StepPlaces ==
  ASSUME IInv, OrderInv, PlaceInv, [Next]_vars
  PROVE  PlaceInv'
<1>0. ASSUME UNCHANGED <<received, handled, buffer>>,
             reader' = reader \/ reader' # "push",
             Sound' => Sound /\ ToBeHandled' = ToBeHandled,
             reader = "push" => reader' = "push"
      PROVE  PlaceInv'
  BY <1>0 DEF PlaceInv, Held
<1>1. CASE Reader
  <2>1. CASE receive
    BY <2>1, ReceivePlaces
  <2>2. CASE ReaderPushes
    BY <2>2, PushPlaces
  <2>3. CASE ReaderStarts \/ ReaderTests \/ receive_Closed \/ receive_Fails \/ ReaderEnds
    <3>1. /\ UNCHANGED <<received, buffer, socketQueue, handled, worker, main>>
          /\ reader' = reader \/ (reader # "push" /\ reader' # "push")
      BY <2>3 DEF ReaderStarts, ReaderTests, receive_Closed, receive_Fails, ReaderEnds,
                  readerVars, workerVars
    <3> QED BY <1>0, <3>1 DEF Sound, ToBeHandled
  <2> QED BY <1>1, <2>1, <2>2, <2>3 DEF Reader
<1>2. CASE Worker
  <2>1. CASE simple_action
    BY <2>1, HandlePlaces
  <2>2. CASE WorkerPops
    <3>1. /\ worker = "pop" /\ worker' = "delete" /\ socketQueue' = Tail(socketQueue)
          /\ UNCHANGED <<received, reader, buffer, handled, main>>
      BY <2>2 DEF WorkerPops, readerVars
    <3> QED BY <1>0, <3>1 DEF Sound, ToBeHandled
  <2>3. CASE WorkerCopies \/ WorkerDeletes \/ WorkerTests \/ WorkerLooks \/ WorkerCrashes
    <3>1. /\ UNCHANGED <<received, buffer, socketQueue, handled, reader, main>>
          /\ worker' = worker \/ (worker # "pop" /\ worker' # "pop")
      BY <2>3 DEF WorkerCopies, WorkerDeletes, WorkerTests, WorkerLooks, WorkerCrashes, readerVars, workerVars
    <3> QED BY <1>0, <3>1 DEF Sound, ToBeHandled
  <2> QED BY <1>2, <2>1, <2>2, <2>3 DEF Worker
<1>3. CASE Main
  <2>1. /\ UNCHANGED <<received, buffer, handled, reader, worker>>
        /\ Sound' => Sound /\ socketQueue' = socketQueue
    BY <1>3 DEF Main, MainDrains, MainInput, MainDeletes, MainExits, readerVars, workerVars, Sound
  <2> QED BY <1>0, <2>1 DEF ToBeHandled
<1>4. CASE UNCHANGED vars
  BY <1>0, <1>4 DEF vars, readerVars, workerVars, Sound, ToBeHandled
<1> QED BY <1>1, <1>2, <1>3, <1>4 DEF Next

LEMMA InitPlaces == Init => PlaceInv
<1> SUFFICES ASSUME Init PROVE PlaceInv
  OBVIOUS
<1>1. socketQueue = <<>> /\ buffer = <<>> /\ handled = <<>> /\ received = 0 /\ worker = "test"
  BY DEF Init
<1>2. <<>> \in Seq(Nat) /\ <<>> \in Seq(Seq(Nat)) /\ Len(<<>>) = 0
  OBVIOUS
<1> DEFINE H == <<<<>>, <<>>>> \o <<>>
<1>3. H = Held
  BY <1>1 DEF Held, ToBeHandled
<1>4. DOMAIN H = 1..2 /\ H[1] = <<>> /\ H[2] = <<>>
  BY <1>2, HeldIs
<1> HIDE DEF H
<1>5. OnePlace(H, 0)
  BY <1>4 DEF OnePlace
<1> QED BY <1>1, <1>3, <1>5 DEF PlaceInv

LEMMA OneIsCounted ==
  ASSUME PlaceInv
  PROVE  NothingLostOrDoubled
<1> SUFFICES ASSUME Sound, NEW m \in 1..received
             PROVE  Cardinality(UNION {{k} \X {i \in DOMAIN Held[k] : Held[k][i] = m} : k \in DOMAIN Held}) = 1
  BY DEF NothingLostOrDoubled, Held
<1> DEFINE H == Held
           places == UNION {{k} \X {i \in DOMAIN H[k] : H[k][i] = m} : k \in DOMAIN H}
<1>1. OnePlace(H, received)
  BY DEF PlaceInv
<1> HIDE DEF H
<1>2. PICK a, b : a \in DOMAIN H /\ b \in DOMAIN H[a] /\ H[a][b] = m
  BY <1>1 DEF OnePlace
<1>3. places = {<<a, b>>}
  <2>1. <<a, b>> \in places
    BY <1>2
  <2>2. ASSUME NEW x \in places PROVE x = <<a, b>>
    <3>1. PICK k \in DOMAIN H : x \in {k} \X {i \in DOMAIN H[k] : H[k][i] = m}
      OBVIOUS
    <3>2. PICK i \in DOMAIN H[k] : x = <<k, i>> /\ H[k][i] = m
      BY <3>1
    <3>3. k = a /\ i = b
      BY <1>1, <1>2, <3>2, OneOf
    <3> QED BY <3>2, <3>3
  <2> QED BY <2>1, <2>2
<1> QED BY <1>3, FS_Singleton DEF H

(* No message is lost, and none is handled or queued twice, whatever the   *)
(* sizes of the reads and however often packets are split and queued again *)
(* (NothingLostOrDoubled).                                                 *)
THEOREM EachHasItsPlace == Spec => []NothingLostOrDoubled
<1>1. IInv /\ OrderInv /\ PlaceInv /\ [Next]_vars => OrderInv' /\ PlaceInv'
  BY StepOrder, StepPlaces
<1> QED BY <1>1, InitOrder, InitPlaces, OneIsCounted, Invariance, PTL DEF Spec

-----------------------------------------------------------------------------
(* How often an id was answered or is kept, and how often it was handled.  *)
With(s, x) == {i \in DOMAIN s : s[i].xid = x /\ s[i].type # "STALE"}

Settings == {i \in DOMAIN handled : script[handled[i]].type = "SET_CONFIG"}

RequestsWith(x) ==
  {i \in DOMAIN handled : script[handled[i]].xid = x /\ script[handled[i]].type # "SET_CONFIG"}

(* Whatever is kept of a request may still be answered once; what is found *)
(* behind a SET_CONFIG may have any id.                                    *)
AskInv ==
  \A x \in Nat :
    Cardinality(With(sent, x)) + Cardinality(With(multipartMsg, x))
      <= Cardinality(RequestsWith(x)) + 2 * Cardinality(Settings)

LEMMA Counted ==
  ASSUME NEW n \in Nat, NEW A, NEW B, A \subseteq 1..n, B \subseteq 1..(n + 1), B \cap 1..n = A
  PROVE  /\ Cardinality(A) \in Nat /\ Cardinality(B) \in Nat
         /\ n + 1 \in B => Cardinality(B) = Cardinality(A) + 1
         /\ n + 1 \notin B => Cardinality(B) = Cardinality(A)
<1>1. IsFiniteSet(1..n) /\ IsFiniteSet(1..(n + 1))
  <2>1. \A a, b \in Int : IsFiniteSet(a..b)
    BY FS_Interval
  <2> QED BY <2>1
<1>2. IsFiniteSet(A) /\ IsFiniteSet(B)
  BY <1>1, FS_Subset
<1>3. Cardinality(A) \in Nat /\ Cardinality(B) \in Nat
  BY <1>2, FS_CardinalityType
<1>4. \A i \in 1..(n + 1) : i \in 1..n \/ i = n + 1
  OBVIOUS
<1>5. n + 1 \notin A
  BY <1>4
<1>6. CASE n + 1 \in B
  <2>1. B = A \cup {n + 1}
    BY <1>4, <1>6
  <2>2. Cardinality(A \cup {n + 1}) = Cardinality(A) + 1
    BY <1>2, <1>5, FS_AddElement
  <2> QED BY <1>3, <1>6, <2>1, <2>2
<1>7. CASE n + 1 \notin B
  <2>1. B = A
    BY <1>4, <1>7
  <2> QED BY <1>3, <1>7, <2>1
<1> QED BY <1>6, <1>7

LEMMA CountedNat ==
  ASSUME NEW S, NEW s \in Seq(S), NEW x
  PROVE  /\ Cardinality(With(s, x)) \in Nat
         /\ s = <<>> => Cardinality(With(s, x)) = 0
         /\ \A i \in DOMAIN s : s[i].xid = x /\ s[i].type # "STALE" => Cardinality(With(s, x)) >= 1
<1>1. DOMAIN s = 1..Len(s) /\ Len(s) \in Nat
  OBVIOUS
<1>2. IsFiniteSet(1..Len(s))
  <2>1. \A a, b \in Int : IsFiniteSet(a..b)
    BY FS_Interval
  <2> QED BY <1>1, <2>1
<1>3. With(s, x) \subseteq 1..Len(s)
  BY <1>1 DEF With
<1>4. IsFiniteSet(With(s, x))
  BY <1>2, <1>3, FS_Subset
<1>5. Cardinality(With(s, x)) \in Nat
  BY <1>4, FS_CardinalityType
<1>6. s = <<>> => Cardinality(With(s, x)) = 0
  <2>1. s = <<>> => With(s, x) = {}
    BY DEF With
  <2> QED BY <2>1, FS_EmptySet
<1>7. ASSUME NEW i \in DOMAIN s, s[i].xid = x, s[i].type # "STALE"
      PROVE  Cardinality(With(s, x)) >= 1
  <2>1. With(s, x) # {}
    BY <1>7 DEF With
  <2>2. Cardinality(With(s, x)) # 0
    BY <1>4, <2>1, FS_EmptySet
  <2> QED BY <1>5, <2>2
<1> QED BY <1>5, <1>6, <1>7

LEMMA CountedAppend ==
  ASSUME NEW S, NEW s \in Seq(S), NEW e \in S, NEW x
  PROVE  Cardinality(With(Append(s, e), x))
           = Cardinality(With(s, x)) + (IF e.xid = x /\ e.type # "STALE" THEN 1 ELSE 0)
<1> DEFINE n == Len(s)
           t == Append(s, e)
<1>1. /\ n \in Nat /\ DOMAIN s = 1..n /\ DOMAIN t = 1..(n + 1) /\ t[n + 1] = e
      /\ \A i \in 1..n : t[i] = s[i]
  OBVIOUS
<1> HIDE DEF n, t
<1>2. /\ With(s, x) \subseteq 1..n /\ With(t, x) \subseteq 1..(n + 1)
      /\ With(t, x) \cap 1..n = With(s, x)
  <2>1. \A i \in 1..n : i \in 1..(n + 1)
    BY <1>1
  <2> QED BY <1>1, <2>1 DEF With
<1>3. n + 1 \in With(t, x) <=> e.xid = x /\ e.type # "STALE"
  <2>1. n + 1 \in 1..(n + 1)
    BY <1>1
  <2> QED BY <1>1, <2>1 DEF With
<1>4. /\ Cardinality(With(s, x)) \in Nat
      /\ n + 1 \in With(t, x) => Cardinality(With(t, x)) = Cardinality(With(s, x)) + 1
      /\ n + 1 \notin With(t, x) => Cardinality(With(t, x)) = Cardinality(With(s, x))
  BY <1>1, <1>2, Counted
<1> QED BY <1>3, <1>4 DEF t

(* What the responder does with a message adds at most one to the answers  *)
(* and the pieces kept with the message's id, and nothing with any other,  *)
(* unless it is a SET_CONFIG.                                              *)
LEMMA RespondAsks ==
  ASSUME ResponderTypeOK, NEW m \in Message, Respond(m), NEW x \in Nat
  PROVE  Cardinality(With(sent', x)) + Cardinality(With(multipartMsg', x))
           <= Cardinality(With(sent, x)) + Cardinality(With(multipartMsg, x))
                + (IF m.type = "SET_CONFIG" THEN 2 ELSE IF m.xid = x THEN 1 ELSE 0)
<1> DEFINE a == Cardinality(With(sent, x))
           k == Cardinality(With(multipartMsg, x))
           P == [type : Multipart, xid : Nat]
<1>1. sent \in Seq(Reply) /\ multipartMsg \in Seq(P)
  BY DEF ResponderTypeOK
<1>2. a \in Nat /\ k \in Nat
  BY <1>1, CountedNat
<1>m. m.type \in Types /\ m.xid \in Nat
  BY DEF Message
<1>r. ASSUME NEW t \in {Answer[u] : u \in DOMAIN Answer} \cup {"ROLE_REPLY", "STALE", "BAD_MULTIPART"},
             NEW z \in Nat
      PROVE  reply(t, z) \in Reply /\ reply(t, z).xid = z /\ reply(t, z).type = t
  BY DEF reply, Reply
<1>s. ASSUME NEW e \in Reply
      PROVE  /\ e.type = "STALE" => Cardinality(With(Append(sent, e), x)) = a
             /\ Cardinality(With(Append(sent, e), x)) <= a + (IF e.xid = x THEN 1 ELSE 0)
             /\ Cardinality(With(Append(sent, e), x)) \in Nat
  <2>1. Cardinality(With(Append(sent, e), x)) = a + (IF e.xid = x /\ e.type # "STALE" THEN 1 ELSE 0)
    BY <1>1, CountedAppend
  <2> QED BY <1>2, <2>1
<1>p. Cardinality(With(sent', x)) \in Nat /\ Cardinality(With(multipartMsg', x)) \in Nat
  BY RespondType, CountedNat DEF ResponderTypeOK
<1>q. ASSUME NEW e \in P PROVE e.type # "STALE"
  BY DEF Multipart
<1> HIDE DEF a, k, P
<1>3. CASE Immediate(m)
  <2>1. PICK e \in Reply : e.xid = m.xid /\ sent' = Append(sent, e)
    <3>1. Answer[m.type] \in {Answer[u] : u \in DOMAIN Answer}
      BY <1>3 DEF Immediate
    <3>2. reply(Answer[m.type], m.xid) \in Reply /\ reply(Answer[m.type], m.xid).xid = m.xid
      BY <1>m, <1>r, <3>1
    <3> QED BY <1>3, <3>2 DEF Immediate
  <2>2. multipartMsg' = multipartMsg
    BY <1>3 DEF Immediate
  <2>3. Cardinality(With(sent', x)) <= a + (IF m.xid = x THEN 1 ELSE 0)
    BY <1>s, <2>1
  <2> QED BY <1>2, <1>p, <2>2, <2>3 DEF a, k
<1>4. CASE Logged(m)
  <2>1. sent' = sent /\ multipartMsg' = multipartMsg
    BY <1>4 DEF Logged, responder
  <2> QED BY <1>2, <1>p, <2>1 DEF a, k
<1>5. CASE SetConfig(m)
  <2>1. PICK y \in Undefined, z \in Undefined :
          \E more \in {<<>>, <<reply("BARRIER_REPLY", y), reply("BARRIER_REPLY", y)>>,
                       <<reply("BARRIER_REPLY", y), reply("GET_CONFIG_REPLY", z)>>} :
            sent' = sent \o more
    BY <1>5 DEF SetConfig
  <2> DEFINE b == reply("BARRIER_REPLY", y)
             c == reply("GET_CONFIG_REPLY", z)
  <2>2. b \in Reply /\ c \in Reply
    <3>1. "BARRIER_REPLY" \in {Answer[u] : u \in DOMAIN Answer}
          /\ "GET_CONFIG_REPLY" \in {Answer[u] : u \in DOMAIN Answer}
      BY DEF Answer
    <3> QED BY <1>r, <3>1, UndefinedAssumption
  <2>3. m.type = "SET_CONFIG" /\ multipartMsg' = multipartMsg
        /\ sent' \in {sent \o <<>>, sent \o <<b, b>>, sent \o <<b, c>>}
    BY <1>5, <2>1 DEF SetConfig
  <2> HIDE DEF b, c
  <2>4. ASSUME NEW e \in Reply
        PROVE  Cardinality(With(sent \o <<b, e>>, x)) <= a + 2
               /\ Cardinality(With(sent \o <<b, e>>, x)) \in Nat
    <3>1. sent \o <<b, e>> = Append(Append(sent, b), e) /\ Append(sent, b) \in Seq(Reply)
      BY <1>1, <2>2
    <3>2. Cardinality(With(sent \o <<b, e>>, x))
            = Cardinality(With(Append(sent, b), x)) + (IF e.xid = x /\ e.type # "STALE" THEN 1 ELSE 0)
      BY <3>1, CountedAppend
    <3>3. Cardinality(With(Append(sent, b), x)) \in Nat /\ Cardinality(With(Append(sent, b), x)) <= a + 1
      BY <1>2, <1>s, <2>2
    <3> QED BY <1>2, <1>p, <3>2, <3>3
  <2>5. Cardinality(With(sent', x)) \in Nat /\ Cardinality(With(sent', x)) <= a + 2
    <3>1. sent \o <<>> = sent
      BY <1>1, ConcatEmptySeq
    <3>2. CASE sent' = sent \o <<>>
      BY <1>2, <3>1, <3>2 DEF a
    <3>3. CASE sent' = sent \o <<b, b>>
      BY <2>2, <2>4, <3>3
    <3>4. CASE sent' = sent \o <<b, c>>
      BY <2>2, <2>4, <3>4
    <3> QED BY <2>3, <3>2, <3>3, <3>4
  <2> QED BY <1>2, <1>p, <2>3, <2>5 DEF a, k
<1>6. CASE RoleRequest(m)
  <2>1. /\ multipartMsg' = multipartMsg
        /\ \/ \E y \in Undefined : sent' = Append(sent, reply("STALE", y))
           \/ sent' = Append(sent, reply("ROLE_REPLY", m.xid))
    BY <1>6 DEF RoleRequest
  <2>2. /\ \A y \in Undefined : reply("STALE", y) \in Reply /\ reply("STALE", y).type = "STALE"
        /\ reply("ROLE_REPLY", m.xid) \in Reply /\ reply("ROLE_REPLY", m.xid).xid = m.xid
    BY <1>m, <1>r, UndefinedAssumption
  <2>3. CASE \E y \in Undefined : sent' = Append(sent, reply("STALE", y))
    <3>1. Cardinality(With(sent', x)) = a
      BY <1>s, <2>2, <2>3
    <3> QED BY <1>2, <1>6, <2>1, <3>1 DEF a, k, RoleRequest
  <2>4. CASE sent' = Append(sent, reply("ROLE_REPLY", m.xid))
    <3>1. Cardinality(With(sent', x)) <= a + (IF m.xid = x THEN 1 ELSE 0)
      BY <1>s, <2>2, <2>4
    <3> QED BY <1>2, <1>p, <2>1, <3>1 DEF a, k
  <2> QED BY <2>1, <2>3, <2>4 DEF a, k
<1>7. CASE MultipartPiece(m)
  <2>0. m.type \in Multipart /\ Piece(m) \in P /\ Piece(m).xid = m.xid
    BY <1>7, <1>m DEF MultipartPiece, Piece, P
  <2>1. CASE multipartMsg' = <<>> /\ sent' = Append(sent, reply("BAD_MULTIPART", m.xid))
    <3>1. reply("BAD_MULTIPART", m.xid) \in Reply /\ reply("BAD_MULTIPART", m.xid).xid = m.xid
      BY <1>m, <1>r
    <3>2. Cardinality(With(sent', x)) <= a + (IF m.xid = x THEN 1 ELSE 0)
      BY <1>s, <2>1, <3>1
    <3>3. Cardinality(With(multipartMsg', x)) = 0
      <4>1. <<>> \in Seq(P)
        OBVIOUS
      <4> QED BY <2>1, <4>1, CountedNat
    <3> QED BY <1>2, <1>p, <3>2, <3>3 DEF a, k
  <2>2. CASE multipartMsg' = Append(multipartMsg, Piece(m)) /\ UNCHANGED sent
    <3>1. Cardinality(With(multipartMsg', x)) = k + (IF m.xid = x THEN 1 ELSE 0)
      BY <1>1, <1>q, <2>0, <2>2, CountedAppend DEF k
    <3>2. Cardinality(With(sent', x)) = a
      BY <2>2 DEF a
    <3> QED BY <1>2, <1>p, <3>1, <3>2 DEF a, k
  <2> QED BY <1>7, <2>1, <2>2 DEF MultipartPiece
<1>8. CASE MultipartLast(m)
  <2> DEFINE first == Head(Append(multipartMsg, Piece(m)))
  <2>0. m.type \in Multipart /\ Piece(m) \in P /\ Piece(m).xid = m.xid
    BY <1>8, <1>m DEF MultipartLast, Piece, P
  <2>1. /\ first \in P
        /\ \/ first.xid = m.xid
           \/ \E i \in DOMAIN multipartMsg : first = multipartMsg[i]
    <3> DEFINE t == Append(multipartMsg, Piece(m))
    <3>1. t \in Seq(P) /\ t # <<>> /\ Head(t) = t[1] /\ Head(t) \in P
      <4>1. t \in Seq(P) /\ Len(t) = Len(multipartMsg) + 1 /\ Len(multipartMsg) \in Nat
        BY <1>1, <2>0
      <4>2. t # <<>>
        BY <4>1
      <4> HIDE DEF t
      <4> QED BY <4>1, <4>2, Shortened
    <3>2. CASE multipartMsg = <<>>
      <4>1. t[1] = Piece(m)
        BY <3>2
      <4> QED BY <2>0, <3>1, <4>1
    <3>3. CASE multipartMsg # <<>>
      <4>1. 1 \in DOMAIN multipartMsg /\ t[1] = multipartMsg[1]
        BY <1>1, <2>0, <3>3
      <4> QED BY <3>1, <4>1
    <3> QED BY <3>2, <3>3
  <2>2. multipartMsg' = <<>>
        /\ sent' = sent \o CASE first.type \in {"TABLE_FEATURES", "PORT_DESC"} -> PipelineAnswers(m)
                             [] first.type = "DESC" -> <<reply("MULTIPART_REPLY", first.xid)>>
                             [] OTHER -> <<>>
    BY <1>8 DEF MultipartLast
  <2> HIDE DEF first
  <2>3. "MULTIPART_REPLY" \in {Answer[u] : u \in DOMAIN Answer}
    BY DEF Answer
  <2>4. \/ sent' = sent
        \/ sent' = Append(sent, reply("MULTIPART_REPLY", m.xid))
        \/ sent' = Append(sent, reply("MULTIPART_REPLY", first.xid))
    <3>1. /\ sent \o <<>> = sent
          /\ \A e \in Reply : sent \o <<e>> = Append(sent, e)
      <4>1. sent \o <<>> = sent
        BY <1>1, ConcatEmptySeq
      <4>2. \A e \in Reply : sent \o <<e>> = Append(sent, e)
        BY <1>1, AppendIsConcat
      <4> QED BY <4>1, <4>2
    <3>2. reply("MULTIPART_REPLY", m.xid) \in Reply
      BY <1>m, <1>r, <2>3
    <3>3. reply("MULTIPART_REPLY", first.xid) \in Reply
      BY <1>r, <2>1, <2>3 DEF P
    <3>4. PipelineAnswers(m) = <<>> \/ PipelineAnswers(m) = <<reply("MULTIPART_REPLY", m.xid)>>
      BY DEF PipelineAnswers
    <3>5. \/ sent' = sent \o PipelineAnswers(m)
          \/ sent' = sent \o <<reply("MULTIPART_REPLY", first.xid)>>
          \/ sent' = sent \o <<>>
      BY <2>2
    <3> QED BY <3>1, <3>2, <3>3, <3>4, <3>5
  <2>5. Cardinality(With(multipartMsg', x)) = 0
    <3>1. <<>> \in Seq(P)
      OBVIOUS
    <3> QED BY <2>2, <3>1, CountedNat
  <2>6. CASE sent' = sent
    <3>1. Cardinality(With(sent', x)) = a
      BY <2>6 DEF a
    <3> QED BY <1>2, <1>p, <2>5, <3>1 DEF a, k
  <2>7. CASE sent' = Append(sent, reply("MULTIPART_REPLY", m.xid))
    <3>1. reply("MULTIPART_REPLY", m.xid) \in Reply /\ reply("MULTIPART_REPLY", m.xid).xid = m.xid
      BY <1>m, <1>r, <2>3
    <3>2. Cardinality(With(sent', x)) <= a + (IF m.xid = x THEN 1 ELSE 0)
      BY <1>s, <2>7, <3>1
    <3> QED BY <1>2, <1>p, <2>5, <3>2 DEF a, k
  <2>8. CASE sent' = Append(sent, reply("MULTIPART_REPLY", first.xid))
    <3>1. /\ reply("MULTIPART_REPLY", first.xid) \in Reply
          /\ reply("MULTIPART_REPLY", first.xid).xid = first.xid
      BY <1>r, <2>1, <2>3 DEF P
    <3>2. Cardinality(With(sent', x)) <= a + (IF first.xid = x THEN 1 ELSE 0)
      BY <1>s, <2>8, <3>1
    <3>3. first.xid = x => k >= 1 \/ m.xid = x
      BY <1>1, <1>q, <2>1, ElementOf, CountedNat DEF k
    <3> QED BY <1>2, <1>p, <2>5, <3>2, <3>3 DEF a, k
  <2> QED BY <2>4, <2>6, <2>7, <2>8
<1> QED BY <1>3, <1>4, <1>5, <1>6, <1>7, <1>8 DEF Respond

LEMMA StepAsks ==
  ASSUME IInv, AskInv, [Next]_vars
  PROVE  AskInv'
<1>1. CASE simple_action /\ UNCHANGED script
  <2>1. /\ request \in Seq(1..Messages) /\ request # <<>> /\ script \in Scripts
        /\ handled \in Seq(1..Messages) /\ ResponderTypeOK
    BY <1>1, OrderTypes DEF simple_action, IInv, NothingEmpty, TypeOK
  <2> DEFINE v == Head(request)
             m == script[v]
             n == Len(handled)
  <2>2. v \in 1..Messages
    BY <2>1, Shortened
  <2>3. m \in Message
    BY <2>1, <2>2, MainAssumption
  <2>4. Respond(m) /\ handled' = Append(handled, v) /\ script' = script
    BY <1>1 DEF simple_action
  <2>5. /\ n \in Nat /\ DOMAIN handled = 1..n /\ DOMAIN handled' = 1..(n + 1) /\ handled'[n + 1] = v
        /\ \A i \in 1..n : handled'[i] = handled[i]
    <3> DEFINE M == 1..Messages
    <3>1. handled \in Seq(M) /\ v \in M
      BY <2>1, <2>2
    <3> HIDE DEF M, v
    <3> QED BY <2>4, <3>1
  <2> SUFFICES ASSUME NEW x \in Nat
               PROVE  Cardinality(With(sent', x)) + Cardinality(With(multipartMsg', x))
                        <= Cardinality(RequestsWith(x)') + 2 * Cardinality(Settings')
    BY DEF AskInv, With, RequestsWith
  <2>6. Cardinality(With(sent, x)) + Cardinality(With(multipartMsg, x))
          <= Cardinality(RequestsWith(x)) + 2 * Cardinality(Settings)
    BY DEF AskInv
  <2> HIDE DEF m, n, v
  <2>0. (\A i \in 1..n : i \in 1..(n + 1)) /\ n + 1 \in 1..(n + 1)
    BY <2>5
  <2>7. /\ Cardinality(RequestsWith(x)) \in Nat /\ Cardinality(RequestsWith(x)') \in Nat
        /\ Cardinality(RequestsWith(x)')
             = Cardinality(RequestsWith(x)) + (IF m.xid = x /\ m.type # "SET_CONFIG" THEN 1 ELSE 0)
    <3> DEFINE A == RequestsWith(x)
               B == RequestsWith(x)'
    <3>1. A \subseteq 1..n /\ B \subseteq 1..(n + 1) /\ B \cap 1..n = A
      BY <2>0, <2>4, <2>5 DEF RequestsWith
    <3>2. n + 1 \in B <=> m.xid = x /\ m.type # "SET_CONFIG"
      BY <2>0, <2>4, <2>5 DEF RequestsWith, m
    <3> HIDE DEF A, B
    <3>3. /\ Cardinality(A) \in Nat /\ Cardinality(B) \in Nat
          /\ n + 1 \in B => Cardinality(B) = Cardinality(A) + 1
          /\ n + 1 \notin B => Cardinality(B) = Cardinality(A)
      BY <2>5, <3>1, Counted
    <3> QED BY <3>2, <3>3 DEF A, B
  <2>10. /\ Cardinality(Settings) \in Nat /\ Cardinality(Settings') \in Nat
         /\ Cardinality(Settings')
              = Cardinality(Settings) + (IF m.type = "SET_CONFIG" THEN 1 ELSE 0)
    <3> DEFINE A == Settings
               B == Settings'
    <3>1. A \subseteq 1..n /\ B \subseteq 1..(n + 1) /\ B \cap 1..n = A
      BY <2>0, <2>4, <2>5 DEF Settings
    <3>2. n + 1 \in B <=> m.type = "SET_CONFIG"
      BY <2>0, <2>4, <2>5 DEF Settings, m
    <3> HIDE DEF A, B
    <3>3. /\ Cardinality(A) \in Nat /\ Cardinality(B) \in Nat
          /\ n + 1 \in B => Cardinality(B) = Cardinality(A) + 1
          /\ n + 1 \notin B => Cardinality(B) = Cardinality(A)
      BY <2>5, <3>1, Counted
    <3> QED BY <3>2, <3>3 DEF A, B
  <2>8. Cardinality(With(sent', x)) + Cardinality(With(multipartMsg', x))
          <= Cardinality(With(sent, x)) + Cardinality(With(multipartMsg, x))
               + (IF m.type = "SET_CONFIG" THEN 2 ELSE IF m.xid = x THEN 1 ELSE 0)
    BY <2>1, <2>3, <2>4, RespondAsks
  <2>9. /\ Cardinality(With(sent, x)) \in Nat /\ Cardinality(With(multipartMsg, x)) \in Nat
        /\ Cardinality(With(sent', x)) \in Nat /\ Cardinality(With(multipartMsg', x)) \in Nat
    <3>1. ResponderTypeOK'
      BY <2>1, <2>3, <2>4, RespondType
    <3> QED BY <2>1, <3>1, CountedNat DEF ResponderTypeOK
  <2> QED BY <2>6, <2>7, <2>8, <2>9, <2>10
<1>2. CASE UNCHANGED <<responder, handled, script>>
  BY <1>2 DEF AskInv, With, RequestsWith, Settings, responder
<1>3. (simple_action /\ UNCHANGED script) \/ UNCHANGED <<responder, handled, script>>
  BY DEF Next, vars, Reader, ReaderStarts, ReaderTests, receive, receive_Closed, receive_Fails,
         ReaderPushes, ReaderEnds, Worker, WorkerTests, WorkerLooks, WorkerCopies, WorkerPops,
         WorkerDeletes, WorkerCrashes, Main, MainInput, MainDeletes, MainDrains, MainExits, workerVars
<1> QED BY <1>1, <1>2, <1>3

LEMMA InitAsks == Init => AskInv
<1> SUFFICES ASSUME Init, NEW x \in Nat
             PROVE  Cardinality(With(sent, x)) + Cardinality(With(multipartMsg, x))
                      <= Cardinality(RequestsWith(x)) + 2 * Cardinality(Settings)
  BY DEF AskInv
<1>1. sent = <<>> /\ multipartMsg = <<>> /\ handled = <<>>
  BY DEF Init, ResponderInit
<1>2. With(sent, x) = {} /\ With(multipartMsg, x) = {} /\ RequestsWith(x) = {} /\ Settings = {}
  BY <1>1 DEF With, RequestsWith, Settings
<1>3. Cardinality({}) = 0
  BY FS_EmptySet
<1> QED BY <1>2, <1>3

LEMMA AskedIsEnough ==
  ASSUME IInv, AskInv
  PROVE  AnswersAreAsked
<1>1. sent \in Seq(Reply) /\ multipartMsg \in Seq([type : Multipart, xid : Nat])
  BY DEF IInv, TypeOK, ResponderTypeOK
<1>2. ASSUME NEW r \in Range(sent)
      PROVE  Cardinality(With(sent, r.xid)) <= Cardinality(RequestsWith(r.xid)) + 2 * Cardinality(Settings)
  <2> DEFINE x == r.xid
  <2>1. x \in Nat
    <3>1. PICK i \in DOMAIN sent : r = sent[i]
      BY DEF Range
    <3>2. r \in Reply
      BY <1>1, <3>1, ElementOf
    <3> QED BY <3>2 DEF Reply
  <2>2. Cardinality(With(sent, x)) + Cardinality(With(multipartMsg, x))
          <= Cardinality(RequestsWith(x)) + 2 * Cardinality(Settings)
    BY <2>1 DEF AskInv
  <2>3. Cardinality(With(sent, x)) \in Nat /\ Cardinality(With(multipartMsg, x)) \in Nat
    BY <1>1, CountedNat
  <2>4. Cardinality(RequestsWith(x)) \in Nat /\ Cardinality(Settings) \in Nat
    <3>1. handled \in Seq(1..Messages)
      BY OrderTypes
    <3>2. /\ Len(handled) \in Nat
          /\ RequestsWith(x) \subseteq 1..Len(handled) /\ Settings \subseteq 1..Len(handled)
      BY <3>1 DEF RequestsWith, Settings
    <3>3. \A a, b \in Int : IsFiniteSet(a..b)
      BY FS_Interval
    <3>4. IsFiniteSet(1..Len(handled))
      BY <3>2, <3>3
    <3>5. IsFiniteSet(RequestsWith(x)) /\ IsFiniteSet(Settings)
      BY <3>2, <3>4, FS_Subset
    <3> QED BY <3>5, FS_CardinalityType
  <2> QED BY <2>2, <2>3, <2>4
<1>3. \A x : RequestsWith(x) = {i \in DOMAIN handled : script[handled[i]].xid = x} \ Settings
  BY DEF RequestsWith, Settings
<1> QED BY <1>2, <1>3 DEF AnswersAreAsked, With, Settings

(* No id is answered more often than it was asked with, but for what is    *)
(* found behind a SET_CONFIG, although three parties send and pieces of    *)
(* requests are kept in between (AnswersAreAsked).                         *)
THEOREM NothingUnasked == Spec => []AnswersAreAsked
<1>1. IInv /\ AskInv /\ [Next]_vars => AskInv'
  BY StepAsks
<1> QED BY <1>1, InitAsks, AskedIsEnough, Invariance, PTL DEF Spec

-----------------------------------------------------------------------------
(* The program.  A read that ends after the key was pressed is the         *)
(* reader's last, since it looks at run before it reads again; main goes   *)
(* on once every thread of a port is joined, and none is started then.     *)
QuitInv ==
  /\ late = 0 \/ (late = 1 /\ ~run /\ reader # "receive")
  /\ main = "exit" => \A i \in DOMAIN threads : threads[i] = "joined"

-----------------------------------------------------------------------------
(* A step of the program is one of the three threads', or a thread of a    *)
(* port ends and may take the process with it.                             *)
LEMMA StepOfThreads ==
  ASSUME ProgramNext
  PROVE  \/ Next
         \/ /\ alive' \in BOOLEAN
            /\ UNCHANGED <<script, socketQueue, run, main, readerVars, workerVars>>
         \/ UNCHANGED vars
<1>1. CASE WorkerSteps
  BY <1>1 DEF WorkerSteps, WorkerHandles, WorkerGoesOn, Worker, Next
<1>2. CASE alive /\ (ReaderReceives \/ ReaderIsClosed \/ ReaderGoesOn) /\ UNCHANGED script
  BY <1>2 DEF ReaderReceives, ReaderIsClosed, ReaderGoesOn, Reader, Next
<1>3. CASE alive /\ (MainGoesOn \/ MainCloses) /\ UNCHANGED script
  BY <1>3 DEF MainGoesOn, MainCloses, Main, Next
<1>4. CASE MainJoins
  BY <1>4 DEF MainJoins
<1>5. CASE PortThread
  BY <1>5 DEF PortThread
<1> QED BY <1>1, <1>2, <1>3, <1>4, <1>5 DEF ProgramNext

(* What is proved of the three threads.                                    *)
ThreadsInv == IInv /\ OrderInv /\ PlaceInv /\ AskInv

LEMMA ProgramStep == ThreadsInv /\ [ProgramNext]_allVars => ThreadsInv'
<1> SUFFICES ASSUME ThreadsInv, [ProgramNext]_allVars PROVE ThreadsInv'
  OBVIOUS
<1>1. CASE [Next]_vars
  BY <1>1, StepIInv, StepOrder, StepPlaces, StepAsks DEF ThreadsInv
<1>2. CASE /\ alive' \in BOOLEAN
           /\ UNCHANGED <<script, socketQueue, run, main, readerVars, workerVars>>
  <2>1. IInv'
    BY <1>2 DEF ThreadsInv, IInv, TypeOK, ResponderTypeOK, NothingEmpty, PopsWhatItHandled, Sound,
                OneMaster, PiecesOfOneRequest, readerVars, workerVars, responder
  <2>2. OrderInv'
    BY <1>2, RestOrder DEF ThreadsInv, readerVars, workerVars
  <2>3. PlaceInv'
    BY <1>2 DEF ThreadsInv, PlaceInv, Held, ToBeHandled, Sound, readerVars, workerVars
  <2>4. AskInv'
    BY <1>2 DEF ThreadsInv, AskInv, With, RequestsWith, Settings, workerVars, responder
  <2> QED BY <2>1, <2>2, <2>3, <2>4 DEF ThreadsInv
<1>3. CASE UNCHANGED allVars
  BY <1>1, <1>3 DEF allVars
<1> QED BY <1>1, <1>2, <1>3, StepOfThreads

LEMMA ProgramThreads == ProgramSpec => []ThreadsInv
<1>1. ProgramInit => ThreadsInv
  BY InitIInv, InitOrder, InitPlaces, InitAsks DEF ProgramInit, ThreadsInv
<1> QED BY <1>1, ProgramStep, PTL DEF ProgramSpec

(* What the worker copied without the lock is what it pops, there is one   *)
(* master at most, and pieces of two requests are never kept together, in  *)
(* the program with its pipeline, its ports' threads and its end           *)
(* (PopsWhatItHandled, OneMaster, PiecesOfOneRequest).                     *)
THEOREM ProgramKeepsThreads ==
  ProgramSpec => [](PopsWhatItHandled /\ OneMaster /\ PiecesOfOneRequest)
<1>1. ThreadsInv => PopsWhatItHandled /\ OneMaster /\ PiecesOfOneRequest
  BY DEF ThreadsInv, IInv
<1> QED BY <1>1, ProgramThreads, PTL

(* Nor does the program lose or double a message, handle those that came   *)
(* first in a read out of order, or answer an id more often than it may    *)
(* (NothingLostOrDoubled, HeadsInOrder, AnswersAreAsked).                  *)
THEOREM ProgramHandlesAll ==
  ProgramSpec => [](NothingLostOrDoubled /\ HeadsInOrder /\ AnswersAreAsked)
<1>1. ThreadsInv => NothingLostOrDoubled /\ AnswersAreAsked
  BY OneIsCounted, AskedIsEnough DEF ThreadsInv
<1>2. ThreadsInv => HeadsInOrder
  BY DEF ThreadsInv, OrderInv, Queued, Earlier, HeadsInOrder
<1> QED BY <1>1, <1>2, ProgramThreads, PTL

-----------------------------------------------------------------------------
(* What the managers say, from their construction on.                      *)
DescribesWhatItHas ==
  \A d \in Range(described) :
    /\ \E i \in DOMAIN handled : script[handled[i]].type = d.type /\ script[handled[i]].xid = d.xid
    /\ d.type = "PORT_DESC" => d.body = DescribePorts
    /\ d.type = "TABLE_FEATURES" => IsInjective(d.body) /\ Len(d.body) = numberOfTables

DescribeInv ==
  /\ listing \in Listings /\ ports = OFPortMng(listing)
  /\ tables = OFTableMng(numberOfTables)
  /\ \E S : described \in Seq(S)
  /\ DescribesWhatItHas

(* A list that is added to.                                                *)
LEMMA Added ==
  ASSUME NEW S, NEW s \in Seq(S), NEW e
  PROVE  /\ \E T : Append(s, e) \in Seq(T)
         /\ \A x \in Range(Append(s, e)) : x \in Range(s) \/ x = e
<1> DEFINE T == S \cup {e}
<1>1. s \in Seq(T)
  <2>1. s = [i \in 1..Len(s) |-> s[i]] /\ Len(s) \in Nat /\ \A i \in 1..Len(s) : s[i] \in S
    OBVIOUS
  <2>2. \A i \in 1..Len(s) : s[i] \in T
    BY <2>1
  <2> QED BY <2>1, <2>2
<1>2. e \in T
  OBVIOUS
<1> HIDE DEF T
<1>3. /\ Append(s, e) \in Seq(T) /\ DOMAIN Append(s, e) = 1..(Len(s) + 1)
      /\ \A i \in 1..(Len(s) + 1) :
           \/ i \in DOMAIN s /\ Append(s, e)[i] = s[i]
           \/ i = Len(s) + 1 /\ Append(s, e)[i] = e
  BY <1>1, <1>2, Appended
<1>4. ASSUME NEW x \in Range(Append(s, e)) PROVE x \in Range(s) \/ x = e
  <2>1. PICK i \in DOMAIN Append(s, e) : x = Append(s, e)[i]
    BY DEF Range
  <2> QED BY <1>3, <2>1 DEF Range
<1> QED BY <1>3, <1>4

LEMMA TablesAreDifferent ==
  ASSUME tables = OFTableMng(numberOfTables)
  PROVE  IsInjective(DescribeTables) /\ Len(DescribeTables) = numberOfTables
<1>1. DOMAIN tables = 1..2 /\ \A i \in 1..2 : tables[i].table_id = i - 1
  BY DEF OFTableMng, OFTable, numberOfTables
<1>2. DescribeTables = [i \in 1..2 |-> i - 1]
  BY <1>1 DEF DescribeTables
<1>3. IsInjective(DescribeTables)
  BY <1>2 DEF IsInjective
<1>4. Len(DescribeTables) = 2
  BY <1>2
<1> QED BY <1>3, <1>4 DEF numberOfTables

LEMMA DescribeStep ==
  ASSUME IInv, DescribeInv, [ProgramNext]_allVars
  PROVE  DescribeInv'
<1>1. UNCHANGED <<listing, ports, tables>> /\ script' = script
  BY DEF ProgramNext, WorkerSteps, WorkerHandles, WorkerGoesOn, ReaderReceives, ReaderIsClosed,
         ReaderGoesOn, MainGoesOn, MainCloses, MainJoins, PortThread, pipeline, portsMng, allVars, vars
<1>2. CASE WorkerHandles /\ UNCHANGED script
  <2> DEFINE v == Head(request)
             m == script[v]
             d == [type |-> m.type, xid |-> m.xid, body |-> Description(m)]
  <2>1. /\ request \in Seq(1..Messages) /\ request # <<>> /\ handled \in Seq(1..Messages)
        /\ handled' = Append(handled, v)
    BY <1>2, OrderTypes DEF WorkerHandles, simple_action, IInv, NothingEmpty
  <2>2. v \in 1..Messages
    BY <2>1, Shortened
  <2>3. /\ DOMAIN handled' = 1..(Len(handled) + 1) /\ Len(handled) \in Nat
        /\ DOMAIN handled = 1..Len(handled) /\ handled'[Len(handled) + 1] = v
        /\ \A i \in DOMAIN handled : i \in DOMAIN handled' /\ handled'[i] = handled[i]
    <3> DEFINE M == 1..Messages
    <3>1. handled \in Seq(M) /\ v \in M
      BY <2>1, <2>2
    <3> HIDE DEF M, v
    <3> QED BY <2>1, <3>1
  <2>4. PICK S : described \in Seq(S)
    BY DEF DescribeInv
  <2>5. \/ described' = described
        \/ described' = Append(described, d) /\ Description(m) # <<>>
    BY <1>2 DEF WorkerHandles, PipelineResponds
  <2>6. /\ \E T : described' \in Seq(T)
        /\ \A x \in Range(described') :
             x \in Range(described) \/ (x = d /\ Description(m) # <<>>)
    <3>1. CASE described' = described
      BY <2>4, <3>1
    <3> HIDE DEF d
    <3>2. CASE described' = Append(described, d) /\ Description(m) # <<>>
      <4>1. /\ \E T : Append(described, d) \in Seq(T)
            /\ \A x \in Range(Append(described, d)) : x \in Range(described) \/ x = d
        BY <2>4, Added
      <4> QED BY <3>2, <4>1
    <3> QED BY <2>5, <3>1, <3>2
  <2>7. ASSUME NEW x \in Range(described)
        PROVE  /\ \E i \in DOMAIN handled' :
                    script[handled'[i]].type = x.type /\ script[handled'[i]].xid = x.xid
               /\ x.type = "PORT_DESC" =>
                    x.body = DescribePorts
               /\ x.type = "TABLE_FEATURES" => IsInjective(x.body) /\ Len(x.body) = numberOfTables
    <3>1. /\ \E i \in DOMAIN handled : script[handled[i]].type = x.type /\ script[handled[i]].xid = x.xid
          /\ x.type = "PORT_DESC" =>
               x.body = DescribePorts
          /\ x.type = "TABLE_FEATURES" => IsInjective(x.body) /\ Len(x.body) = numberOfTables
      BY DEF DescribeInv, DescribesWhatItHas
    <3>2. PICK i \in DOMAIN handled : script[handled[i]].type = x.type /\ script[handled[i]].xid = x.xid
      BY <3>1
    <3>3. i \in DOMAIN handled' /\ handled'[i] = handled[i]
      BY <2>3
    <3> QED BY <3>1, <3>2, <3>3
  <2>8. d.type = m.type /\ d.xid = m.xid /\ d.body = Description(m)
    OBVIOUS
  <2>9. /\ Len(handled) + 1 \in DOMAIN handled'
        /\ script[handled'[Len(handled) + 1]] = m
    BY <2>3
  <2> HIDE DEF d, m, v
  <2>10. ASSUME Description(m) # <<>>
         PROVE  /\ m.type = "PORT_DESC" =>
                     Description(m) = DescribePorts
                /\ m.type = "TABLE_FEATURES" =>
                     IsInjective(Description(m)) /\ Len(Description(m)) = numberOfTables
    <3>1. CASE m.type = "PORT_DESC"
      <4>1. TablesAnswer(m) = <<>> /\ PortsAnswer(m) = DescribePorts
        BY <3>1 DEF TablesAnswer, PortsAnswer
      <4>2. Description(m) = DescribePorts
        BY <2>10, <4>1 DEF Description
      <4> QED BY <3>1, <4>2 DEF DescribePorts, DescribeInv
    <3>2. CASE m.type = "TABLE_FEATURES"
      <4>1. PortsAnswer(m) = <<>> /\ TablesAnswer(m) = DescribeTables
        BY <3>2 DEF TablesAnswer, PortsAnswer
      <4>2. Description(m) = DescribeTables
        BY <4>1 DEF Description
      <4> QED BY <3>2, <4>2, TablesAreDifferent DEF DescribeInv
    <3> QED BY <3>1, <3>2
  <2>11. DescribesWhatItHas'
    <3> SUFFICES ASSUME NEW x \in Range(described')
                 PROVE  /\ \E i \in DOMAIN handled' :
                             script[handled'[i]].type = x.type /\ script[handled'[i]].xid = x.xid
                        /\ x.type = "PORT_DESC" =>
                             x.body = DescribePorts
                        /\ x.type = "TABLE_FEATURES" =>
                             IsInjective(x.body) /\ Len(x.body) = numberOfTables
      BY <1>1 DEF DescribesWhatItHas, Range, numberOfTables, DescribePorts
    <3>1. CASE x \in Range(described)
      BY <2>7, <3>1
    <3>2. CASE x = d /\ Description(m) # <<>>
      BY <2>8, <2>9, <2>10, <3>2
    <3> QED BY <2>6, <3>1, <3>2
  <2> QED BY <1>1, <2>6, <2>11 DEF DescribeInv
<1>3. CASE UNCHANGED <<described, handled>>
  BY <1>1, <1>3 DEF DescribeInv, DescribesWhatItHas, DescribePorts
<1>4. (WorkerHandles /\ UNCHANGED script) \/ UNCHANGED <<described, handled>>
  BY DEF ProgramNext, WorkerSteps, WorkerGoesOn, WorkerTests, WorkerLooks, WorkerCopies, WorkerPops,
         WorkerDeletes, WorkerCrashes, ReaderReceives, receive, ReaderIsClosed, receive_Closed,
         ReaderGoesOn, ReaderStarts, ReaderTests, receive_Fails, ReaderPushes, ReaderEnds, MainGoesOn,
         MainInput, MainDeletes, MainExits, MainCloses, MainDrains, MainJoins, PortThread, allVars,
         vars, workerVars
<1> QED BY <1>2, <1>3, <1>4

(* The entries of a directory take the places 0, 1, ... one after another. *)
LEMMA PlacesAreTaken ==
  ASSUME NEW n \in Nat, NEW K \in SUBSET (1..n)
  PROVE  /\ IsFiniteSet(K) /\ Cardinality(K) \in Nat
         /\ \A k \in K : Before(K, k) \in 0..(Cardinality(K) - 1)
         /\ \A j, k \in K : Before(K, j) = Before(K, k) => j = k
         /\ \A i \in 1..Cardinality(K) : \E k \in K : Before(K, k) = i - 1
<1> DEFINE c == Cardinality(K)
           Lower(k) == {j \in K : j < k}
           P == [k \in K |-> Cardinality(Lower(k))]
<1>1. IsFiniteSet(K) /\ c \in Nat
  <2>1. IsFiniteSet(1..n)
    BY FS_Interval
  <2> QED BY <2>1, FS_Subset, FS_CardinalityType
<1>2. \A k \in K : IsFiniteSet(Lower(k)) /\ Cardinality(Lower(k)) \in 0..(c - 1)
  <2> TAKE k \in K
  <2>1. Lower(k) \in SUBSET K /\ k \notin Lower(k)
    OBVIOUS
  <2>2. IsFiniteSet(Lower(k)) /\ Cardinality(Lower(k)) <= c /\ Cardinality(Lower(k)) # c
    BY <1>1, <2>1, FS_Subset
  <2>3. Cardinality(Lower(k)) \in Nat
    BY <2>2, FS_CardinalityType
  <2> QED BY <1>1, <2>2, <2>3
<1>3. ASSUME NEW j \in K, NEW k \in K, j < k
      PROVE  Cardinality(Lower(j)) < Cardinality(Lower(k))
  <2>1. Lower(j) \in SUBSET Lower(k) /\ Lower(j) # Lower(k)
    <3>1. \A i \in K : i \in Int
      OBVIOUS
    <3>2. j \in Lower(k) /\ j \notin Lower(j)
      BY <1>3, <3>1
    <3>3. \A i \in K : i < j => i < k
      BY <1>3, <3>1
    <3> QED BY <3>2, <3>3
  <2>2. /\ Cardinality(Lower(j)) <= Cardinality(Lower(k))
        /\ Cardinality(Lower(j)) # Cardinality(Lower(k))
    BY <1>2, <2>1, FS_Subset
  <2> QED BY <1>2, <2>2
<1>4. \A j, k \in K : P[j] = P[k] => j = k
  <2>1. \A k \in K : k \in Int /\ P[k] \in Int
    BY <1>2
  <2>2. \A j, k \in K : j < k => P[j] < P[k]
    BY <1>3
  <2> HIDE DEF P
  <2> TAKE j, k \in K
  <2> HAVE P[j] = P[k]
  <2>3. j \in Int /\ k \in Int /\ P[j] \in Int /\ P[k] \in Int
    BY <2>1
  <2>4. ~(j < k) /\ ~(k < j)
    BY <2>2, <2>3
  <2> QED BY <2>3, <2>4
<1>5. P \in Injection(K, 0..(c - 1))
  <2>1. P \in [K -> 0..(c - 1)]
    BY <1>2
  <2> HIDE DEF P, c
  <2> QED BY <1>4, <2>1, Fun_IsInj
<1>6. \A i \in 0..(c - 1) : \E k \in K : P[k] = i
  <2>1. IsFiniteSet(0..(c - 1)) /\ Cardinality(0..(c - 1)) = c
    BY <1>1, FS_Interval
  <2> HIDE DEF P, c
  <2>2. P \in Surjection(K, 0..(c - 1))
    BY <1>5, <2>1, FS_Injection DEF c
  <2> DEFINE T == 0..(c - 1)
  <2>3. P \in Surjection(K, T)
    BY <2>2
  <2> HIDE DEF T
  <2>4. \A i \in T : \E k \in K : P[k] = i
    BY <2>3, Fun_SurjectionProperties
  <2> QED BY <2>4 DEF T
<1>7. \A i \in 1..c : i - 1 \in 0..(c - 1)
  BY <1>1
<1> QED BY <1>1, <1>2, <1>4, <1>6, <1>7 DEF Before

(* The ports that are made of a directory: one for every device that can   *)
(* be read, and the local port; their numbers differ although the          *)
(* directory lists entries that become no port.                            *)
LEMMA PortsAreDevices ==
  ASSUME NEW l \in Seq(Device)
  PROVE  LET ps   == OFPortMng(l)
             live == {i \in Readable(l) : l[i].operstate # "down"}
         IN /\ Len(ps) = Cardinality(Readable(l)) + 1 /\ DOMAIN ps = 1..Len(ps)
            /\ Cardinality({p.port_no : p \in Range(ps)}) = Len(ps)
            /\ Cardinality({p \in Range(ps) : p.state = "LIVE"}) = Cardinality(live) + 1
<1> DEFINE ps == OFPortMng(l)
           live == {i \in Readable(l) : l[i].operstate # "down"}
           n == Cardinality(Readable(l))
           dev == [k \in 1..n |-> CHOOSE i \in Readable(l) : Before(Readable(l), i) = k - 1]
           port == [i \in Readable(l) |->
                      OFPhysicalPort(Before(Entries(l), i), State(l[i]), Features(l[i]))]
<1>1. /\ Readable(l) \in SUBSET (1..Len(l)) /\ Entries(l) \in SUBSET (1..Len(l))
      /\ Readable(l) \subseteq Entries(l) /\ Len(l) \in Nat
  BY DEF Readable, Entries
<1>2. IsFiniteSet(Readable(l)) /\ n \in Nat
  BY <1>1, PlacesAreTaken
<1>3. /\ \A j, k \in Readable(l) : Before(Readable(l), j) = Before(Readable(l), k) => j = k
      /\ \A i \in Readable(l) : Before(Readable(l), i) \in 0..(n - 1)
      /\ \A k \in 1..n : \E i \in Readable(l) : Before(Readable(l), i) = k - 1
  BY <1>1, PlacesAreTaken
<1>4. /\ \A i \in Entries(l) : Before(Entries(l), i) \in Nat
      /\ \A i, j \in Entries(l) : Before(Entries(l), i) = Before(Entries(l), j) => i = j
  <2> DEFINE E == Entries(l)
  <2>1. E \in SUBSET (1..Len(l)) /\ Len(l) \in Nat
    BY <1>1
  <2> HIDE DEF E
  <2>2. /\ Cardinality(E) \in Nat
        /\ \A i \in E : Before(E, i) \in 0..(Cardinality(E) - 1)
        /\ \A i, j \in E : Before(E, i) = Before(E, j) => i = j
    BY <2>1, PlacesAreTaken
  <2>3. \A i \in E : Before(E, i) \in Nat
    BY <2>2
  <2> QED BY <2>2, <2>3 DEF E
<1>5. \A k \in 1..n : dev[k] \in Readable(l) /\ Before(Readable(l), dev[k]) = k - 1
  BY <1>3
<1>6. \A i \in Readable(l) : \E k \in 1..n : dev[k] = i
  <2> TAKE i \in Readable(l)
  <2>1. Before(Readable(l), i) + 1 \in 1..n
    BY <1>2, <1>3
  <2>2. /\ dev[Before(Readable(l), i) + 1] \in Readable(l)
        /\ Before(Readable(l), dev[Before(Readable(l), i) + 1]) = Before(Readable(l), i)
    BY <1>2, <1>3, <1>5, <2>1
  <2> QED BY <1>3, <2>1, <2>2
<1>7. \A j, k \in 1..n : dev[j] = dev[k] => j = k
  <2> HIDE DEF dev
  <2> QED BY <1>2, <1>5
<1>8. /\ Len(ps) = n + 1 /\ DOMAIN ps = 1..(n + 1)
      /\ \A k \in 1..n : ps[k] = port[dev[k]]
      /\ ps[n + 1] = LocalPort
  <2> DEFINE s == [k \in 1..n |-> port[dev[k]]]
             T == {port[i] : i \in Readable(l)} \cup {LocalPort}
  <2>1. ps = Append(s, LocalPort)
    <3>1. \A k \in 1..n : port[dev[k]] = LET i == CHOOSE i \in Readable(l) : Before(Readable(l), i) = k - 1
            IN OFPhysicalPort(Before(Entries(l), i), State(l[i]), Features(l[i]))
      BY <1>5
    <3> QED BY <3>1 DEF OFPortMng
  <2>2. s \in [1..n -> T] /\ LocalPort \in T
    BY <1>5
  <2> HIDE DEF ps, n, port, dev, T
  <2>3. s \in Seq(T) /\ Len(s) = n /\ DOMAIN s = 1..n
    BY <1>2, <2>2
  <2>4. /\ Append(s, LocalPort) \in Seq(T) /\ Len(Append(s, LocalPort)) = n + 1
        /\ \A k \in 1..n : Append(s, LocalPort)[k] = s[k]
        /\ Append(s, LocalPort)[n + 1] = LocalPort
    <3> HIDE DEF s
    <3> QED BY <1>2, <2>2, <2>3
  <2>5. \A k \in 1..n : s[k] = port[dev[k]]
    OBVIOUS
  <2> HIDE DEF s
  <2> QED BY <2>1, <2>3, <2>4, <2>5
<1>9. \A i \in Readable(l) :
        port[i].port_no = Before(Entries(l), i) /\ port[i].state = State(l[i])
  BY DEF OFPhysicalPort
<1>10. LocalPort.port_no = OFPP_LOCAL /\ LocalPort.state = "LIVE" /\ OFPP_LOCAL \notin Nat
  BY PipelineAssumption DEF LocalPort, OFPhysicalPort
<1> HIDE DEF ps, n, port, dev
<1>11. Cardinality({p.port_no : p \in Range(ps)}) = n + 1
  <2> DEFINE N == 1..(n + 1)
             no == [k \in N |-> ps[k].port_no]
             T == {p.port_no : p \in Range(ps)}
  <2>1. \A k \in 1..n : no[k] = Before(Entries(l), dev[k]) /\ dev[k] \in Entries(l)
    BY <1>1, <1>2, <1>5, <1>8, <1>9
  <2>2. no[n + 1] = OFPP_LOCAL
    BY <1>2, <1>8, <1>10
  <2>3. \A k \in N : k \in 1..n \/ k = n + 1
    BY <1>2
  <2>4. \A k \in N : no[k] \in T
    BY <1>8 DEF Range
  <2>5. \A x \in T : \E k \in N : no[k] = x
    <3> TAKE x \in T
    <3>1. PICK p \in Range(ps) : x = p.port_no
      OBVIOUS
    <3>2. PICK k \in DOMAIN ps : p = ps[k]
      BY DEF Range
    <3> QED BY <1>8, <3>1, <3>2
  <2>6. no \in [N -> T]
    BY <2>4
  <2> HIDE DEF no, T
  <2>7. \A j, k \in N : no[j] = no[k] => j = k
    BY <1>4, <1>7, <1>10, <2>1, <2>2, <2>3
  <2> HIDE DEF N
  <2>8. no \in Surjection(N, T) /\ no \in Injection(N, T)
    BY <2>5, <2>6, <2>7, Fun_IsSurj, Fun_IsInj
  <2>9. IsFiniteSet(N) /\ Cardinality(N) = n + 1
    BY <1>2, FS_Interval DEF N
  <2>10. Cardinality(T) = Cardinality(N)
    BY <2>8, <2>9, FS_Surjection
  <2> QED BY <2>9, <2>10 DEF T
<1>12. Cardinality({p \in Range(ps) : p.state = "LIVE"}) = Cardinality(live) + 1
  <2> DEFINE S == live \cup {0}
             T == {p \in Range(ps) : p.state = "LIVE"}
             g == [i \in S |-> IF i = 0 THEN LocalPort ELSE port[i]]
  <2>1. \A i \in live : i \in Readable(l) /\ i # 0 /\ port[i].state = "LIVE"
    BY <1>1, <1>9 DEF State
  <2>2. \A i \in Readable(l) : port[i].state = "LIVE" => i \in live
    BY <1>9 DEF State
  <2>3. g[0] = LocalPort /\ \A i \in live : g[i] = port[i]
    BY <2>1
  <2>4. \A i \in S : g[i] \in T
    <3> TAKE i \in S
    <3>1. CASE i = 0
      BY <1>2, <1>8, <1>10, <2>3, <3>1 DEF Range
    <3>2. CASE i \in live
      <4>1. PICK k \in 1..n : dev[k] = i
        BY <1>6, <2>1, <3>2
      <4>2. k \in DOMAIN ps /\ ps[k] = port[i]
        BY <1>2, <1>8, <4>1
      <4> QED BY <2>1, <2>3, <3>2, <4>2 DEF Range
    <3> QED BY <3>1, <3>2
  <2>5. \A x \in T : \E i \in S : g[i] = x
    <3> TAKE x \in T
    <3>1. PICK k \in DOMAIN ps : x = ps[k]
      BY DEF Range
    <3>2. CASE k = n + 1
      BY <1>8, <2>3, <3>1, <3>2
    <3>3. CASE k \in 1..n
      <4>1. x = port[dev[k]] /\ dev[k] \in Readable(l)
        BY <1>5, <1>8, <3>1, <3>3
      <4>2. dev[k] \in live
        BY <2>2, <4>1
      <4> QED BY <2>3, <4>1, <4>2
    <3>4. k = n + 1 \/ k \in 1..n
      BY <1>2, <1>8
    <3> QED BY <3>2, <3>3, <3>4
  <2>6. g \in [S -> T]
    BY <2>4
  <2>7. IsFiniteSet(S) /\ Cardinality(S) = Cardinality(live) + 1
    <3>1. IsFiniteSet(live) /\ 0 \notin live
      BY <1>2, <2>1, FS_Subset
    <3> HIDE DEF live
    <3> QED BY <3>1, FS_AddElement
  <2> HIDE DEF g
  <2>8. \A i, j \in S : g[i] = g[j] => i = j
    <3> TAKE i, j \in S
    <3> HAVE g[i] = g[j]
    <3>1. \A x \in live : g[x].port_no \in Nat /\ g[x].port_no = Before(Entries(l), x) /\ x \in Entries(l)
      BY <1>1, <1>4, <1>9, <2>1, <2>3
    <3>2. g[0].port_no \notin Nat
      BY <1>10, <2>3
    <3> HIDE DEF live
    <3> QED BY <1>4, <3>1, <3>2
  <2> HIDE DEF T, S, live
  <2>9. g \in Surjection(S, T) /\ g \in Injection(S, T)
    BY <2>5, <2>6, <2>8, Fun_IsSurj, Fun_IsInj
  <2>10. Cardinality(T) = Cardinality(S)
    BY <2>7, <2>9, FS_Surjection
  <2> QED BY <2>7, <2>10 DEF T
<1> QED BY <1>8, <1>11, <1>12 DEF ps, n

LEMMA DescribedIsThere == DescribeInv => DescribesTheSwitch
<1> SUFFICES ASSUME DescribeInv, NEW d \in Range(described)
             PROVE  /\ \E i \in DOMAIN handled :
                         script[handled[i]].type = d.type /\ script[handled[i]].xid = d.xid
                    /\ d.type = "PORT_DESC" =>
                         LET devices == {i \in DOMAIN listing :
                                           /\ listing[i].name # "lo"
                                           /\ listing[i].operstate # "unreadable"}
                             live    == {i \in devices : listing[i].operstate # "down"}
                         IN /\ Len(d.body) = Cardinality(devices) + 1
                            /\ Cardinality({p.port_no : p \in Range(d.body)}) = Len(d.body)
                            /\ Cardinality({p \in Range(d.body) : p.state = "LIVE"}) = Cardinality(live) + 1
                    /\ d.type = "TABLE_FEATURES" => IsInjective(d.body) /\ Len(d.body) = numberOfTables
  BY DEF DescribesTheSwitch
<1>1. /\ \E i \in DOMAIN handled : script[handled[i]].type = d.type /\ script[handled[i]].xid = d.xid
      /\ d.type = "PORT_DESC" => d.body = DescribePorts
      /\ d.type = "TABLE_FEATURES" => IsInjective(d.body) /\ Len(d.body) = numberOfTables
  BY DEF DescribeInv, DescribesWhatItHas
<1>2. listing \in Seq(Device) /\ ports = OFPortMng(listing)
  BY PipelineAssumption DEF DescribeInv
<1>3. Readable(listing) = {i \in DOMAIN listing : /\ listing[i].name # "lo"
                                                 /\ listing[i].operstate # "unreadable"}
  BY DEF Readable, Entries
<1>4. /\ Len(ports) = Cardinality(Readable(listing)) + 1 /\ DOMAIN ports = 1..Len(ports)
      /\ Cardinality({p.port_no : p \in Range(ports)}) = Len(ports)
      /\ Cardinality({p \in Range(ports) : p.state = "LIVE"})
           = Cardinality({i \in Readable(listing) : listing[i].operstate # "down"}) + 1
  BY <1>2, PortsAreDevices
<1>5. Range(DescribePorts) = Range(ports)
  BY DEF DescribePorts, Range
<1>6. Len(DescribePorts) = Len(ports)
  <2>1. DOMAIN DescribePorts = 1..Len(ports)
    BY <1>4 DEF DescribePorts
  <2>2. Len(ports) \in Nat
    BY <1>2, <1>4, PlacesAreTaken DEF Readable, Entries
  <2> QED BY <2>1, <2>2 DEF DescribePorts
<1> QED BY <1>1, <1>3, <1>4, <1>5, <1>6

(* What the controller is told answers a message that was handled, by type *)
(* and id, and describes the switch, whatever the directory of the devices *)
(* lists (DescribesTheSwitch).                                             *)
THEOREM SwitchIsDescribed == ProgramSpec => []DescribesTheSwitch
<1>1. ProgramInit => DescribeInv
  <2> SUFFICES ASSUME ProgramInit PROVE DescribeInv
    OBVIOUS
  <2>1. /\ described = <<>> /\ listing \in Listings /\ ports = OFPortMng(listing)
        /\ tables = OFTableMng(numberOfTables)
    BY DEF ProgramInit, PipelineInit
  <2>2. \E S : described \in Seq(S)
    BY <2>1
  <2>3. DescribesWhatItHas
    BY <2>1 DEF DescribesWhatItHas, Range
  <2> QED BY <2>1, <2>2, <2>3 DEF DescribeInv
<1>2. ThreadsInv /\ DescribeInv /\ [ProgramNext]_allVars => DescribeInv'
  BY DescribeStep DEF ThreadsInv
<1> QED BY <1>1, <1>2, DescribedIsThere, ProgramThreads, PTL DEF ProgramSpec

-----------------------------------------------------------------------------
LEMMA QuitStep == QuitInv /\ [ProgramNext]_allVars => QuitInv'
<1> SUFFICES ASSUME QuitInv, [ProgramNext]_allVars PROVE QuitInv'
  OBVIOUS
<1> USE DEF QuitInv
<1>1. CASE UNCHANGED allVars
  BY <1>1 DEF allVars, vars, pipeline, readerVars
<1>2. CASE WorkerSteps
  <2>1. UNCHANGED <<late, threads>>
    BY <1>2 DEF WorkerSteps, WorkerHandles, WorkerGoesOn, pipeline
  <2>2. CASE WorkerHandles
    BY <2>1, <2>2 DEF WorkerHandles, simple_action, readerVars
  <2>3. CASE WorkerTests \/ WorkerLooks \/ WorkerCopies
    BY <2>1, <2>3 DEF WorkerTests, WorkerLooks, WorkerCopies, readerVars
  <2>4. CASE WorkerPops
    BY <2>1, <2>4 DEF WorkerPops, readerVars
  <2>5. CASE WorkerDeletes
    <3>1. UNCHANGED <<run, reader, main>>
      BY <2>5 DEF WorkerDeletes, readerVars
    <3> QED BY <2>1, <3>1
  <2>6. CASE WorkerCrashes
    BY <2>1, <2>6 DEF WorkerCrashes, readerVars
  <2> QED BY <1>2, <2>2, <2>3, <2>4, <2>5, <2>6 DEF WorkerSteps, WorkerGoesOn
<1>3. CASE ReaderReceives
  BY <1>3 DEF ReaderReceives, receive, pipeline
<1>4. CASE ReaderIsClosed
  BY <1>4 DEF ReaderIsClosed, receive_Closed, pipeline
<1>5. CASE ReaderGoesOn
  BY <1>5 DEF ReaderGoesOn, ReaderStarts, ReaderTests, receive_Fails, ReaderPushes, ReaderEnds,
              readerVars, pipeline
<1>6. CASE MainGoesOn
  <2>1. CASE MainInput
    <3>1. run' = FALSE \/ run' = run
      BY <2>1 DEF MainInput
    <3>2. main' # "exit" /\ UNCHANGED <<late, reader, threads>>
      BY <1>6, <2>1 DEF MainGoesOn, MainInput, readerVars, pipeline
    <3> QED BY <3>1, <3>2
  <2>2. CASE MainDeletes \/ MainExits
    BY <1>6, <2>2 DEF MainGoesOn, MainDeletes, MainExits, readerVars, pipeline
  <2> QED BY <1>6, <2>1, <2>2 DEF MainGoesOn
<1>7. CASE MainCloses
  BY <1>7 DEF MainCloses, MainDrains, readerVars, pipeline
<1>8. CASE MainJoins
  BY <1>8 DEF MainJoins, vars, readerVars
<1>9. CASE PortThread
  BY <1>9 DEF PortThread, readerVars
<1> QED BY <1>1, <1>2, <1>3, <1>4, <1>5, <1>6, <1>7, <1>8, <1>9 DEF ProgramNext

(* After the key at most one read still ends, and no thread of a port is   *)
(* left running, for any devices and any number of messages                *)
(* (QuitIsOrderly).                                                        *)
THEOREM ProgramEndsOrderly == ProgramSpec => []QuitIsOrderly
<1>1. ProgramInit => QuitInv
  BY DEF ProgramInit, Init, PipelineInit, QuitInv
<1>2. QuitInv => QuitIsOrderly
  BY DEF QuitInv, QuitIsOrderly
<1> QED BY <1>1, <1>2, QuitStep, PTL DEF ProgramSpec
=============================================================================
