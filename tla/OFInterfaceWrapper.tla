-------------------------- MODULE OFInterfaceWrapper --------------------------
(***************************************************************************)
(* The supervision of a link by pings, Elements/OFInterfaceWrapper/        *)
(* OFInterfaceWrapper.cc: the two wrappers at the ends of a link, and the  *)
(* link between them, which keeps the order of what it carries but may     *)
(* delay and, while it is down, lose it.                                   *)
(***************************************************************************)
EXTENDS PortState, Sequences, FiniteSets

CONSTANTS
  Ends,         (* the two wrappers                                          *)
  Peer,         (* the wrapper at the other end                              *)
  VLC,          (* the ends configured with VLC true: they send pings        *)
  SeqNumbers,   (* how many values a uint64_t sequence number has            *)
  Trys,         (* how many values the uint8_t _pingTrys has                 *)
  MaxInFlight   (* bound: how many pings of an end may be sent and not yet   *)
                (* answered or lost, its timer's last one included           *)

ASSUME WrapperAssumption ==
  /\ Peer \in [Ends -> Ends]
  /\ \A e \in Ends : Peer[e] # e /\ Peer[Peer[e]] = e
  /\ VLC \subseteq Ends
  /\ SeqNumbers \in Nat /\ SeqNumbers > 1
  /\ Trys \in Nat /\ Trys > 4
  /\ MaxInFlight \in [Ends -> Nat \ {0}]

VARIABLES
  seqNummer, responseSeqNummer, pingTrys,
  state,     (* _portStruct->state, in network order                         *)
  status,    (* the state a PORT_STATUS sent in this step carries, or None   *)
  link,      (* what is on the way to each end                               *)
  up,        (* whether the link delivers                                    *)
  silent     (* history: timer events since the last response, up to five    *)

pings == <<seqNummer, responseSeqNummer, pingTrys, state, status, silent>>
vars == <<pings, link, up>>

None == 0
NoStatus == [e \in Ends |-> None]

Down == __builtin_bswap32(OFPPS_LINK_DOWN)
Live == __builtin_bswap32(OFPPS_LIVE)

Message == [type : {"PING_REQUEST", "PING_RESPONSE"}, seqNummer : 0..SeqNumbers-1]

-----------------------------------------------------------------------------
Init ==
  /\ seqNummer = [e \in Ends |-> 0]
  /\ responseSeqNummer = [e \in Ends |-> 0]
  /\ pingTrys = [e \in Ends |-> 0]
  /\ state = [e \in Ends |-> Live]
  /\ status = NoStatus
  /\ link = [e \in Ends |-> <<>>]
  /\ up = TRUE
  /\ silent = [e \in Ends |-> 0]

Ping(type, n) == [type |-> type, seqNummer |-> n]

sendPing(e, type, n) ==
  link' = [link EXCEPT ![Peer[e]] = Append(@, Ping(type, n))]

sendPortStatusMessage(e) == status' = [NoStatus EXCEPT ![e] = state'[e]]

Positions(s, type) == {i \in DOMAIN s : s[i].type = type}

(* The pings of e that are on their way there or back.                     *)
InFlight(e) == Cardinality(Positions(link[Peer[e]], "PING_REQUEST"))
                 + Cardinality(Positions(link[e], "PING_RESPONSE"))

(* Mutant: a new number whether or not the last was answered.              *)
NextPing_Always(e) ==
  /\ seqNummer' = [seqNummer EXCEPT ![e] = (@ + 1) % SeqNumbers]
  /\ status' = NoStatus
  /\ UNCHANGED <<pingTrys, state>>

NextPing(e) ==
  /\ responseSeqNummer[e] = seqNummer[e]
  /\ seqNummer' = [seqNummer EXCEPT ![e] = (@ + 1) % SeqNumbers]
  /\ status' = NoStatus
  /\ UNCHANGED <<pingTrys, state>>

GivesUp(e) == pingTrys[e] >= 3 /\ state[e] # Down

LinkDown(e) ==
  /\ responseSeqNummer[e] # seqNummer[e]
  /\ GivesUp(e)
  /\ state' = [state EXCEPT ![e] = Down]
  /\ sendPortStatusMessage(e)
  /\ UNCHANGED <<seqNummer, pingTrys>>

(* Mutant: the tries are not counted.                                      *)
Retry_NoCount(e) ==
  /\ responseSeqNummer[e] # seqNummer[e]
  /\ ~GivesUp(e)
  /\ status' = NoStatus
  /\ UNCHANGED <<seqNummer, pingTrys, state>>

Retry(e) ==
  /\ responseSeqNummer[e] # seqNummer[e]
  /\ ~GivesUp(e)
  /\ pingTrys' = [pingTrys EXCEPT ![e] = (@ + 1) % Trys]
  /\ status' = NoStatus
  /\ UNCHANGED <<seqNummer, state>>

(* Mutant: a port that is down is not pinged any more.                     *)
run_timer_QuietWhenDown(e) ==
  /\ InFlight(e) < MaxInFlight[e]
  /\ NextPing(e) \/ LinkDown(e) \/ Retry(e)
  /\ IF state[e] = Live THEN sendPing(e, "PING_REQUEST", seqNummer'[e]) ELSE link' = link
  /\ silent' = [silent EXCEPT ![e] = IF @ < 5 THEN @ + 1 ELSE @]
  /\ UNCHANGED <<responseSeqNummer, up>>

run_timer(e) ==
  /\ InFlight(e) < MaxInFlight[e]
  /\ NextPing(e) \/ LinkDown(e) \/ Retry(e)
  /\ sendPing(e, "PING_REQUEST", seqNummer'[e])
  /\ silent' = [silent EXCEPT ![e] = IF @ < 5 THEN @ + 1 ELSE @]
  /\ UNCHANGED <<responseSeqNummer, up>>

(* push() on port 1: the next frame from the device.                       *)
PingRequest(e) ==
  /\ up /\ link[e] # <<>> /\ Head(link[e]).type = "PING_REQUEST"
  /\ link' = [link EXCEPT ![e] = Tail(@),
                          ![Peer[e]] = Append(@, Ping("PING_RESPONSE", Head(link[e]).seqNummer))]
  /\ status' = NoStatus
  /\ UNCHANGED <<seqNummer, responseSeqNummer, pingTrys, state, silent, up>>

(* Mutant: a response does not reset the tries.                            *)
PingResponse_NoReset(e) ==
  /\ up /\ link[e] # <<>> /\ Head(link[e]).type = "PING_RESPONSE"
  /\ link' = [link EXCEPT ![e] = Tail(@)]
  /\ responseSeqNummer' = [responseSeqNummer EXCEPT ![e] = Head(link[e]).seqNummer]
  /\ state' = [state EXCEPT ![e] = Live]
  /\ IF state[e] # Live THEN sendPortStatusMessage(e) ELSE status' = NoStatus
  /\ silent' = [silent EXCEPT ![e] = 0]
  /\ UNCHANGED <<seqNummer, pingTrys, up>>

PingResponse(e) ==
  /\ up /\ link[e] # <<>> /\ Head(link[e]).type = "PING_RESPONSE"
  /\ link' = [link EXCEPT ![e] = Tail(@)]
  /\ responseSeqNummer' = [responseSeqNummer EXCEPT ![e] = Head(link[e]).seqNummer]
  /\ pingTrys' = [pingTrys EXCEPT ![e] = 0]
  /\ state' = [state EXCEPT ![e] = Live]
  /\ IF state[e] # Live THEN sendPortStatusMessage(e) ELSE status' = NoStatus
  /\ silent' = [silent EXCEPT ![e] = 0]
  /\ UNCHANGED <<seqNummer, up>>

-----------------------------------------------------------------------------
(* The link: frames are lost while it is down, and it may break and be     *)
(* repaired at any time.                                                   *)
Lose(e) ==
  /\ ~up /\ link[e] # <<>>
  /\ link' = [link EXCEPT ![e] = Tail(@)]
  /\ status' = NoStatus
  /\ UNCHANGED <<seqNummer, responseSeqNummer, pingTrys, state, silent, up>>

Break ==
  /\ up /\ up' = FALSE
  /\ status' = NoStatus
  /\ UNCHANGED <<seqNummer, responseSeqNummer, pingTrys, state, silent, link>>

Repair ==
  /\ ~up /\ up' = TRUE
  /\ status' = NoStatus
  /\ UNCHANGED <<seqNummer, responseSeqNummer, pingTrys, state, silent, link>>

Next ==
  \/ \E e \in VLC : run_timer(e)
  \/ \E e \in Ends : PingRequest(e) \/ PingResponse(e) \/ Lose(e)
  \/ Break
  \/ Repair

(* Click's timers fire, and a frame does not stay on the link for ever.    *)
Fairness ==
  /\ \A e \in VLC : WF_vars(run_timer(e))
  /\ \A e \in Ends : WF_vars(PingRequest(e) \/ PingResponse(e) \/ Lose(e))

Spec == Init /\ [][Next]_vars
FairSpec == Spec /\ Fairness

-----------------------------------------------------------------------------
(* However often pings are repeated and however late they are answered,    *)
(* nothing on the link or remembered as answered is older than the ping    *)
(* before the current one: the numbers cannot be confused when they wrap.  *)
AnswersAreRecent ==
  \A e \in Ends :
    LET recent == {seqNummer[e], (seqNummer[e] - 1) % SeqNumbers} IN
      /\ responseSeqNummer[e] \in recent
      /\ \A i \in Positions(link[e], "PING_RESPONSE") : link[e][i].seqNummer \in recent
      /\ \A i \in Positions(link[Peer[e]], "PING_REQUEST") :
           link[Peer[e]][i].seqNummer \in recent

(* A port is not reported down before four timer events without a response *)
(* of any age.                                                             *)
NoFalseAlarm ==
  [][\A e \in Ends : state[e] = Live /\ state'[e] = Down => silent'[e] >= 4]_vars

(* A link that stays broken is reported down and never live again.         *)
BreakIsNoticed == <>[]~up => \A e \in VLC : <>[](state[e] = Down)

(* A repaired link is reported live again and the report does not flap,    *)
(* although a port that is down has to be pinged for it.  This takes a link with no more than  *)
(* four pings on the way at a time (the run's MaxInFlight); a slower link  *)
(* flaps although it loses nothing.                                        *)
RepairIsFinal == <>[]up => \A e \in VLC : <>[](state[e] = Live)
=============================================================================
