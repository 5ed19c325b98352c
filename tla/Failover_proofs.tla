--------------------------- MODULE Failover_proofs ---------------------------
(***************************************************************************)
(* Proofs about the supervision of the VLC link and the switch that relies *)
(* on it, for any two ends, any range of the numbers and any number of     *)
(* pings in flight.                                                        *)
(***************************************************************************)
EXTENDS Failover, TLAPS

(* The tries of a live port are timer events without a response, and there *)
(* are never more than three.                                              *)
TriesAreSilent ==
  \A e \in Ends : state[e] = Live => pingTrys[e] <= 3 /\ pingTrys[e] <= silent[e]

WrapperTypeOK ==
  /\ seqNummer \in [Ends -> Int]
  /\ pingTrys \in [Ends -> Nat]
  /\ state \in [Ends -> {Down, Live}]
  /\ status \in [Ends -> {None, Down, Live}]
  /\ silent \in [Ends -> 0..5]

WrapperInv == WrapperTypeOK /\ TriesAreSilent

-----------------------------------------------------------------------------
(* The states as they are stored.                                          *)
LEMMA StatesDiffer ==
  /\ Down = 16777216 /\ Live = 67108864
  /\ Down # Live /\ Down # None /\ Live # None
  /\ Down # OFPPS_LIVE /\ Live # OFPPS_LIVE
BY DEF Down, Live, None, OFPPS_LIVE, OFPPS_LINK_DOWN, __builtin_bswap32, Byte

(* Click's timer event at a live port: it counts as silent, and only a     *)
(* port with three silent tries is given up.                               *)
LEMMA TimerKeeps ==
  ASSUME WrapperInv, NEW e \in Ends, run_timer(e)
  PROVE  /\ WrapperInv'
         /\ \A f \in Ends : state[f] = Live /\ state'[f] = Down => silent'[f] >= 4
<1>1. /\ silent' = [silent EXCEPT ![e] = IF @ < 5 THEN @ + 1 ELSE @]
      /\ NextPing(e) \/ LinkDown(e) \/ Retry(e)
  BY DEF run_timer
<1>2. /\ pingTrys \in [Ends -> Nat] /\ state \in [Ends -> {Down, Live}]
      /\ silent \in [Ends -> 0..5] /\ seqNummer \in [Ends -> Int] /\ TriesAreSilent
  BY DEF WrapperInv, WrapperTypeOK
<1>3. /\ silent' \in [Ends -> 0..5]
      /\ \A f \in Ends : silent'[f] >= silent[f]
      /\ silent[e] >= 3 => silent'[e] >= 4
      /\ silent'[e] > silent[e] \/ silent'[e] = 5
  BY <1>1, <1>2
<1>4. CASE NextPing(e)
  <2>1. UNCHANGED <<pingTrys, state>> /\ status' = NoStatus
    BY <1>4 DEF NextPing
  <2>2. seqNummer' \in [Ends -> Int]
    BY <1>2, <1>4, WrapperAssumption DEF NextPing
  <2>3. TriesAreSilent'
    BY <1>2, <1>3, <2>1 DEF TriesAreSilent
  <2>4. WrapperTypeOK'
    BY <1>2, <1>3, <2>1, <2>2 DEF WrapperTypeOK, NoStatus
  <2> QED BY <2>1, <2>3, <2>4, StatesDiffer DEF WrapperInv
<1>5. CASE LinkDown(e)
  <2>1. /\ state' = [state EXCEPT ![e] = Down] /\ UNCHANGED <<seqNummer, pingTrys>>
        /\ status' = [NoStatus EXCEPT ![e] = state'[e]]
        /\ pingTrys[e] >= 3
    BY <1>5 DEF LinkDown, GivesUp, sendPortStatusMessage
  <2>2. WrapperTypeOK'
    BY <1>2, <1>3, <2>1 DEF WrapperTypeOK, NoStatus
  <2>3. TriesAreSilent'
    <3> SUFFICES ASSUME NEW f \in Ends, state'[f] = Live
                 PROVE  pingTrys[f] <= 3 /\ pingTrys[f] <= silent'[f]
      BY <2>1 DEF TriesAreSilent
    <3>1. f # e /\ state[f] = Live
      BY <1>2, <2>1, StatesDiffer
    <3> QED BY <1>2, <1>3, <3>1 DEF TriesAreSilent
  <2>4. ASSUME NEW f \in Ends, state[f] = Live, state'[f] = Down PROVE silent'[f] >= 4
    <3>1. f = e
      BY <1>2, <2>1, <2>4, StatesDiffer
    <3>2. silent[e] >= 3
      BY <1>2, <2>1, <2>4, <3>1 DEF TriesAreSilent
    <3> QED BY <1>3, <3>1, <3>2
  <2> QED BY <2>2, <2>3, <2>4 DEF WrapperInv
<1>6. CASE Retry(e)
  <2>1. /\ pingTrys' = [pingTrys EXCEPT ![e] = (@ + 1) % Trys] /\ status' = NoStatus
        /\ UNCHANGED <<seqNummer, state>>
        /\ ~(pingTrys[e] >= 3 /\ state[e] # Down)
    BY <1>6 DEF Retry, GivesUp
  <2>2. Trys \in Nat /\ Trys > 4
    BY WrapperAssumption
  <2>3. pingTrys' \in [Ends -> Nat]
    <3>1. (pingTrys[e] + 1) % Trys \in Nat
      BY <1>2, <2>2
    <3> QED BY <1>2, <2>1, <3>1
  <2>4. WrapperTypeOK'
    BY <1>2, <1>3, <2>1, <2>3 DEF WrapperTypeOK, NoStatus
  <2>5. TriesAreSilent'
    <3> SUFFICES ASSUME NEW f \in Ends, state[f] = Live
                 PROVE  pingTrys'[f] <= 3 /\ pingTrys'[f] <= silent'[f]
      BY <2>1 DEF TriesAreSilent
    <3>0. pingTrys[f] <= 3 /\ pingTrys[f] <= silent[f]
      BY <1>2 DEF TriesAreSilent
    <3>1. CASE f # e
      BY <1>2, <1>3, <2>1, <3>0, <3>1
    <3>2. CASE f = e
      <4>1. pingTrys[e] < 3 /\ pingTrys[e] \in Nat
        BY <1>2, <2>1, <3>2, StatesDiffer
      <4>2. pingTrys'[e] = pingTrys[e] + 1
        <5>1. (pingTrys[e] + 1) % Trys = pingTrys[e] + 1
          BY <2>2, <4>1
        <5> QED BY <1>2, <2>1, <5>1
      <4>3. silent[e] \in 0..5 /\ silent'[e] \in 0..5
        BY <1>2, <1>3
      <4> QED BY <1>3, <3>0, <3>2, <4>1, <4>2, <4>3
    <3> QED BY <3>1, <3>2
  <2> QED BY <2>1, <2>4, <2>5, StatesDiffer DEF WrapperInv
<1> QED BY <1>1, <1>4, <1>5, <1>6

(* A response makes the port live and forgets the tries with the silence.  *)
LEMMA ResponseKeeps ==
  ASSUME WrapperInv, NEW e \in Ends, PingResponse(e)
  PROVE  /\ WrapperInv'
         /\ \A f \in Ends : state[f] = Live => state'[f] # Down
<1>1. /\ pingTrys' = [pingTrys EXCEPT ![e] = 0] /\ state' = [state EXCEPT ![e] = Live]
      /\ IF state[e] # Live THEN status' = [NoStatus EXCEPT ![e] = state'[e]] ELSE status' = NoStatus
      /\ silent' = [silent EXCEPT ![e] = 0] /\ UNCHANGED seqNummer
  BY DEF PingResponse, sendPortStatusMessage
<1>2. /\ pingTrys \in [Ends -> Nat] /\ state \in [Ends -> {Down, Live}]
      /\ silent \in [Ends -> 0..5] /\ seqNummer \in [Ends -> Int] /\ TriesAreSilent
  BY DEF WrapperInv, WrapperTypeOK
<1>3. WrapperTypeOK'
  BY <1>1, <1>2 DEF WrapperTypeOK, NoStatus
<1>4. TriesAreSilent'
  BY <1>1, <1>2 DEF TriesAreSilent
<1> QED BY <1>1, <1>2, <1>3, <1>4, StatesDiffer DEF WrapperInv

LEMMA LinkKeeps ==
  ASSUME WrapperInv,
         \/ \E e \in Ends : PingRequest(e) \/ Lose(e)
         \/ Break \/ Repair
  PROVE  WrapperInv' /\ UNCHANGED <<state, silent>>
<1>1. status' = NoStatus /\ UNCHANGED <<seqNummer, pingTrys, state, silent>>
  BY DEF PingRequest, Lose, Break, Repair
<1> QED BY <1>1 DEF WrapperInv, WrapperTypeOK, TriesAreSilent, NoStatus

LEMMA StepWrapper ==
  ASSUME WrapperInv, [Next]_vars
  PROVE  /\ WrapperInv'
         /\ \A f \in Ends : state[f] = Live /\ state'[f] = Down => silent'[f] >= 4
<1>1. ASSUME NEW e \in VLC, run_timer(e)
      PROVE  WrapperInv' /\ \A f \in Ends : state[f] = Live /\ state'[f] = Down => silent'[f] >= 4
  BY <1>1, TimerKeeps, WrapperAssumption
<1>2. ASSUME NEW e \in Ends, PingResponse(e)
      PROVE  WrapperInv' /\ \A f \in Ends : state[f] = Live /\ state'[f] = Down => silent'[f] >= 4
  BY <1>2, ResponseKeeps
<1>3. CASE (\E e \in Ends : PingRequest(e) \/ Lose(e)) \/ Break \/ Repair
  BY <1>3, LinkKeeps, StatesDiffer
<1>4. CASE UNCHANGED vars
  BY <1>4, StatesDiffer DEF vars, pings, WrapperInv, WrapperTypeOK, TriesAreSilent
<1> QED BY <1>1, <1>2, <1>3, <1>4 DEF Next

LEMMA InitWrapper == Init => WrapperInv
BY DEF Init, WrapperInv, WrapperTypeOK, TriesAreSilent, NoStatus

(* No port is reported down before four timer events in a row without a    *)
(* response, for any numbers of pings in flight (NoFalseAlarm).            *)
THEOREM NoAlarmIsFalse == Spec => NoFalseAlarm
<1>1. WrapperInv /\ [Next]_vars => WrapperInv'
  BY StepWrapper
<1>2. WrapperInv /\ [Next]_vars =>
        [\A e \in Ends : state[e] = Live /\ state'[e] = Down => silent'[e] >= 4]_vars
  BY StepWrapper
<1> QED BY <1>1, <1>2, InitWrapper, PTL DEF Spec, NoFalseAlarm
-----------------------------------------------------------------------------
(* What is remembered as answered (a), the responses on the way to an end  *)
(* (in p) and its requests on the way to the other (in q) carry, from the  *)
(* oldest to the youngest, first the number before the current one (n) and *)
(* then the current one.                                                   *)
Before(n) == (n - 1) % SeqNumbers

Recent(n, a, p, q) ==
  /\ a \in {n, Before(n)}
  /\ \A i \in Positions(p, "PING_RESPONSE") : p[i].seqNummer \in {n, Before(n)}
  /\ \A j \in Positions(q, "PING_REQUEST") : q[j].seqNummer \in {n, Before(n)}

Aged(n, a, p, q) ==
  /\ a = n => /\ \A i \in Positions(p, "PING_RESPONSE") : p[i].seqNummer = n
              /\ \A j \in Positions(q, "PING_REQUEST") : q[j].seqNummer = n
  /\ \A i \in Positions(p, "PING_RESPONSE") : p[i].seqNummer = n =>
       /\ \A k \in Positions(p, "PING_RESPONSE") : k > i => p[k].seqNummer = n
       /\ \A j \in Positions(q, "PING_REQUEST") : q[j].seqNummer = n
  /\ \A j \in Positions(q, "PING_REQUEST") : q[j].seqNummer = n =>
       \A k \in Positions(q, "PING_REQUEST") : k > j => q[k].seqNummer = n

Chain(n, a, p, q) == Recent(n, a, p, q) /\ Aged(n, a, p, q)

AnswerInv ==
  /\ seqNummer \in [Ends -> 0..(SeqNumbers - 1)]
  /\ responseSeqNummer \in [Ends -> 0..(SeqNumbers - 1)]
  /\ link \in [Ends -> Seq(Message)]
  /\ \A e \in Ends : Chain(seqNummer[e], responseSeqNummer[e], link[e], link[Peer[e]])

(* Positions after a frame has left the link, and after one has entered.   *)
LEMMA PositionsOfTail ==
  ASSUME NEW s \in Seq(Message), s # <<>>, NEW type
  PROVE  /\ Tail(s) \in Seq(Message) /\ Head(s) = s[1] /\ Head(s) \in Message /\ 1 \in DOMAIN s
         /\ \A i \in Positions(Tail(s), type) :
              i \in Nat /\ i + 1 \in Positions(s, type) /\ i + 1 > 1 /\ Tail(s)[i] = s[i + 1]
BY DEF Positions

LEMMA PositionsOfAppend ==
  ASSUME NEW s \in Seq(Message), NEW m \in Message, NEW type
  PROVE  /\ Append(s, m) \in Seq(Message)
         /\ \A i \in Positions(s, type) : i \in 1..Len(s)
         /\ \A i \in Positions(Append(s, m), type) :
              \/ i \in Positions(s, type) /\ Append(s, m)[i] = s[i]
              \/ i = Len(s) + 1 /\ m.type = type /\ Append(s, m)[i] = m
<1>1. /\ Append(s, m) \in Seq(Message) /\ DOMAIN Append(s, m) = 1..(Len(s) + 1)
      /\ \A i \in 1..Len(s) : Append(s, m)[i] = s[i]
      /\ Append(s, m)[Len(s) + 1] = m /\ DOMAIN s = 1..Len(s) /\ Len(s) \in Nat
  OBVIOUS
<1>2. \A i \in 1..(Len(s) + 1) : i \in 1..Len(s) \/ i = Len(s) + 1
  BY <1>1
<1> QED BY <1>1, <1>2 DEF Positions

(* Frames of the other kind come and go; a frame is lost.                  *)
LEMMA ChainLosesAnswer ==
  ASSUME NEW n, NEW a, NEW p \in Seq(Message), NEW q, Chain(n, a, p, q), p # <<>>
  PROVE  Chain(n, a, Tail(p), q)
<1> DEFINE t == Tail(p)
<1>1. \A i \in Positions(t, "PING_RESPONSE") :
        i \in Nat /\ i + 1 \in Positions(p, "PING_RESPONSE") /\ t[i] = p[i + 1]
  BY PositionsOfTail
<1> HIDE DEF t
<1>2. Recent(n, a, t, q)
  BY <1>1 DEF Chain, Recent
<1>3. Aged(n, a, t, q)
  <2>1. ASSUME NEW i \in Positions(t, "PING_RESPONSE"), t[i].seqNummer = n
        PROVE  /\ \A k \in Positions(t, "PING_RESPONSE") : k > i => t[k].seqNummer = n
               /\ \A j \in Positions(q, "PING_REQUEST") : q[j].seqNummer = n
    BY <1>1, <2>1 DEF Chain, Aged
  <2>2. ASSUME a = n
        PROVE  /\ \A i \in Positions(t, "PING_RESPONSE") : t[i].seqNummer = n
               /\ \A j \in Positions(q, "PING_REQUEST") : q[j].seqNummer = n
    BY <1>1, <2>2 DEF Chain, Aged
  <2> QED BY <2>1, <2>2 DEF Chain, Aged
<1> QED BY <1>2, <1>3 DEF Chain, t

LEMMA ChainLosesRequest ==
  ASSUME NEW n, NEW a, NEW p, NEW q \in Seq(Message), Chain(n, a, p, q), q # <<>>
  PROVE  Chain(n, a, p, Tail(q))
<1> DEFINE t == Tail(q)
<1>1. \A i \in Positions(t, "PING_REQUEST") :
        i \in Nat /\ i + 1 \in Positions(q, "PING_REQUEST") /\ t[i] = q[i + 1]
  BY PositionsOfTail
<1> HIDE DEF t
<1>2. Recent(n, a, p, t)
  BY <1>1 DEF Chain, Recent
<1>3. Aged(n, a, p, t)
  <2>1. ASSUME NEW i \in Positions(p, "PING_RESPONSE"), p[i].seqNummer = n
        PROVE  /\ \A k \in Positions(p, "PING_RESPONSE") : k > i => p[k].seqNummer = n
               /\ \A j \in Positions(t, "PING_REQUEST") : t[j].seqNummer = n
    BY <1>1, <2>1 DEF Chain, Aged
  <2>2. ASSUME a = n
        PROVE  /\ \A i \in Positions(p, "PING_RESPONSE") : p[i].seqNummer = n
               /\ \A j \in Positions(t, "PING_REQUEST") : t[j].seqNummer = n
    BY <1>1, <2>2 DEF Chain, Aged
  <2>3. ASSUME NEW j \in Positions(t, "PING_REQUEST"), t[j].seqNummer = n
        PROVE  \A k \in Positions(t, "PING_REQUEST") : k > j => t[k].seqNummer = n
    BY <1>1, <2>3 DEF Chain, Aged
  <2> QED BY <2>1, <2>2, <2>3 DEF Aged
<1> QED BY <1>2, <1>3 DEF Chain, t

LEMMA ChainIgnores ==
  ASSUME NEW n, NEW a, NEW p \in Seq(Message), NEW q \in Seq(Message), Chain(n, a, p, q),
         NEW m \in Message
  PROVE  /\ m.type # "PING_REQUEST" => Chain(n, a, p, Append(q, m))
         /\ m.type # "PING_RESPONSE" => Chain(n, a, Append(p, m), q)
<1>1. ASSUME m.type # "PING_REQUEST" PROVE Chain(n, a, p, Append(q, m))
  <2> DEFINE t == Append(q, m)
  <2>1. \A j \in Positions(t, "PING_REQUEST") : j \in Positions(q, "PING_REQUEST") /\ t[j] = q[j]
    BY <1>1, PositionsOfAppend
  <2> HIDE DEF t
  <2> QED BY <2>1 DEF Chain, Recent, Aged, t
<1>2. ASSUME m.type # "PING_RESPONSE" PROVE Chain(n, a, Append(p, m), q)
  <2> DEFINE t == Append(p, m)
  <2>1. \A j \in Positions(t, "PING_RESPONSE") : j \in Positions(p, "PING_RESPONSE") /\ t[j] = p[j]
    BY <1>2, PositionsOfAppend
  <2> HIDE DEF t
  <2> QED BY <2>1 DEF Chain, Recent, Aged, t
<1> QED BY <1>1, <1>2

(* A request at the other end becomes a response, younger than the other   *)
(* responses and older than the other requests.                            *)
LEMMA ChainIsAnswered ==
  ASSUME NEW n, NEW a, NEW p \in Seq(Message), NEW q \in Seq(Message), Chain(n, a, p, q),
         q # <<>>, Head(q).type = "PING_REQUEST",
         NEW m \in Message, m.type = "PING_RESPONSE", m.seqNummer = Head(q).seqNummer
  PROVE  Chain(n, a, Append(p, m), Tail(q))
<1> DEFINE t == Tail(q)
           u == Append(p, m)
<1>1. /\ \A j \in Positions(t, "PING_REQUEST") :
           /\ j \in Nat /\ j + 1 \in Positions(q, "PING_REQUEST") /\ j + 1 > 1
           /\ t[j] = q[j + 1]
      /\ Head(q) = q[1] /\ 1 \in DOMAIN q
  BY PositionsOfTail
<1>2. /\ 1 \in Positions(q, "PING_REQUEST") /\ q[1].seqNummer = m.seqNummer
  BY <1>1 DEF Positions
<1>3. /\ \A i \in Positions(p, "PING_RESPONSE") : i \in 1..Len(p)
      /\ \A i \in Positions(u, "PING_RESPONSE") :
           \/ i \in Positions(p, "PING_RESPONSE") /\ u[i] = p[i]
           \/ i = Len(p) + 1 /\ u[i] = m
  BY PositionsOfAppend
<1>4. Len(p) \in Nat
  OBVIOUS
<1> HIDE DEF t, u
<1>5. Recent(n, a, u, t)
  BY <1>1, <1>2, <1>3 DEF Chain, Recent
<1>6. Aged(n, a, u, t)
  <2>1. ASSUME a = n
        PROVE  /\ \A i \in Positions(u, "PING_RESPONSE") : u[i].seqNummer = n
               /\ \A j \in Positions(t, "PING_REQUEST") : t[j].seqNummer = n
    BY <1>1, <1>2, <1>3, <2>1 DEF Chain, Aged
  <2>2. ASSUME m.seqNummer = n
        PROVE  \A j \in Positions(t, "PING_REQUEST") : t[j].seqNummer = n
    BY <1>1, <1>2, <2>2 DEF Chain, Aged
  <2>3. ASSUME NEW i \in Positions(u, "PING_RESPONSE"), u[i].seqNummer = n
        PROVE  /\ \A k \in Positions(u, "PING_RESPONSE") : k > i => u[k].seqNummer = n
               /\ \A j \in Positions(t, "PING_REQUEST") : t[j].seqNummer = n
    <3>1. CASE i \in Positions(p, "PING_RESPONSE") /\ u[i] = p[i]
      <4>1. /\ \A k \in Positions(p, "PING_RESPONSE") : k > i => p[k].seqNummer = n
            /\ \A j \in Positions(q, "PING_REQUEST") : q[j].seqNummer = n
        BY <2>3, <3>1 DEF Chain, Aged
      <4> QED BY <1>1, <1>2, <1>3, <4>1
    <3>2. CASE i = Len(p) + 1 /\ u[i] = m
      <4>1. \A k \in Positions(u, "PING_RESPONSE") : ~(k > i)
        BY <1>3, <1>4, <3>2
      <4> QED BY <2>2, <2>3, <3>2, <4>1
    <3> QED BY <1>3, <3>1, <3>2
  <2>4. ASSUME NEW j \in Positions(t, "PING_REQUEST"), t[j].seqNummer = n
        PROVE  \A k \in Positions(t, "PING_REQUEST") : k > j => t[k].seqNummer = n
    BY <1>1, <2>4 DEF Chain, Aged
  <2> QED BY <2>1, <2>3, <2>4 DEF Aged
<1> QED BY <1>5, <1>6 DEF Chain, t, u

(* A response is remembered: nothing on the way is older.                  *)
LEMMA ChainIsRemembered ==
  ASSUME NEW n, NEW a, NEW p \in Seq(Message), NEW q, Chain(n, a, p, q),
         p # <<>>, Head(p).type = "PING_RESPONSE"
  PROVE  Chain(n, Head(p).seqNummer, Tail(p), q)
<1> DEFINE t == Tail(p)
           b == Head(p).seqNummer
<1>1. /\ \A i \in Positions(t, "PING_RESPONSE") :
           /\ i \in Nat /\ i + 1 \in Positions(p, "PING_RESPONSE") /\ i + 1 > 1
           /\ t[i] = p[i + 1]
      /\ Head(p) = p[1] /\ 1 \in DOMAIN p
  BY PositionsOfTail
<1>2. 1 \in Positions(p, "PING_RESPONSE") /\ p[1].seqNummer = b
  BY <1>1 DEF Positions
<1>3. Chain(n, a, t, q)
  BY ChainLosesAnswer
<1> HIDE DEF t, b
<1>4. b \in {n, Before(n)}
  BY <1>2 DEF Chain, Recent
<1>5. ASSUME b = n
      PROVE  /\ \A i \in Positions(t, "PING_RESPONSE") : t[i].seqNummer = n
             /\ \A j \in Positions(q, "PING_REQUEST") : q[j].seqNummer = n
  BY <1>1, <1>2, <1>5 DEF Chain, Aged
<1>6. Chain(n, b, t, q)
  BY <1>3, <1>4, <1>5 DEF Chain, Recent, Aged
<1> QED BY <1>6 DEF t, b

(* A request with the current number is the youngest of all.               *)
LEMMA ChainIsPinged ==
  ASSUME NEW n, NEW a, NEW p \in Seq(Message), NEW q \in Seq(Message), Chain(n, a, p, q),
         NEW m \in Message, m.seqNummer = n
  PROVE  Chain(n, a, p, Append(q, m))
<1> DEFINE u == Append(q, m)
<1>1. /\ \A i \in Positions(q, "PING_REQUEST") : i \in 1..Len(q)
      /\ \A i \in Positions(u, "PING_REQUEST") :
           \/ i \in Positions(q, "PING_REQUEST") /\ u[i] = q[i]
           \/ i = Len(q) + 1 /\ u[i] = m
  BY PositionsOfAppend
<1>2. Len(q) \in Nat
  OBVIOUS
<1> HIDE DEF u
<1>3. Recent(n, a, p, u)
  BY <1>1 DEF Chain, Recent
<1>4. ASSUME NEW j \in Positions(u, "PING_REQUEST"), u[j].seqNummer = n
      PROVE  \A k \in Positions(u, "PING_REQUEST") : k > j => u[k].seqNummer = n
  <2> SUFFICES ASSUME NEW k \in Positions(u, "PING_REQUEST"), k > j PROVE u[k].seqNummer = n
    OBVIOUS
  <2>1. CASE k = Len(q) + 1 /\ u[k] = m
    BY <2>1
  <2>2. CASE k \in Positions(q, "PING_REQUEST") /\ u[k] = q[k]
    <3>1. j \in Positions(q, "PING_REQUEST") /\ u[j] = q[j]
      BY <1>1, <1>2, <2>2
    <3> QED BY <1>4, <2>2, <3>1 DEF Chain, Aged
  <2> QED BY <1>1, <2>1, <2>2
<1>5. Aged(n, a, p, u)
  <2>1. \A j \in Positions(u, "PING_REQUEST") :
          u[j].seqNummer = n \/ (j \in Positions(q, "PING_REQUEST") /\ u[j] = q[j])
    BY <1>1
  <2> QED BY <1>4, <2>1 DEF Chain, Aged
<1> QED BY <1>3, <1>5 DEF Chain, u

(* When the current number is answered nothing older is left, and the next *)
(* number may be used.                                                     *)
LEMMA ChainGoesOn ==
  ASSUME NEW n \in 0..(SeqNumbers - 1), NEW p, NEW q, Chain(n, n, p, q)
  PROVE  /\ (n + 1) % SeqNumbers \in 0..(SeqNumbers - 1)
         /\ Chain((n + 1) % SeqNumbers, n, p, q)
<1> DEFINE k == (n + 1) % SeqNumbers
<1>1. SeqNumbers \in Nat /\ SeqNumbers > 1
  BY WrapperAssumption
<1>2. k \in 0..(SeqNumbers - 1) /\ (k - 1) % SeqNumbers = n /\ k # n
  BY <1>1
<1> HIDE DEF k
<1>3. /\ \A i \in Positions(p, "PING_RESPONSE") : p[i].seqNummer = n
      /\ \A j \in Positions(q, "PING_REQUEST") : q[j].seqNummer = n
  BY DEF Chain, Aged
<1>4. Chain(k, n, p, q)
  BY <1>2, <1>3 DEF Chain, Recent, Aged, Before
<1> QED BY <1>2, <1>4 DEF k

LEMMA InitAnswers == Init => AnswerInv
<1> SUFFICES ASSUME Init PROVE AnswerInv
  OBVIOUS
<1>1. SeqNumbers \in Nat /\ SeqNumbers > 1 /\ Peer \in [Ends -> Ends]
  BY WrapperAssumption
<1>2. /\ seqNummer = [e \in Ends |-> 0] /\ responseSeqNummer = [e \in Ends |-> 0]
      /\ link = [e \in Ends |-> <<>>]
  BY DEF Init
<1>3. Chain(0, 0, <<>>, <<>>)
  BY DEF Chain, Recent, Aged, Positions
<1> QED BY <1>1, <1>2, <1>3 DEF AnswerInv

(* Who sees what happens at an end.                                        *)
LEMMA Peers ==
  ASSUME NEW e \in Ends
  PROVE  /\ Peer[e] \in Ends /\ Peer[e] # e /\ Peer[Peer[e]] = e
         /\ \A f \in Ends : Peer[f] = e => f = Peer[e]
         /\ \A f \in Ends : Peer[f] = Peer[e] => f = e
BY WrapperAssumption

LEMMA TimerAnswers ==
  ASSUME AnswerInv, NEW e \in Ends, run_timer(e)
  PROVE  AnswerInv'
<1> DEFINE n == seqNummer'[e]
           m == Ping("PING_REQUEST", n)
<1>1. /\ link' = [link EXCEPT ![Peer[e]] = Append(@, m)]
      /\ responseSeqNummer' = responseSeqNummer
      /\ NextPing(e) \/ LinkDown(e) \/ Retry(e)
  BY DEF run_timer, sendPing
<1>2. /\ seqNummer \in [Ends -> 0..(SeqNumbers - 1)] /\ link \in [Ends -> Seq(Message)]
      /\ responseSeqNummer \in [Ends -> 0..(SeqNumbers - 1)]
      /\ \A f \in Ends : Chain(seqNummer[f], responseSeqNummer[f], link[f], link[Peer[f]])
  BY DEF AnswerInv
<1>3. /\ Peer[e] \in Ends /\ Peer[e] # e /\ Peer[Peer[e]] = e
      /\ \A f \in Ends : Peer[f] \in Ends /\ (Peer[f] = Peer[e] => f = e)
  BY Peers
<1>4. /\ n \in 0..(SeqNumbers - 1)
      /\ Chain(n, responseSeqNummer[e], link[e], link[Peer[e]])
      /\ seqNummer' \in [Ends -> 0..(SeqNumbers - 1)]
      /\ \A f \in Ends : f # e => seqNummer'[f] = seqNummer[f]
  <2>1. CASE NextPing(e)
    <3>1. /\ responseSeqNummer[e] = seqNummer[e]
          /\ seqNummer' = [seqNummer EXCEPT ![e] = (@ + 1) % SeqNumbers]
      BY <2>1 DEF NextPing
    <3>2. /\ (seqNummer[e] + 1) % SeqNumbers \in 0..(SeqNumbers - 1)
          /\ Chain((seqNummer[e] + 1) % SeqNumbers, responseSeqNummer[e], link[e], link[Peer[e]])
      BY <1>2, <3>1, ChainGoesOn
    <3>3. n = (seqNummer[e] + 1) % SeqNumbers
      BY <1>2, <3>1
    <3> QED BY <1>2, <3>1, <3>2, <3>3
  <2>2. CASE LinkDown(e) \/ Retry(e)
    <3>1. seqNummer' = seqNummer
      BY <2>2 DEF LinkDown, Retry
    <3> QED BY <1>2, <3>1
  <2> QED BY <1>1, <2>1, <2>2
<1>5. m \in Message /\ m.type = "PING_REQUEST" /\ m.seqNummer = n
  BY <1>4 DEF Ping, Message
<1> HIDE DEF m, n
<1>6. Append(link[Peer[e]], m) \in Seq(Message)
  BY <1>2, <1>3, <1>5
<1>7. /\ link' \in [Ends -> Seq(Message)] /\ link'[Peer[e]] = Append(link[Peer[e]], m)
      /\ \A f \in Ends : f # Peer[e] => link'[f] = link[f]
  BY <1>1, <1>2, <1>3, <1>6
<1>8. ASSUME NEW f \in Ends
      PROVE  Chain(seqNummer'[f], responseSeqNummer'[f], link'[f], link'[Peer[f]])
  <2>1. CASE f = e
    <3>1. Chain(n, responseSeqNummer[e], link[e], Append(link[Peer[e]], m))
      BY <1>2, <1>3, <1>4, <1>5, ChainIsPinged
    <3> QED BY <1>1, <1>3, <1>7, <2>1, <3>1 DEF n
  <2>2. CASE f = Peer[e]
    <3>1. Chain(seqNummer[f], responseSeqNummer[f], Append(link[f], m), link[e])
      <4>1. Chain(seqNummer[f], responseSeqNummer[f], link[f], link[e])
        BY <1>2, <1>3, <2>2
      <4>2. m.type # "PING_RESPONSE" /\ link[f] \in Seq(Message) /\ link[e] \in Seq(Message)
        BY <1>2, <1>5
      <4> QED BY <1>5, <4>1, <4>2, ChainIgnores
    <3> QED BY <1>1, <1>3, <1>4, <1>7, <2>2, <3>1
  <2>3. CASE f # e /\ f # Peer[e]
    BY <1>1, <1>2, <1>3, <1>4, <1>7, <2>3
  <2> QED BY <2>1, <2>2, <2>3
<1> QED BY <1>1, <1>2, <1>4, <1>7, <1>8 DEF AnswerInv

LEMMA RequestAnswers ==
  ASSUME AnswerInv, NEW e \in Ends, PingRequest(e)
  PROVE  AnswerInv'
<1> DEFINE g == Peer[e]
           m == Ping("PING_RESPONSE", Head(link[e]).seqNummer)
<1>1. /\ link[e] # <<>> /\ Head(link[e]).type = "PING_REQUEST"
      /\ link' = [link EXCEPT ![e] = Tail(@), ![g] = Append(@, m)]
      /\ UNCHANGED <<seqNummer, responseSeqNummer>>
  BY DEF PingRequest
<1>2. /\ seqNummer \in [Ends -> 0..(SeqNumbers - 1)] /\ link \in [Ends -> Seq(Message)]
      /\ responseSeqNummer \in [Ends -> 0..(SeqNumbers - 1)]
      /\ \A f \in Ends : Chain(seqNummer[f], responseSeqNummer[f], link[f], link[Peer[f]])
  BY DEF AnswerInv
<1>3. /\ g \in Ends /\ g # e /\ Peer[g] = e
      /\ \A f \in Ends : Peer[f] \in Ends /\ (Peer[f] = e => f = g) /\ (Peer[f] = g => f = e)
  BY Peers
<1>4. Head(link[e]) \in Message /\ Tail(link[e]) \in Seq(Message)
  BY <1>1, <1>2, PositionsOfTail
<1>5. m \in Message /\ m.type = "PING_RESPONSE" /\ m.seqNummer = Head(link[e]).seqNummer
  BY <1>4 DEF Ping, Message
<1> HIDE DEF m, g
<1>6. Append(link[g], m) \in Seq(Message)
  BY <1>2, <1>3, <1>5
<1>7. /\ link' \in [Ends -> Seq(Message)]
      /\ link'[e] = Tail(link[e]) /\ link'[g] = Append(link[g], m)
      /\ \A f \in Ends : f # e /\ f # g => link'[f] = link[f]
  BY <1>1, <1>2, <1>3, <1>4, <1>6
<1>8. ASSUME NEW f \in Ends
      PROVE  Chain(seqNummer[f], responseSeqNummer[f], link'[f], link'[Peer[f]])
  <2>1. CASE f = e
    <3>1. Chain(seqNummer[e], responseSeqNummer[e], Tail(link[e]), link[g])
      BY <1>1, <1>2, ChainLosesAnswer DEF g
    <3>2. Chain(seqNummer[e], responseSeqNummer[e], Tail(link[e]), Append(link[g], m))
      <4>1. m.type # "PING_REQUEST" /\ link[g] \in Seq(Message)
        BY <1>2, <1>3, <1>5
      <4> QED BY <1>4, <1>5, <3>1, <4>1, ChainIgnores
    <3> QED BY <1>7, <2>1, <3>2 DEF g
  <2>2. CASE f = g
    <3>1. Chain(seqNummer[g], responseSeqNummer[g], link[g], link[e])
      BY <1>2, <1>3
    <3>2. Chain(seqNummer[g], responseSeqNummer[g], Append(link[g], m), Tail(link[e]))
      <4>1. link[g] \in Seq(Message) /\ link[e] \in Seq(Message)
        BY <1>2, <1>3
      <4> QED BY <1>1, <1>5, <3>1, <4>1, ChainIsAnswered
    <3> QED BY <1>3, <1>7, <2>2, <3>2
  <2>3. CASE f # e /\ f # g
    BY <1>2, <1>3, <1>7, <2>3
  <2> QED BY <2>1, <2>2, <2>3
<1> QED BY <1>1, <1>2, <1>7, <1>8 DEF AnswerInv

LEMMA ResponseAnswers ==
  ASSUME AnswerInv, NEW e \in Ends, PingResponse(e)
  PROVE  AnswerInv'
<1> DEFINE b == Head(link[e]).seqNummer
<1>1. /\ link[e] # <<>> /\ Head(link[e]).type = "PING_RESPONSE"
      /\ link' = [link EXCEPT ![e] = Tail(@)]
      /\ responseSeqNummer' = [responseSeqNummer EXCEPT ![e] = b]
      /\ UNCHANGED seqNummer
  BY DEF PingResponse
<1>2. /\ seqNummer \in [Ends -> 0..(SeqNumbers - 1)] /\ link \in [Ends -> Seq(Message)]
      /\ responseSeqNummer \in [Ends -> 0..(SeqNumbers - 1)]
      /\ \A f \in Ends : Chain(seqNummer[f], responseSeqNummer[f], link[f], link[Peer[f]])
  BY DEF AnswerInv
<1>3. \A f \in Ends : Peer[f] \in Ends /\ Peer[f] # f /\ (Peer[f] = e => f = Peer[e])
  BY Peers
<1>4. Head(link[e]) \in Message /\ Tail(link[e]) \in Seq(Message)
  BY <1>1, <1>2, PositionsOfTail
<1>5. b \in 0..(SeqNumbers - 1)
  BY <1>4 DEF Message
<1>6. Chain(seqNummer[e], b, Tail(link[e]), link[Peer[e]])
  BY <1>1, <1>2, ChainIsRemembered
<1> HIDE DEF b
<1>7. /\ link' \in [Ends -> Seq(Message)] /\ link'[e] = Tail(link[e])
      /\ \A f \in Ends : f # e => link'[f] = link[f]
      /\ responseSeqNummer' \in [Ends -> 0..(SeqNumbers - 1)] /\ responseSeqNummer'[e] = b
      /\ \A f \in Ends : f # e => responseSeqNummer'[f] = responseSeqNummer[f]
  BY <1>1, <1>2, <1>4, <1>5
<1>8. ASSUME NEW f \in Ends
      PROVE  Chain(seqNummer[f], responseSeqNummer'[f], link'[f], link'[Peer[f]])
  <2>1. CASE f = e
    BY <1>3, <1>6, <1>7, <2>1
  <2>2. CASE f # e /\ Peer[f] = e
    <3>1. Chain(seqNummer[f], responseSeqNummer[f], link[f], Tail(link[e]))
      BY <1>1, <1>2, <2>2, ChainLosesRequest
    <3> QED BY <1>7, <2>2, <3>1
  <2>3. CASE f # e /\ Peer[f] # e
    BY <1>2, <1>3, <1>7, <2>3
  <2> QED BY <2>1, <2>2, <2>3
<1> QED BY <1>1, <1>2, <1>7, <1>8 DEF AnswerInv

LEMMA LoseAnswers ==
  ASSUME AnswerInv, NEW e \in Ends, Lose(e)
  PROVE  AnswerInv'
<1>1. /\ link[e] # <<>> /\ link' = [link EXCEPT ![e] = Tail(@)]
      /\ UNCHANGED <<seqNummer, responseSeqNummer>>
  BY DEF Lose
<1>2. /\ link \in [Ends -> Seq(Message)]
      /\ \A f \in Ends : Chain(seqNummer[f], responseSeqNummer[f], link[f], link[Peer[f]])
  BY DEF AnswerInv
<1>3. \A f \in Ends : Peer[f] \in Ends /\ Peer[f] # f
  BY Peers
<1>4. Tail(link[e]) \in Seq(Message)
  BY <1>1, <1>2, PositionsOfTail
<1>5. /\ link' \in [Ends -> Seq(Message)] /\ link'[e] = Tail(link[e])
      /\ \A f \in Ends : f # e => link'[f] = link[f]
  BY <1>1, <1>2, <1>4
<1>6. ASSUME NEW f \in Ends
      PROVE  Chain(seqNummer[f], responseSeqNummer[f], link'[f], link'[Peer[f]])
  <2>1. CASE f = e
    BY <1>1, <1>2, <1>3, <1>5, <2>1, ChainLosesAnswer
  <2>2. CASE f # e /\ Peer[f] = e
    BY <1>1, <1>2, <1>5, <2>2, ChainLosesRequest
  <2>3. CASE f # e /\ Peer[f] # e
    BY <1>2, <1>3, <1>5, <2>3
  <2> QED BY <2>1, <2>2, <2>3
<1> QED BY <1>1, <1>5, <1>6 DEF AnswerInv

LEMMA StepAnswers ==
  ASSUME AnswerInv, [Next]_vars
  PROVE  AnswerInv'
<1>1. CASE \E e \in VLC : run_timer(e)
  BY <1>1, TimerAnswers, WrapperAssumption
<1>2. CASE \E e \in Ends : PingRequest(e) \/ PingResponse(e) \/ Lose(e)
  BY <1>2, RequestAnswers, ResponseAnswers, LoseAnswers
<1>3. CASE Break \/ Repair \/ UNCHANGED vars
  <2>1. UNCHANGED <<seqNummer, responseSeqNummer, link>>
    BY <1>3 DEF Break, Repair, vars, pings
  <2> QED BY <2>1 DEF AnswerInv
<1> QED BY <1>1, <1>2, <1>3 DEF Next

(* However often pings are repeated, delayed and lost, and with as few as  *)
(* two numbers: nothing on the way or remembered is older than the ping    *)
(* before the current one (AnswersAreRecent).                              *)
THEOREM NumbersAreNotConfused == Spec => []AnswersAreRecent
<1>1. AnswerInv /\ [Next]_vars => AnswerInv'
  BY StepAnswers
<1>2. AnswerInv => AnswersAreRecent
  BY DEF AnswerInv, Chain, Recent, Before, AnswersAreRecent
<1> QED BY <1>1, <1>2, InitAnswers, PTL DEF Spec

-----------------------------------------------------------------------------
(* A PORT_STATUS makes the pipeline give up the VLC port, whatever it      *)
(* says, and a port that goes down says it in the same step.               *)
AvoidInv == state[Near] = Down => vlcPortStatus = FALSE

SwitchInv == WrapperInv /\ AvoidInv

LEMMA NearIsAnEnd == Near \in Ends
BY WrapperAssumption, FailoverAssumption

LEMMA DownIsReported ==
  ASSUME WrapperInv, Next, state[Near] # Down, state'[Near] = Down
  PROVE  status'[Near] = Down
<1>1. /\ state \in [Ends -> {Down, Live}] /\ Near \in Ends
  BY NearIsAnEnd DEF WrapperInv, WrapperTypeOK
<1>2. ASSUME NEW e \in VLC, run_timer(e) PROVE status'[Near] = Down
  <2>1. state' # state
    OBVIOUS
  <2>2. LinkDown(e)
    BY <1>2, <2>1 DEF run_timer, NextPing, Retry
  <2>3. /\ state' = [state EXCEPT ![e] = Down]
        /\ status' = [NoStatus EXCEPT ![e] = state'[e]]
    BY <2>2 DEF LinkDown, sendPortStatusMessage
  <2>4. e = Near
    BY <1>1, <2>3
  <2> QED BY <1>1, <2>3, <2>4 DEF NoStatus
<1>3. ASSUME NEW e \in Ends, PingResponse(e) PROVE FALSE
  <2>1. state' = [state EXCEPT ![e] = Live]
    BY <1>3 DEF PingResponse
  <2> QED BY <1>1, <2>1, StatesDiffer
<1>4. ASSUME (\E e \in Ends : PingRequest(e) \/ Lose(e)) \/ Break \/ Repair PROVE FALSE
  <2>1. state' = state
    BY <1>4 DEF PingRequest, Lose, Break, Repair
  <2> QED BY <2>1
<1> QED BY <1>2, <1>3, <1>4 DEF Next

LEMMA StepOfWrapper ==
  ASSUME [SwitchNext]_switch
  PROVE  /\ [Next]_vars
         /\ (Next /\ Forwarding) \/ UNCHANGED vars
<1>1. (\E e \in VLC : PingTimer(e)) => Next /\ Forwarding
  BY DEF PingTimer, Next
<1>2. (\E e \in Ends : LinkMoves(e)) \/ LinkChanges => Next /\ Forwarding
  BY DEF LinkMoves, LinkChanges, Next
<1>3. ((Packet \/ Controller) /\ UNCHANGED vars) \/ RuleTimer \/ Second => UNCHANGED vars
  BY DEF RuleTimer, Second
<1> QED BY <1>1, <1>2, <1>3 DEF SwitchNext, switch

(* What the pipeline does in a step of the switch.                         *)
LEMMA StepOfPipeline ==
  ASSUME WrapperInv, [SwitchNext]_switch
  PROVE  [P!Next]_(P!vars)
<1>1. CASE Next /\ Forwarding
  <2>1. UNCHANGED P!portMng
    BY <1>1 DEF Forwarding, ports, P!portMng
  <2>2. CASE status'[Near] # None
    <3>1. P!PortStatus(status'[Near])
      BY <1>1, <2>2 DEF Forwarding
    <3>2. WrapperInv'
      BY <1>1, StepWrapper
    <3>3. status'[Near] \in P!Reported
      BY <2>2, <3>2, NearIsAnEnd DEF WrapperInv, WrapperTypeOK, P!Reported, Down, Live,
         OFPPS_LIVE, OFPPS_LINK_DOWN, P!OFPPS_LIVE, P!OFPPS_LINK_DOWN, __builtin_bswap32,
         P!__builtin_bswap32, Byte, P!Byte
    <3> QED BY <2>1, <3>1, <3>3 DEF P!Next, P!FromPort
  <2>3. CASE status'[Near] = None
    BY <1>1, <2>1, <2>3 DEF Forwarding, pipeline, P!vars, P!pipeline
  <2> QED BY <2>2, <2>3
<1>2. CASE Packet
  <2>1. PICK a \in Arrivals : P!PacketIn(a[1], a[2], a[3], vlcPortStatus) /\ UNCHANGED pipeline
    BY <1>2 DEF Packet
  <2>2. a[1] \in P!Ports /\ a[2] \in {"BROADCAST", "OTHERHOST"} /\ a[3] \in P!Destinations
    BY FailoverAssumption
  <2>3. UNCHANGED P!pipeline
    BY <2>1 DEF pipeline, P!pipeline
  <2> QED BY <2>1, <2>2, <2>3 DEF P!Next, P!FromPort
<1>6. CASE Controller
  <2>1. CASE P!FlowModAdd /\ UNCHANGED ports
    <3>1. UNCHANGED P!portMng
      BY <2>1 DEF ports, P!portMng
    <3> QED BY <2>1, <3>1 DEF P!Next, P!FromController
  <2>2. CASE \E o \in PacketOuts : P!PacketOut(o[1], o[2]) /\ UNCHANGED pipeline
    <3>1. PICK o \in PacketOuts : P!PacketOut(o[1], o[2]) /\ UNCHANGED pipeline
      BY <2>2
    <3>2. o[1] \in P!Ports \cup {P!OFPP_ANY, P!OFPP_CONTROLLER} /\ o[2] \in P!PortNumbers
      BY FailoverAssumption
    <3>3. UNCHANGED P!pipeline
      BY <3>1 DEF pipeline, P!pipeline
    <3> QED BY <3>1, <3>2, <3>3 DEF P!Next, P!FromController
  <2>3. CASE \E xid \in Xids : P!PortDescRequest(xid) /\ UNCHANGED pipeline
    BY <2>3 DEF pipeline, P!pipeline, P!Next, P!FromController
  <2> QED BY <1>6, <2>1, <2>2, <2>3 DEF Controller
<1>3. CASE RuleTimer \/ Second
  BY <1>3 DEF RuleTimer, Second, P!Next
<1>4. CASE UNCHANGED switch
  BY <1>4 DEF switch, ports, pipeline, P!vars, P!portMng, P!pipeline
<1>5. (Next /\ Forwarding) \/ Packet \/ Controller \/ RuleTimer \/ Second \/ UNCHANGED switch
  BY DEF SwitchNext, PingTimer, LinkMoves, LinkChanges, Next
<1> QED BY <1>1, <1>2, <1>3, <1>4, <1>5, <1>6

(* The switch is made of the two: what it does is something the wrappers   *)
(* do and something the pipeline does, so that what is proved of either    *)
(* holds in the switch.                                                    *)
THEOREM SwitchIsWrapperAndPipeline == SwitchSpec => Spec /\ P!Spec
<1>1. SwitchInit => Init /\ P!Init
  BY DEF SwitchInit
<1>2. [SwitchNext]_switch => [Next]_vars
  BY StepOfWrapper
<1>3. WrapperInv /\ [Next]_vars => WrapperInv'
  BY StepWrapper
<1>4. WrapperInv /\ [SwitchNext]_switch => [P!Next]_(P!vars)
  BY StepOfPipeline
<1> QED BY <1>1, <1>2, <1>3, <1>4, InitWrapper, PTL DEF SwitchSpec, Spec, P!Spec

(* In the switch, too, no answer is taken for one of another ping and no   *)
(* port is given up too early (AnswersAreRecent, NoFalseAlarm).            *)
THEOREM SwitchSupervises == SwitchSpec => []AnswersAreRecent /\ NoFalseAlarm
BY SwitchIsWrapperAndPipeline, NumbersAreNotConfused, NoAlarmIsFalse, PTL

-----------------------------------------------------------------------------
(* The pipeline of the switch as the one that OFPipeline_proofs is about.  *)
R == INSTANCE OFPipeline_proofs

LEMMA SameRules == \A vlc : P!NewRules(vlc) = R!NewRules(vlc)
BY DEF P!NewRules, R!NewRules, P!createMessage, R!createMessage, P!WLANPORT, R!WLANPORT,
  P!ETHERPORT, R!ETHERPORT, P!VLCPORT, R!VLCPORT, P!PRIOETHER, R!PRIOETHER, P!PRIOWLAN,
  R!PRIOWLAN, P!PRIOVLC, R!PRIOVLC

LEMMA SameStart == P!Init => R!Init
BY SameRules DEF P!Init, R!Init, P!PortMngInit, R!PortMngInit, P!initialize,
  R!initialize, P!NoRequest, R!NoRequest, P!NoReply, R!NoReply, P!OFPP_ANY, R!OFPP_ANY

LEMMA SameStep == [P!Next]_(P!vars) => [R!Next]_(R!vars)
<1>1. /\ UNCHANGED P!portMng => UNCHANGED R!portMng
      /\ UNCHANGED P!pipeline => UNCHANGED R!pipeline
      /\ UNCHANGED P!vars => UNCHANGED R!vars
  BY DEF P!vars, R!vars, P!portMng, R!portMng, P!pipeline, R!pipeline
<1>2. P!Timer => R!Timer
  BY <1>1, SameRules DEF P!Timer, R!Timer, P!run_timer, R!run_timer, P!Unexpired, R!Unexpired
<1>3. P!Clock => R!Clock
  BY <1>1 DEF P!Clock, R!Clock, P!Tick, R!Tick
<1>4. P!FromPort => R!FromPort
  <2>1. \A s : P!PortStatus(s) => R!PortStatus(s)
    BY DEF P!PortStatus, R!PortStatus, P!OFPPS_LIVE, R!OFPPS_LIVE
  <2>2. \A i, t, dst, vlc : P!PacketIn(i, t, dst, vlc) => R!PacketIn(i, t, dst, vlc)
    BY DEF P!PacketIn, R!PacketIn, P!selected, R!selected, P!UnicastPort, R!UnicastPort,
      P!Ports, R!Ports, P!OFPP_ANY, R!OFPP_ANY, P!WLANPORT, R!WLANPORT, P!ETHERPORT,
      R!ETHERPORT, P!VLCPORT, R!VLCPORT, P!PRIOWLAN, R!PRIOWLAN, P!PRIOVLC, R!PRIOVLC
  <2>3. P!Reported = R!Reported /\ P!Ports = R!Ports /\ P!Destinations = R!Destinations
    BY DEF P!Reported, R!Reported, P!Ports, R!Ports, P!Destinations, R!Destinations,
      P!OFPPS_LIVE, R!OFPPS_LIVE, P!OFPPS_LINK_DOWN, R!OFPPS_LINK_DOWN,
      P!__builtin_bswap32, R!__builtin_bswap32, P!Byte, R!Byte
  <2> QED BY <1>1, <2>1, <2>2, <2>3 DEF P!FromPort, R!FromPort
<1>5. P!FromController => R!FromController
  <2>1. P!FlowModAdd => R!FlowModAdd
    BY DEF P!FlowModAdd, R!FlowModAdd, P!Unexpired, R!Unexpired
  <2>2. \A i, p : P!PacketOut(i, p) => R!PacketOut(i, p)
    BY DEF P!PacketOut, R!PacketOut, P!Ports, R!Ports, P!Outputs, R!Outputs,
      P!OFPP_ANY, R!OFPP_ANY, P!OFPP_FLOOD, R!OFPP_FLOOD
  <2>3. \A xid : P!PortDescRequest(xid) => R!PortDescRequest(xid)
    BY DEF P!PortDescRequest, R!PortDescRequest, P!PortDescReply, R!PortDescReply,
      P!Descriptions, R!Descriptions, P!Ports, R!Ports
  <2>4. /\ P!Ports = R!Ports /\ P!OFPP_ANY = R!OFPP_ANY /\ P!OFPP_CONTROLLER = R!OFPP_CONTROLLER
        /\ P!PortNumbers = R!PortNumbers
    BY DEF P!Ports, R!Ports, P!Outputs, R!Outputs, P!PortNumbers, R!PortNumbers,
      P!OFPP_ANY, R!OFPP_ANY, P!OFPP_ALL, R!OFPP_ALL, P!OFPP_FLOOD, R!OFPP_FLOOD,
      P!OFPP_CONTROLLER, R!OFPP_CONTROLLER
  <2> QED BY <1>1, <2>1, <2>2, <2>3, <2>4 DEF P!FromController, R!FromController
<1> QED BY <1>1, <1>2, <1>3, <1>4, <1>5 DEF P!Next, R!Next

(* The properties of the pipeline hold in the switch, where the port's     *)
(* state is what the wrapper's pings make of it: rules do not pile up,     *)
(* are renewed and lapse, and the reply describes every port               *)
(* (TwoGenerations, RulesAreRenewed, VLCRulesLapse, ReplyIsComplete).      *)
THEOREM SwitchForwards ==
  SwitchSpec => /\ []P!TwoGenerations /\ []P!RulesAreRenewed
                /\ []P!VLCRulesLapse /\ []P!ReplyIsComplete
<1>1. R!Spec => /\ []R!TwoGenerations /\ []R!RulesAreRenewed
                /\ []R!VLCRulesLapse /\ []R!ReplyIsComplete
  <2>1. /\ NumberOfPorts \in Nat /\ NumberOfPorts >= R!VLCPORT
        /\ Xids \subseteq Nat /\ MaxRequests \in Nat
        /\ Interval \in Nat /\ Interval > 0 /\ Late \in Nat
    BY FailoverAssumption DEF P!VLCPORT, R!VLCPORT
  <2> QED BY <2>1, R!RulesDoNotPileUp, R!RulesAreAlwaysThere, R!RulesLapse,
    R!ReplyDescribesEveryPort
<1>2. /\ R!TwoGenerations => P!TwoGenerations
      /\ R!RulesAreRenewed => P!RulesAreRenewed
      /\ R!VLCRulesLapse => P!VLCRulesLapse
      /\ R!ReplyIsComplete => P!ReplyIsComplete
  <2>1. R!TwoGenerations => P!TwoGenerations
    BY DEF P!TwoGenerations, R!TwoGenerations, P!Cardinality, R!Cardinality,
      P!IsFiniteSet, R!IsFiniteSet
  <2>2. R!RulesAreRenewed => P!RulesAreRenewed
    BY SameRules DEF P!RulesAreRenewed, R!RulesAreRenewed, P!Unexpired, R!Unexpired
  <2>3. R!VLCRulesLapse => P!VLCRulesLapse
    BY DEF P!VLCRulesLapse, R!VLCRulesLapse, P!VLCPORT, R!VLCPORT
  <2>4. R!ReplyIsComplete => P!ReplyIsComplete
    BY DEF P!ReplyIsComplete, R!ReplyIsComplete, P!NoReply, R!NoReply, P!NoRequest,
      R!NoRequest, P!Ports, R!Ports, P!Range, R!Range, P!IsInjective, R!IsInjective
  <2> QED BY <2>1, <2>2, <2>3, <2>4
<1> QED BY <1>1, <1>2, SameStart, SameStep, SwitchIsWrapperAndPipeline, PTL DEF P!Spec, R!Spec

(* No unicast packet for a fixed address goes to a VLC port that is        *)
(* reported down, for any numbers, any delay of pings and timers and       *)
(* whatever the controller sends in between (DownIsAvoided).               *)
THEOREM DownPortIsAvoided == SwitchSpec => []DownIsAvoided
<1>1. SwitchInit => SwitchInv
  <2>1. SwitchInit => WrapperInv
    BY InitWrapper DEF SwitchInit
  <2>2. SwitchInit => AvoidInv
    BY NearIsAnEnd, StatesDiffer DEF SwitchInit, Init, AvoidInv
  <2> QED BY <2>1, <2>2 DEF SwitchInv
<1>2. SwitchInv /\ [SwitchNext]_switch => SwitchInv'
  <2> SUFFICES ASSUME SwitchInv, [SwitchNext]_switch PROVE SwitchInv'
    OBVIOUS
  <2>1. WrapperInv'
    BY StepOfWrapper, StepWrapper DEF SwitchInv
  <2>2. CASE Next /\ Forwarding
    <3>1. CASE status'[Near] # None
      <4>1. P!PortStatus(status'[Near])
        BY <2>2, <3>1 DEF Forwarding
      <4>2. status'[Near] # OFPPS_LIVE
        BY <2>1, <3>1, NearIsAnEnd, StatesDiffer DEF WrapperInv, WrapperTypeOK
      <4>3. vlcPortStatus' = FALSE
        BY <4>1, <4>2 DEF P!PortStatus, P!OFPPS_LIVE, OFPPS_LIVE
      <4> QED BY <2>1, <4>3 DEF SwitchInv, AvoidInv
    <3>2. CASE status'[Near] = None
      <4>1. vlcPortStatus' = vlcPortStatus
        BY <2>2, <3>2 DEF Forwarding, pipeline
      <4>2. state'[Near] = Down => state[Near] = Down
        BY <2>2, <3>2, DownIsReported, StatesDiffer DEF SwitchInv
      <4> QED BY <2>1, <4>1, <4>2 DEF SwitchInv, AvoidInv
    <3> QED BY <3>1, <3>2
  <2>3. CASE UNCHANGED vars /\ UNCHANGED vlcPortStatus
    BY <2>1, <2>3 DEF SwitchInv, AvoidInv, vars, pings
  <2>4. (Next /\ Forwarding) \/ (UNCHANGED vars /\ UNCHANGED vlcPortStatus)
    <3>1. Packet \/ Controller => UNCHANGED vlcPortStatus
      BY DEF Packet, Controller, P!FlowModAdd, pipeline
    <3>2. RuleTimer \/ Second => UNCHANGED vlcPortStatus
      BY DEF RuleTimer, Second, P!Timer, P!run_timer, P!Clock, P!Tick
    <3>3. UNCHANGED switch => UNCHANGED vars /\ UNCHANGED vlcPortStatus
      BY DEF switch, pipeline
    <3> QED BY <3>1, <3>2, <3>3 DEF SwitchNext, PingTimer, LinkMoves, LinkChanges, Next, RuleTimer, Second
  <2> QED BY <2>2, <2>3, <2>4
<1>3. SwitchInv => DownIsAvoided
  <2> SUFFICES ASSUME SwitchInv, state[Near] = Down, NEW inPort \in P!Ports, NEW dst \in P!Destinations
               PROVE  P!VLCPORT \notin P!selected(inPort, "OTHERHOST", dst, vlcPortStatus)
    BY DEF DownIsAvoided
  <2>1. P!UnicastPort(dst, vlcPortStatus) # P!VLCPORT
    BY DEF SwitchInv, AvoidInv, P!UnicastPort, P!WLANPORT, P!VLCPORT, P!ETHERPORT
  <2> QED BY <2>1 DEF P!selected
<1> QED BY <1>1, <1>2, <1>3, PTL DEF SwitchSpec
=============================================================================
