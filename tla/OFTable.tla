------------------------------- MODULE OFTable -------------------------------
(***************************************************************************)
(* The flow table of the switch, Elements/OFPipeline/OFTable.cc: a vector  *)
(* of shared flow entries kept in ascending order of priority.             *)
(*                                                                         *)
(* A flow entry (OFTableFlowEntry) is an object that several table         *)
(* generations point to, so a table is a sequence of indices into the heap *)
(* `flows' of entry records.  The operators take that heap as an argument. *)
(***************************************************************************)
EXTENDS Integers, Sequences, FiniteSets, Functions

(* OFTableFlowEntry stores -1 when the FLOW_MOD carried no timeout.        *)
NoTimeout == -1

(* The instructions' first action: an OUTPUT to a port, one to             *)
(* OFPP_CONTROLLER and the empty action list (DROP) succeed; SET_FIELD     *)
(* stands for every action the switch parses but does not implement.       *)
Actions == {"OUTPUT", "CONTROLLER", "DROP", "SET_FIELD"}

(* The test deleteOldFlows makes.                                          *)
Expired(f, time) == f.timeout # NoTimeout /\ f.timeout < time

(* The test with which checkPacketInTable passes over an entry.            *)
PassedOver(f, time) == f.timeout # NoTimeout /\ f.timeout >= time

(* Whether applyActionOnPacket reports success.                            *)
applyActionOnPacket(action) == action \in {"OUTPUT", "CONTROLLER", "DROP"}

(* Whether all OXM fields of the entry match the packet.                   *)
checkPacketInOXMFields(f, p) == p \in f.match

(* Whether checkPacketOnFlow returns true: every OXM field matches and the *)
(* action could be applied.                                                *)
checkPacketOnFlow(f, p) ==
  checkPacketInOXMFields(f, p) /\ applyActionOnPacket(f.action)

-----------------------------------------------------------------------------
(* The elements of s at the positions K, in their order.                   *)
Rank(K, k) == Cardinality({j \in K : j <= k})

Subsequence(s, K) ==
  [i \in 1..Cardinality(K) |-> s[CHOOSE k \in K : Rank(K, k) = i]]

(* Mutant: permanent entries are not exempted.                             *)
deleteOldFlows_NoPermanent(s, flows, time) ==
  Subsequence(s, {i \in DOMAIN s : ~(flows[s[i]].timeout < time)})

deleteOldFlows(s, flows, time) ==
  Subsequence(s, {i \in DOMAIN s : ~Expired(flows[s[i]], time)})

(* Ascending priority: what the comparison function of std::sort asks for. *)
Sorted(s, flows) ==
  \A i, j \in DOMAIN s :
    i < j => flows[s[i]].priority <= flows[s[j]].priority

(* push_back followed by std::sort, which leaves the order of entries of   *)
(* equal priority open.                                                    *)
Reorderings(D) == {pi \in [D -> D] : \A k \in D : \E i \in D : pi[i] = k}

Arrangements(s) ==
  {[i \in DOMAIN s |-> s[pi[i]]] : pi \in Reorderings(DOMAIN s)}

(* Mutant: the sort is missing.                                            *)
addFlow_Unsorted(s, new, flows) == {Append(s, new)}

addFlow(s, new, flows) == {t \in Arrangements(Append(s, new)) : Sorted(t, flows)}

-----------------------------------------------------------------------------
(* checkPacketInTable scans from the back.  It stops at the first position *)
(* whose entry is not passed over and takes the packet.                    *)
Taking(s, flows, p, time) ==
  {i \in DOMAIN s : /\ ~PassedOver(flows[s[i]], time)
                    /\ checkPacketOnFlow(flows[s[i]], p)}

(* Mutant: the scan starts at the front.                                   *)
StopsAt_FromFront(s, flows, p, time) ==
  {i \in Taking(s, flows, p, time) :
     \A j \in Taking(s, flows, p, time) : i <= j}

StopsAt(s, flows, p, time) ==
  {i \in Taking(s, flows, p, time) :
     \A j \in Taking(s, flows, p, time) : j <= i}

(* Mutant: a position counted from zero where the entry is meant.          *)
checkPacketInTable_Position(s, flows, p, time) ==
  {i - 1 : i \in StopsAt(s, flows, p, time)}

(* The entry (none or one) that is applied to packet p.                    *)
checkPacketInTable(s, flows, p, time) ==
  {s[i] : i \in StopsAt(s, flows, p, time)}

(* The entries checkPacketOnFlow was called on; each counted the packet.   *)
Consulted(s, flows, p, time) ==
  {s[i] : i \in {i \in DOMAIN s :
                   /\ ~PassedOver(flows[s[i]], time)
                   /\ \A j \in StopsAt(s, flows, p, time) : j <= i}}
=============================================================================
