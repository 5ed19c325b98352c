--------------------------- MODULE OFTableMng_proofs ---------------------------
(***************************************************************************)
(* Proofs about the flow tables, for every set of tables, packets and      *)
(* FLOW_MODs.                                                              *)
(*                                                                         *)
(* The first part says what the operators of OFTable return, for every     *)
(* table and heap: purging keeps order and loses only expired entries, and *)
(* adding to a table gives a sorted table of the old entries and the new   *)
(* one.  Positions that a filter keeps are counted by their rank, which    *)
(* needs no recursion.                                                     *)
(*                                                                         *)
(* The properties of the table manager follow from one inductive           *)
(* invariant: besides its type the state needs every active table sorted,  *)
(* since a new entry is sorted into a purged copy, and the scan of a       *)
(* sorted table meets the highest priority first.                          *)
(***************************************************************************)
EXTENDS OFTableMng, TLAPS, FiniteSetTheorems, FunctionTheorems

(* Positions below one another have different ranks, and every rank up to *)
(* the number of positions is taken.                                      *)
LEMMA RankBijection ==
  ASSUME NEW n \in Nat, NEW K \in SUBSET (1..n)
  PROVE  /\ Cardinality(K) \in Nat
         /\ \A k \in K : Rank(K, k) \in 1..Cardinality(K)
         /\ \A j, k \in K : j < k => Rank(K, j) < Rank(K, k)
         /\ \A i \in 1..Cardinality(K) : \E k \in K : Rank(K, k) = i
<1> DEFINE Below(k) == {j \in K : j <= k}
<1> DEFINE R == [k \in K |-> Cardinality(Below(k))]
<1>1. IsFiniteSet(K) /\ Cardinality(K) \in Nat
  <2>1. IsFiniteSet(1..n)
    BY FS_Interval
  <2> QED BY <2>1, FS_Subset, FS_CardinalityType
<1>2. \A k \in K : IsFiniteSet(Below(k)) /\ Cardinality(Below(k)) \in 1..Cardinality(K)
  <2> TAKE k \in K
  <2>1. Below(k) \in SUBSET K /\ k \in Below(k)
    OBVIOUS
  <2>2. IsFiniteSet(Below(k)) /\ Cardinality(Below(k)) <= Cardinality(K)
    BY <1>1, <2>1, FS_Subset
  <2>3. Cardinality(Below(k)) \in Nat /\ Cardinality(Below(k)) # 0
    BY <2>1, <2>2, FS_CardinalityType, FS_EmptySet
  <2> QED BY <1>1, <2>2, <2>3
<1>3. ASSUME NEW j \in K, NEW k \in K, j < k
      PROVE  Cardinality(Below(j)) < Cardinality(Below(k))
  <2>1. Below(j) \in SUBSET Below(k) /\ Below(j) # Below(k)
    <3>1. \A i \in K : i \in Int
      OBVIOUS
    <3>2. k \in Below(k) /\ k \notin Below(j)
      BY <1>3, <3>1
    <3>3. \A i \in K : i <= j => i <= k
      BY <1>3, <3>1
    <3> QED BY <3>2, <3>3
  <2>2. Cardinality(Below(j)) <= Cardinality(Below(k))
        /\ Cardinality(Below(j)) # Cardinality(Below(k))
    BY <1>2, <2>1, FS_Subset
  <2> QED BY <1>2, <2>2
<1>4. R \in Injection(K, 1..Cardinality(K))
  <2>1. R \in [K -> 1..Cardinality(K)]
    BY <1>2
  <2>2. ASSUME NEW a \in K, NEW b \in K, R[a] = R[b] PROVE a = b
    BY <1>2, <1>3, <2>2
  <2> QED BY <2>1, <2>2, Fun_IsInj
<1>5. R \in Surjection(K, 1..Cardinality(K))
  BY <1>1, <1>4, FS_Interval, FS_Injection
<1>6. \A i \in 1..Cardinality(K) : \E k \in K : R[k] = i
  <2> HIDE DEF R
  <2> QED BY <1>5, Fun_SurjectionProperties
<1> QED BY <1>1, <1>2, <1>3, <1>6 DEF Rank

(* The subsequence reads s at increasing positions, which are those of K. *)
LEMMA SubsequenceEmbeds ==
  ASSUME NEW S, NEW s \in Seq(S), NEW K \in SUBSET (DOMAIN s)
  PROVE  /\ Subsequence(s, K) \in Seq(S)
         /\ DOMAIN Subsequence(s, K) = 1..Cardinality(K)
         /\ \E e \in [1..Cardinality(K) -> K] :
              /\ \A i \in 1..Cardinality(K) : Subsequence(s, K)[i] = s[e[i]]
              /\ \A i, j \in 1..Cardinality(K) : i < j => e[i] < e[j]
              /\ \A k \in K : \E i \in 1..Cardinality(K) : e[i] = k
<1> DEFINE n == Cardinality(K)
           e == [i \in 1..n |-> CHOOSE k \in K : Rank(K, k) = i]
           t == Subsequence(s, K)
<1>1. K \in SUBSET (1..Len(s)) /\ Len(s) \in Nat
  OBVIOUS
<1>2. /\ n \in Nat
      /\ \A k \in K : Rank(K, k) \in 1..n
      /\ \A j, k \in K : j < k => Rank(K, j) < Rank(K, k)
      /\ \A i \in 1..n : \E k \in K : Rank(K, k) = i
  BY <1>1, RankBijection
<1>3. \A k \in K : k \in Int
  BY <1>1
<1>4. \A i \in 1..n : e[i] \in K /\ Rank(K, e[i]) = i
  BY <1>2
<1>5. \A i \in 1..n : t[i] = s[e[i]]
  BY DEF Subsequence
<1>6. t \in [1..n -> S]
  <2>1. t = [i \in 1..n |-> s[e[i]]]
    BY DEF Subsequence
  <2>2. \A i \in 1..n : s[e[i]] \in S
    BY <1>1, <1>4
  <2> HIDE DEF n, e, t
  <2> QED BY <2>1, <2>2
<1>7. ASSUME NEW i \in 1..n, NEW j \in 1..n, i < j PROVE e[i] < e[j]
  <2> HIDE DEF n, e
  <2> QED BY <1>2, <1>3, <1>4, <1>7
<1>8. ASSUME NEW k \in K PROVE \E i \in 1..n : e[i] = k
  <2> HIDE DEF n, e
  <2>1. e[Rank(K, k)] \in K /\ Rank(K, e[Rank(K, k)]) = Rank(K, k)
    BY <1>2, <1>4
  <2> QED BY <1>2, <1>3, <2>1
<1>9. e \in [1..n -> K]
  BY <1>4
<1>10. t \in Seq(S)
  <2> HIDE DEF n, t
  <2> QED BY <1>2, <1>6
<1>11. DOMAIN t = 1..n
  BY DEF Subsequence
<1> HIDE DEF n, e, t
<1> QED BY <1>5, <1>7, <1>8, <1>9, <1>10, <1>11 DEF n, t

(* An arrangement of s reads s through a permutation of its positions.    *)
LEMMA ArrangementPermutes ==
  ASSUME NEW S, NEW s \in Seq(S), NEW t \in Arrangements(s)
  PROVE  /\ t \in Seq(S)
         /\ DOMAIN t = DOMAIN s
         /\ \E pi \in [DOMAIN s -> DOMAIN s] :
              /\ \A i \in DOMAIN s : t[i] = s[pi[i]]
              /\ \A i, j \in DOMAIN s : pi[i] = pi[j] => i = j
              /\ \A k \in DOMAIN s : \E i \in DOMAIN s : pi[i] = k
<1> DEFINE D == DOMAIN s
<1>1. PICK pi \in Reorderings(D) : t = [i \in D |-> s[pi[i]]]
  BY DEF Arrangements
<1>2. pi \in [D -> D] /\ \A k \in D : \E i \in D : pi[i] = k
  BY DEF Reorderings
<1>3. D = 1..Len(s) /\ Len(s) \in Nat
  OBVIOUS
<1>4. pi \in Surjection(D, D)
  BY <1>2, Fun_IsSurj
<1>5. pi \in Injection(D, D)
  <2>1. IsFiniteSet(D)
    BY <1>3, FS_Interval
  <2> QED BY <1>4, <2>1, FS_SurjSameCardinalityImpliesInj
<1>6. \A i, j \in D : pi[i] = pi[j] => i = j
  BY <1>5, Fun_InjectionProperties
<1>7. t \in [1..Len(s) -> S]
  BY <1>1, <1>2, <1>3
<1>8. t \in Seq(S) /\ DOMAIN t = D
  BY <1>3, <1>7
<1> QED BY <1>1, <1>2, <1>6, <1>8

(* deleteOldFlows keeps exactly the entries that have not expired, in     *)
(* their order and without repeating one.                                 *)
LEMMA DeleteOldFlowsKeeps ==
  ASSUME NEW S, NEW s \in Seq(S), NEW heap, NEW time,
         NEW t, t = deleteOldFlows(s, heap, time)
  PROVE  /\ t \in Seq(S)
         /\ Range(t) = {x \in Range(s) : ~Expired(heap[x], time)}
         /\ Sorted(s, heap) => Sorted(t, heap)
         /\ IsInjective(s) => IsInjective(t)
<1> DEFINE K == {i \in DOMAIN s : ~Expired(heap[s[i]], time)}
           n == Cardinality(K)
<1>1. t = Subsequence(s, K) /\ K \in SUBSET (DOMAIN s)
  BY DEF deleteOldFlows
<1>2. n \in Nat /\ K \in SUBSET (1..Len(s)) /\ Len(s) \in Nat
  <2>1. K \in SUBSET (1..Len(s)) /\ Len(s) \in Nat
    OBVIOUS
  <2> QED BY <2>1, RankBijection
<1> HIDE DEF n, K
<1>3. PICK e \in [1..Cardinality(K) -> K] :
        /\ \A i \in 1..Cardinality(K) : Subsequence(s, K)[i] = s[e[i]]
        /\ \A i, j \in 1..Cardinality(K) : i < j => e[i] < e[j]
        /\ \A k \in K : \E i \in 1..Cardinality(K) : e[i] = k
  BY <1>1, SubsequenceEmbeds
<1>4. /\ e \in [1..n -> K]
      /\ \A i \in 1..n : t[i] = s[e[i]]
      /\ \A i, j \in 1..n : i < j => e[i] < e[j]
      /\ \A k \in K : \E i \in 1..n : e[i] = k
  BY <1>1, <1>3 DEF n
<1>5. t \in Seq(S) /\ DOMAIN t = 1..n
  BY <1>1, SubsequenceEmbeds DEF n
<1>6. \A i \in 1..n : e[i] \in DOMAIN s /\ ~Expired(heap[s[e[i]]], time)
  BY <1>4 DEF K
<1>7. \A k \in DOMAIN s : ~Expired(heap[s[k]], time) => \E i \in 1..n : e[i] = k
  BY <1>4 DEF K
<1>8. Range(t) = {x \in Range(s) : ~Expired(heap[x], time)}
  <2>1. ASSUME NEW x \in Range(t)
        PROVE  x \in Range(s) /\ ~Expired(heap[x], time)
    <3>1. PICK i \in 1..n : x = t[i]
      BY <1>5 DEF Range
    <3>2. e[i] \in DOMAIN s /\ x = s[e[i]]
      BY <1>4, <1>6, <3>1
    <3> QED BY <1>6, <3>2 DEF Range
  <2>2. ASSUME NEW x \in Range(s), ~Expired(heap[x], time)
        PROVE  x \in Range(t)
    <3>1. PICK k \in DOMAIN s : x = s[k]
      BY DEF Range
    <3>2. PICK i \in 1..n : e[i] = k
      BY <1>7, <2>2, <3>1
    <3> QED BY <1>4, <1>5, <3>1, <3>2 DEF Range
  <2> QED BY <2>1, <2>2
<1>9. Sorted(s, heap) => Sorted(t, heap)
  BY <1>4, <1>5, <1>6 DEF Sorted
<1>10. IsInjective(s) => IsInjective(t)
  <2> SUFFICES ASSUME IsInjective(s), NEW i \in 1..n, NEW j \in 1..n, t[i] = t[j]
               PROVE  i = j
    BY <1>5 DEF IsInjective
  <2>1. e[i] = e[j]
    BY <1>4, <1>6 DEF IsInjective
  <2>2. e[i] \in Nat /\ e[j] \in Nat
    BY <1>2, <1>6
  <2>3. ~(i < j) /\ ~(j < i)
    BY <1>4, <2>1, <2>2
  <2> QED BY <1>2, <2>3
<1> QED BY <1>5, <1>8, <1>9, <1>10

(* addFlow adds the new entry and sorts; whatever order it gives to equal *)
(* priorities, no entry is lost or repeated.                              *)
LEMMA AddFlowAdds ==
  ASSUME NEW S, NEW s \in Seq(S), NEW new \in S, NEW heap,
         NEW t \in addFlow(s, new, heap)
  PROVE  /\ t \in Seq(S)
         /\ Range(t) = Range(s) \cup {new}
         /\ Sorted(t, heap)
         /\ IsInjective(s) /\ new \notin Range(s) => IsInjective(t)
<1> DEFINE u == Append(s, new)
           D == DOMAIN u
<1>1. t \in Arrangements(u) /\ Sorted(t, heap)
  BY DEF addFlow
<1>2. /\ u \in Seq(S)
      /\ D = 1..(Len(s) + 1) /\ Len(s) \in Nat
      /\ DOMAIN s = 1..Len(s)
      /\ \A i \in 1..Len(s) : u[i] = s[i]
      /\ u[Len(s) + 1] = new
  OBVIOUS
<1> HIDE DEF u
<1>3. t \in Seq(S) /\ DOMAIN t = D
  BY <1>1, <1>2, ArrangementPermutes
<1>4. PICK pi \in [D -> D] :
        /\ \A i \in D : t[i] = u[pi[i]]
        /\ \A i, j \in D : pi[i] = pi[j] => i = j
        /\ \A k \in D : \E i \in D : pi[i] = k
  BY <1>1, <1>2, ArrangementPermutes
<1> HIDE DEF D
<1>5. Range(t) = Range(u)
  BY <1>3, <1>4 DEF Range, D
<1>6. Range(u) = Range(s) \cup {new}
  <2>1. \A i \in D : i \in 1..Len(s) \/ i = Len(s) + 1
    BY <1>2
  <2>2. Len(s) + 1 \in D /\ \A i \in 1..Len(s) : i \in D
    BY <1>2
  <2> QED BY <1>2, <2>1, <2>2 DEF Range, D
<1>7. ASSUME IsInjective(s), new \notin Range(s) PROVE IsInjective(t)
  <2>1. ASSUME NEW i \in D, NEW j \in D, u[i] = u[j] PROVE i = j
    <3>1. \A k \in 1..Len(s) : u[k] # new
      BY <1>2, <1>7 DEF Range
    <3>2. CASE i \in 1..Len(s) /\ j \in 1..Len(s)
      BY <1>2, <1>7, <2>1, <3>2 DEF IsInjective
    <3> QED BY <1>2, <2>1, <3>1, <3>2
  <2> SUFFICES ASSUME NEW i \in D, NEW j \in D, t[i] = t[j] PROVE i = j
    BY <1>3 DEF IsInjective
  <2>2. pi[i] \in D /\ pi[j] \in D /\ u[pi[i]] = u[pi[j]]
    BY <1>4
  <2> QED BY <1>4, <2>1, <2>2
<1> QED BY <1>1, <1>3, <1>5, <1>6, <1>7

-----------------------------------------------------------------------------
(* The table manager: its tables are always sorted.                        *)
TablesSorted == \A t \in Tables : Sorted(activTables[t], flows)

IInv == TypeOK /\ TablesSorted /\ OneHome /\ ConsecutiveGenerations

-----------------------------------------------------------------------------
(* The range of a sequence over a set lies in the set.                     *)
LEMMA SeqRange ==
  ASSUME NEW S, NEW s \in Seq(S)
  PROVE  Range(s) \subseteq S
BY DEF Range

(* A sequence over a set is one over any larger set.                       *)
LEMMA SeqWiden ==
  ASSUME NEW S, NEW T, S \subseteq T, NEW s \in Seq(S)
  PROVE  s \in Seq(T)
<1>1. s \in [1..Len(s) -> T] /\ Len(s) \in Nat
  OBVIOUS
<1> QED BY <1>1

(* The timeout of an entry is a time to come, unless it has none.          *)
LEMMA NewFlowType ==
  ASSUME now \in Nat, NEW m \in FlowMods
  PROVE  /\ m.table \in Tables
         /\ NewFlow(m) \in Flow
         /\ ~Expired(NewFlow(m), now)
<1>1. /\ m.table \in Tables /\ m.hard \in Nat /\ m.idle \in Nat
      /\ m.priority \in Nat /\ m.match \in SUBSET Packets /\ m.action \in Actions
  BY TableAssumption DEF FlowMod
<1>2. Timeout(m) \in Nat
  BY <1>1 DEF Timeout
<1>3. NewFlow(m) \in Flow
  BY <1>1, <1>2 DEF NewFlow, Flow
<1>4. ~Expired(NewFlow(m), now)
  BY <1>1, <1>2 DEF NewFlow, Expired, NoTimeout
<1> QED BY <1>1, <1>3, <1>4

(* What one ADD does: a new entry at the end of the heap, and tables that  *)
(* hold the unexpired entries of their predecessors, the named table also  *)
(* the new one; in order, and without repetition.                          *)
LEMMA FlowModAddEffect ==
  ASSUME TypeOK, TablesSorted, OneHome, NEW m \in FlowMods, FlowModAdd(m)
  PROVE  LET new == Len(flows) + 1
             kept(t) == {i \in Entries(activTables, t) : ~Expired(flows[i], now)}
         IN /\ m.table \in Tables
            /\ Len(flows) \in Nat
            /\ flows' \in Seq(Flow)
            /\ Len(flows') = new
            /\ flows'[new] = NewFlow(m)
            /\ \A i \in FlowIds : flows'[i] = flows[i]
            /\ \A t \in Tables :
                 /\ Entries(activTables, t) \subseteq FlowIds
                 /\ activTables'[t] \in Seq(FlowIds')
                 /\ Range(activTables'[t]) = kept(t) \cup (IF t = m.table THEN {new} ELSE {})
                 /\ Sorted(activTables'[t], flows')
                 /\ IsInjective(activTables'[t])
            /\ activTables' \in [Tables -> Seq(FlowIds')]
            /\ inactivTables' = activTables
            /\ now' = now
<1> DEFINE new == Len(flows) + 1
           kept(t) == {i \in Entries(activTables, t) : ~Expired(flows[i], now)}
           C == CopyTables
<1>1. /\ flows \in Seq(Flow) /\ Len(flows) \in Nat /\ now \in Nat
      /\ activTables \in [Tables -> Seq(FlowIds)]
  BY DEF TypeOK
<1>2. m.table \in Tables /\ NewFlow(m) \in Flow
  BY <1>1, NewFlowType
<1>3. /\ flows' = Append(flows, NewFlow(m))
      /\ inactivTables' = activTables /\ now' = now
  BY DEF FlowModAdd
<1>4. /\ flows' \in Seq(Flow) /\ Len(flows') = new /\ flows'[new] = NewFlow(m)
      /\ \A i \in FlowIds : flows'[i] = flows[i]
  BY <1>1, <1>2, <1>3 DEF FlowIds
<1>5. FlowIds' = 1..new /\ FlowIds \subseteq 1..new /\ new \in 1..new /\ new \notin FlowIds
  BY <1>1, <1>4 DEF FlowIds
<1>6. PICK s \in addFlow(C[m.table], new, flows') :
        activTables' = [C EXCEPT ![m.table] = s]
  BY <1>4 DEF FlowModAdd
<1>7. C = [t \in Tables |-> deleteOldFlows(activTables[t], flows, now)]
  BY DEF CopyTables
<1> HIDE DEF new, C
<1>8. ASSUME NEW t \in Tables
      PROVE  /\ Entries(activTables, t) \subseteq FlowIds
             /\ C[t] \in Seq(FlowIds) /\ C[t] \in Seq(1..new)
             /\ Range(C[t]) = kept(t)
             /\ Sorted(C[t], flows')
             /\ IsInjective(C[t])
             /\ new \notin Range(C[t])
  <2>1. activTables[t] \in Seq(FlowIds) /\ C[t] = deleteOldFlows(activTables[t], flows, now)
    BY <1>1, <1>7
  <2>2. Entries(activTables, t) \subseteq FlowIds
    BY <2>1, SeqRange DEF Entries
  <2>3. Sorted(activTables[t], flows) /\ IsInjective(activTables[t])
    BY DEF TablesSorted, OneHome
  <2>4. /\ C[t] \in Seq(FlowIds)
        /\ Range(C[t]) = {x \in Range(activTables[t]) : ~Expired(flows[x], now)}
        /\ Sorted(C[t], flows) /\ IsInjective(C[t])
    BY <2>1, <2>3, DeleteOldFlowsKeeps
  <2>5. C[t] \in Seq(1..new)
    BY <1>5, <2>4, SeqWiden
  <2>6. \A i \in DOMAIN C[t] : C[t][i] \in FlowIds
    BY <2>4
  <2>7. Sorted(C[t], flows')
    BY <1>4, <2>4, <2>6 DEF Sorted
  <2>8. new \notin Range(C[t])
    BY <1>5, <2>4, SeqRange
  <2> QED BY <2>2, <2>4, <2>5, <2>7, <2>8 DEF Entries
<1>9. /\ s \in Seq(1..new)
      /\ Range(s) = kept(m.table) \cup {new}
      /\ Sorted(s, flows')
      /\ IsInjective(s)
  BY <1>2, <1>5, <1>6, <1>8, AddFlowAdds
<1>10. \A t \in Tables : activTables'[t] = IF t = m.table THEN s ELSE C[t]
  BY <1>2, <1>6, <1>7
<1>11. ASSUME NEW t \in Tables
       PROVE  /\ activTables'[t] \in Seq(1..new)
              /\ Range(activTables'[t]) = kept(t) \cup (IF t = m.table THEN {new} ELSE {})
              /\ Sorted(activTables'[t], flows')
              /\ IsInjective(activTables'[t])
  <2>1. CASE t = m.table
    BY <1>9, <1>10, <2>1
  <2>2. CASE t # m.table
    BY <1>8, <1>10, <2>2
  <2> QED BY <2>1, <2>2
<1>12. activTables' \in [Tables -> Seq(1..new)]
  <2>1. activTables' = [t \in Tables |-> activTables'[t]]
    BY <1>6, <1>7
  <2> QED BY <1>11, <2>1
<1> QED BY <1>1, <1>2, <1>3, <1>4, <1>5, <1>8, <1>11, <1>12 DEF new

(* A packet changes the counters of entries and nothing else of the heap.  *)
LEMMA CheckPacketEffect ==
  ASSUME TypeOK, NEW p \in Packets, checkPacketInFlow(p)
  PROVE  /\ flows' \in Seq(Flow)
         /\ Len(flows') = Len(flows)
         /\ FlowIds' = FlowIds
         /\ \A i \in FlowIds : /\ flows'[i].timeout = flows[i].timeout
                               /\ flows'[i].priority = flows[i].priority
                               /\ flows'[i].match = flows[i].match
                               /\ flows'[i].action = flows[i].action
<1> DEFINE seen == UNION {Consulted(activTables[t], flows, p, now) : t \in Tables}
           counted(i) ==
             [flows[i] EXCEPT
                !.packets = IF i \in seen THEN @ + 1 ELSE @]
<1>1. flows \in Seq(Flow) /\ Len(flows) \in Nat /\ FlowIds = 1..Len(flows)
  BY DEF TypeOK, FlowIds
<1>2. flows' = [i \in FlowIds |-> counted(i)]
  BY DEF checkPacketInFlow
<1> HIDE DEF seen
<1>3. ASSUME NEW i \in FlowIds
      PROVE  /\ counted(i) \in Flow
             /\ counted(i).timeout = flows[i].timeout
             /\ counted(i).priority = flows[i].priority
             /\ counted(i).match = flows[i].match
             /\ counted(i).action = flows[i].action
  <2> DEFINE f == flows[i]
             a == IF i \in seen THEN f.packets + 1 ELSE f.packets
  <2>1. f \in Flow
    BY <1>1
  <2>2. a \in Nat
    BY <2>1 DEF Flow
  <2>3. counted(i) = [f EXCEPT !.packets = a]
    BY <2>1 DEF Flow
  <2> HIDE DEF f, a, counted
  <2>4. counted(i) = [match |-> f.match, priority |-> f.priority,
                      timeout |-> f.timeout, action |-> f.action,
                      packets |-> a]
    BY <2>1, <2>3 DEF Flow
  <2> QED BY <2>1, <2>2, <2>4 DEF Flow, f
<1> HIDE DEF counted
<1>4. flows' \in [1..Len(flows) -> Flow]
  BY <1>1, <1>2, <1>3
<1>5. flows' \in Seq(Flow) /\ Len(flows') = Len(flows)
  BY <1>1, <1>4
<1> QED BY <1>1, <1>2, <1>3, <1>5 DEF FlowIds

(* An entry the switch looked up is in its table.                          *)
LEMMA LookupFinds ==
  ASSUME NEW s, NEW heap, NEW p, NEW time
  PROVE  checkPacketInTable(s, heap, p, time) \subseteq Range(s)
BY DEF checkPacketInTable, StopsAt, Taking, Range

-----------------------------------------------------------------------------
(* The empty tables of the constructor satisfy the invariant.              *)
LEMMA InitIInv == Init => IInv
<1> SUFFICES ASSUME Init PROVE IInv
  OBVIOUS
<1>1. /\ now = 0 /\ flows = <<>> /\ inactivTables = NoTables
      /\ activTables = [t \in Tables |-> <<>>]
      /\ applied = [t \in Tables |-> {}]
  BY DEF Init
<1>2. TypeOK
  BY <1>1 DEF TypeOK
<1>3. TablesSorted
  BY <1>1 DEF TablesSorted, Sorted
<1>4. OneHome
  BY <1>1 DEF OneHome, IsInjective, Entries, Range
<1>5. ConsecutiveGenerations
  BY <1>1 DEF ConsecutiveGenerations
<1> QED BY <1>2, <1>3, <1>4, <1>5 DEF IInv

(* An ADD keeps the invariant: the tables it makes active are those of     *)
(* FlowModAddEffect, and the buffer it leaves behind held their entries.   *)
LEMMA FlowModAddIInv ==
  ASSUME IInv, NEW m \in FlowMods, FlowModAdd(m)
  PROVE  IInv'
<1> DEFINE new == Len(flows) + 1
           kept(t) == {i \in Entries(activTables, t) : ~Expired(flows[i], now)}
<1>1. TypeOK /\ TablesSorted /\ OneHome
  BY DEF IInv
<1>2. /\ m.table \in Tables
      /\ Len(flows) \in Nat /\ flows' \in Seq(Flow) /\ Len(flows') = new
      /\ \A i \in FlowIds : flows'[i] = flows[i]
      /\ \A t \in Tables :
           /\ Entries(activTables, t) \subseteq FlowIds
           /\ activTables'[t] \in Seq(FlowIds')
           /\ Range(activTables'[t]) = kept(t) \cup (IF t = m.table THEN {new} ELSE {})
           /\ Sorted(activTables'[t], flows')
           /\ IsInjective(activTables'[t])
      /\ activTables' \in [Tables -> Seq(FlowIds')]
      /\ inactivTables' = activTables
      /\ now' = now
  BY <1>1, FlowModAddEffect
<1>3. FlowIds \subseteq FlowIds' /\ new \notin FlowIds
  BY <1>2 DEF FlowIds
<1> HIDE DEF new
<1>4. \A t \in Tables : Entries(activTables, t)' =
                          kept(t) \cup (IF t = m.table THEN {new} ELSE {})
  BY <1>2 DEF Entries
<1>5. TypeOK'
  <2>1. now' \in Nat /\ applied' = applied
    BY <1>1, <1>2 DEF FlowModAdd, TypeOK
  <2>2. applied' \in [Tables -> SUBSET FlowIds']
    BY <1>1, <1>3, <2>1 DEF TypeOK
  <2>3. inactivTables' \in [Tables -> Seq(FlowIds')]
    <3>1. inactivTables' = [t \in Tables |-> activTables[t]]
      BY <1>1, <1>2 DEF TypeOK
    <3>2. \A t \in Tables : activTables[t] \in Seq(FlowIds)
      BY <1>1 DEF TypeOK
    <3>3. \A t \in Tables : activTables[t] \in Seq(FlowIds')
      BY <1>3, <3>2, SeqWiden
    <3> QED BY <3>1, <3>3
  <2> QED BY <1>2, <2>1, <2>2, <2>3 DEF TypeOK
<1>6. TablesSorted'
  BY <1>2 DEF TablesSorted
<1>7. OneHome'
  <2>1. ASSUME NEW t \in Tables, NEW u \in Tables, t # u
        PROVE  Entries(activTables, t)' \cap Entries(activTables, u)' = {}
    <3>1. Entries(activTables, t) \cap Entries(activTables, u) = {}
      BY <1>1, <2>1 DEF OneHome
    <3>2. new \notin kept(t) /\ new \notin kept(u)
      BY <1>2, <1>3
    <3>3. kept(t) \cap kept(u) = {}
      BY <3>1
    <3> HIDE DEF kept
    <3> QED BY <1>4, <2>1, <3>2, <3>3
  <2> QED BY <1>2, <2>1 DEF OneHome
<1>8. ConsecutiveGenerations'
  <2> SUFFICES ASSUME NEW t \in Tables
               PROVE  /\ Entries(activTables, t)' \subseteq Entries(activTables, t) \cup {new}
                      /\ \A i \in Entries(activTables, t) \ Entries(activTables, t)' :
                           Expired(flows'[i], now')
    BY <1>2 DEF ConsecutiveGenerations, Entries
  <2>1. \A i \in Entries(activTables, t) \ kept(t) : Expired(flows[i], now)
    OBVIOUS
  <2>2. \A i \in Entries(activTables, t) : flows'[i] = flows[i]
    BY <1>2
  <2> QED BY <1>2, <1>4, <2>1, <2>2
<1> QED BY <1>5, <1>6, <1>7, <1>8 DEF IInv

(* A packet keeps the invariant: it changes only counters, and none of the *)
(* conjuncts is about them.                                                *)
LEMMA CheckPacketIInv ==
  ASSUME IInv, NEW p \in Packets, checkPacketInFlow(p)
  PROVE  IInv'
<1>1. TypeOK /\ TablesSorted /\ OneHome /\ ConsecutiveGenerations
  BY DEF IInv
<1>2. /\ flows' \in Seq(Flow) /\ Len(flows') = Len(flows) /\ FlowIds' = FlowIds
      /\ \A i \in FlowIds : /\ flows'[i].timeout = flows[i].timeout
                            /\ flows'[i].priority = flows[i].priority
  BY <1>1, CheckPacketEffect
<1>3. /\ now' = now /\ activTables' = activTables /\ inactivTables' = inactivTables
      /\ applied' = [t \in Tables |-> checkPacketInTable(activTables[t], flows, p, now)]
  BY DEF checkPacketInFlow
<1>4. /\ activTables \in [Tables -> Seq(FlowIds)]
      /\ inactivTables = NoTables \/ inactivTables \in [Tables -> Seq(FlowIds)]
  BY <1>1 DEF TypeOK
<1>5. TypeOK'
  <2>1. \A t \in Tables : checkPacketInTable(activTables[t], flows, p, now) \subseteq FlowIds
    BY <1>4, LookupFinds, SeqRange
  <2>2. applied' \in [Tables -> SUBSET FlowIds]
    BY <1>3, <2>1
  <2> QED BY <1>1, <1>2, <1>3, <1>4, <2>2 DEF TypeOK
<1>6. TablesSorted'
  <2> SUFFICES ASSUME NEW t \in Tables PROVE Sorted(activTables[t], flows')
    BY <1>3 DEF TablesSorted
  <2>1. \A i \in DOMAIN activTables[t] : activTables[t][i] \in FlowIds
    BY <1>4
  <2>2. Sorted(activTables[t], flows)
    BY <1>1 DEF TablesSorted
  <2> QED BY <1>2, <2>1, <2>2 DEF Sorted
<1>7. OneHome'
  BY <1>1, <1>3 DEF OneHome, Entries
<1>8. ConsecutiveGenerations'
  <2> SUFFICES ASSUME inactivTables # NoTables, NEW t \in Tables
               PROVE  /\ Entries(activTables, t) \subseteq
                           Entries(inactivTables, t) \cup {Len(flows)}
                      /\ \A i \in Entries(inactivTables, t) \ Entries(activTables, t) :
                           Expired(flows'[i], now)
    BY <1>2, <1>3 DEF ConsecutiveGenerations, Entries
  <2>1. Entries(inactivTables, t) \subseteq FlowIds
    BY <1>4, SeqRange DEF Entries
  <2> QED BY <1>1, <1>2, <2>1 DEF ConsecutiveGenerations, Expired
<1> QED BY <1>5, <1>6, <1>7, <1>8 DEF IInv

(* Time keeps the invariant: an entry that has expired stays expired.      *)
LEMMA TickIInv ==
  ASSUME IInv, Tick
  PROVE  IInv'
<1>1. TypeOK /\ TablesSorted /\ OneHome /\ ConsecutiveGenerations
  BY DEF IInv
<1>2. /\ now' = now + 1 /\ now \in Nat
      /\ flows' = flows /\ activTables' = activTables /\ inactivTables' = inactivTables
      /\ applied' = applied
  BY <1>1 DEF Tick, TypeOK
<1>3. TypeOK' /\ TablesSorted' /\ OneHome'
  BY <1>1, <1>2 DEF TypeOK, FlowIds, TablesSorted, OneHome, Entries
<1>4. ConsecutiveGenerations'
  <2> SUFFICES ASSUME inactivTables # NoTables, NEW t \in Tables,
                      NEW i \in Entries(inactivTables, t) \ Entries(activTables, t)
               PROVE  Expired(flows[i], now')
    BY <1>1, <1>2 DEF ConsecutiveGenerations, Entries
  <2>1. Expired(flows[i], now)
    BY <1>1 DEF ConsecutiveGenerations
  <2>2. flows[i].timeout \in Int
    <3>1. inactivTables[t] \in Seq(FlowIds)
      BY <1>1 DEF TypeOK
    <3>2. i \in FlowIds
      BY <3>1, SeqRange DEF Entries
    <3>3. flows[i] \in Flow
      BY <1>1, <3>2 DEF TypeOK, FlowIds
    <3> QED BY <3>3 DEF Flow, NoTimeout
  <2> QED BY <1>2, <2>1, <2>2 DEF Expired
<1> QED BY <1>3, <1>4 DEF IInv

(* Every step of the manager keeps the invariant.                          *)
LEMMA StepIInv == IInv /\ [Next]_vars => IInv'
<1> SUFFICES ASSUME IInv, [Next]_vars PROVE IInv'
  OBVIOUS
<1>1. ASSUME NEW m \in FlowMods, FlowModAdd(m) PROVE IInv'
  BY <1>1, FlowModAddIInv
<1>2. ASSUME NEW m \in FlowMods, FlowModOther(m) PROVE IInv'
  BY <1>2 DEF FlowModOther, vars, IInv, TypeOK, FlowIds, TablesSorted, OneHome,
              ConsecutiveGenerations, Entries
<1>3. ASSUME NEW p \in Packets, checkPacketInFlow(p) PROVE IInv'
  BY <1>3, CheckPacketIInv
<1>4. CASE Tick
  BY <1>4, TickIInv
<1>5. CASE UNCHANGED vars
  BY <1>5 DEF vars, IInv, TypeOK, FlowIds, TablesSorted, OneHome,
              ConsecutiveGenerations, Entries
<1> QED BY <1>1, <1>2, <1>3, <1>4, <1>5 DEF Next

(* The invariant holds in every state the manager can reach.               *)
THEOREM Invariance == Spec => []IInv
BY InitIInv, StepIInv, PTL DEF Spec

-----------------------------------------------------------------------------
(* The variables keep their types (TypeOK): no table generation points to  *)
(* an entry that was never created.                                        *)
THEOREM TypeCorrect == Spec => []TypeOK
BY Invariance, PTL DEF IInv

(* Copying and swapping the buffers never lets an entry appear twice.      *)
THEOREM EntriesHaveOneHome == Spec => []OneHome
BY Invariance, PTL DEF IInv

(* The inactive buffer is always the previous generation of the active.    *)
THEOREM GenerationsAreConsecutive == Spec => []ConsecutiveGenerations
BY Invariance, PTL DEF IInv

(* In a sorted table the scan from the back meets the highest priority     *)
(* first.                                                                  *)
LEMMA ScanFindsBest ==
  ASSUME NEW S, NEW s \in Seq(S), NEW heap, NEW p, NEW time,
         \A x \in S : heap[x].priority \in Nat,
         Sorted(s, heap),
         NEW hit \in checkPacketInTable(s, heap, p, time),
         NEW x \in Range(s), ~PassedOver(heap[x], time), checkPacketOnFlow(heap[x], p)
  PROVE  heap[x].priority <= heap[hit].priority
<1>1. PICK i \in StopsAt(s, heap, p, time) : hit = s[i]
  BY DEF checkPacketInTable
<1>2. PICK j \in DOMAIN s : x = s[j]
  BY DEF Range
<1>3. i \in DOMAIN s /\ j <= i
  BY <1>2 DEF StopsAt, Taking
<1>4. i \in Int /\ j \in Int /\ s[i] \in S /\ s[j] \in S
  BY <1>3
<1> QED BY <1>1, <1>2, <1>3, <1>4 DEF Sorted

(* Every packet goes, in every table, to an entry of the highest priority  *)
(* among those that would take it (HighestPriorityWins).                   *)
THEOREM PriorityIsRespected == Spec => []HighestPriorityWins
<1>1. IInv => HighestPriorityWins
  <2> SUFFICES ASSUME IInv, NEW t \in Tables, NEW p \in Packets,
                      NEW hit \in checkPacketInTable(activTables[t], flows, p, now),
                      NEW i \in Entries(activTables, t),
                      ~PassedOver(flows[i], now), checkPacketOnFlow(flows[i], p)
               PROVE  flows[i].priority <= flows[hit].priority
    BY DEF HighestPriorityWins
  <2>1. activTables[t] \in Seq(FlowIds) /\ Sorted(activTables[t], flows)
    BY DEF IInv, TypeOK, TablesSorted
  <2>2. \A x \in FlowIds : flows[x] \in Flow
    BY DEF IInv, TypeOK, FlowIds
  <2>3. \A x \in FlowIds : flows[x].priority \in Nat
    BY <2>2 DEF Flow
  <2> QED BY <2>1, <2>3, ScanFindsBest DEF Entries
<1> QED BY <1>1, Invariance, PTL

-----------------------------------------------------------------------------
(* The steps other than an ADD leave the tables alone.                     *)
LEMMA OtherSteps ==
  ASSUME [Next]_vars, \A m \in FlowMods : ~FlowModAdd(m)
  PROVE  activTables' = activTables /\ Active' = Active
<1>1. activTables' = activTables
  BY DEF Next, FlowModOther, checkPacketInFlow, Tick, vars
<1> QED BY <1>1 DEF Active, Entries

(* After an ADD the entries in the tables are the unexpired ones of before *)
(* and the new one, which is not expired.                                  *)
LEMMA AddStep ==
  ASSUME IInv, NEW m \in FlowMods, FlowModAdd(m)
  PROVE  /\ Active' = {i \in Active : ~Expired(flows[i], now)} \cup {Len(flows) + 1}
         /\ Active \subseteq FlowIds
         /\ \A i \in Active' : ~Expired(flows'[i], now)
<1> DEFINE new == Len(flows) + 1
           kept(t) == {i \in Entries(activTables, t) : ~Expired(flows[i], now)}
<1>1. TypeOK /\ TablesSorted /\ OneHome
  BY DEF IInv
<1>2. /\ m.table \in Tables /\ Len(flows) \in Nat
      /\ flows'[new] = NewFlow(m)
      /\ \A i \in FlowIds : flows'[i] = flows[i]
      /\ \A t \in Tables :
           /\ Entries(activTables, t) \subseteq FlowIds
           /\ Range(activTables'[t]) = kept(t) \cup (IF t = m.table THEN {new} ELSE {})
  BY <1>1, FlowModAddEffect
<1>3. ~Expired(NewFlow(m), now)
  BY <1>1, NewFlowType DEF TypeOK
<1> HIDE DEF new
<1>4. \A x : x \in Active' <=> \E t \in Tables : x \in kept(t) \/ (t = m.table /\ x = new)
  <2>1. \A x : x \in Active' <=> \E t \in Tables : x \in Range(activTables'[t])
    BY DEF Active, Entries
  <2> HIDE DEF kept
  <2>2. \A t \in Tables :
          Range(activTables'[t]) = kept(t) \cup (IF t = m.table THEN {new} ELSE {})
    BY <1>2
  <2>3. \A t \in Tables : \A x :
          x \in Range(activTables'[t]) <=> x \in kept(t) \/ (t = m.table /\ x = new)
    <3> SUFFICES ASSUME NEW t \in Tables, NEW x
                 PROVE  x \in Range(activTables'[t])
                          <=> x \in kept(t) \/ (t = m.table /\ x = new)
      OBVIOUS
    <3>1. CASE t = m.table
      BY <2>2, <3>1
    <3>2. CASE t # m.table
      BY <2>2, <3>2
    <3> QED BY <3>1, <3>2
  <2> QED BY <2>1, <2>3
<1>5. Active' = {i \in Active : ~Expired(flows[i], now)} \cup {new}
  BY <1>2, <1>4 DEF Active
<1>6. Active \subseteq FlowIds
  BY <1>2 DEF Active
<1> QED BY <1>2, <1>3, <1>5, <1>6 DEF new

(* Only entries whose timeout has passed are ever removed, and permanent   *)
(* entries never are.                                                      *)
THEOREM DeletionIsNotEarly == Spec => NoEarlyDeletion
<1>1. IInv /\ [Next]_vars
        => [\A i \in Active : i \notin Active' => Expired(flows[i], now)]_vars
  <2> SUFFICES ASSUME IInv, [Next]_vars
               PROVE  \A i \in Active : i \notin Active' => Expired(flows[i], now)
    OBVIOUS
  <2>1. CASE \E m \in FlowMods : FlowModAdd(m)
    BY <2>1, AddStep
  <2>2. CASE \A m \in FlowMods : ~FlowModAdd(m)
    BY <2>2, OtherSteps
  <2> QED BY <2>1, <2>2
<1> QED BY <1>1, Invariance, PTL DEF Spec, NoEarlyDeletion

(* An entry that was removed does not come back with the other buffer.     *)
THEOREM RemovalIsFinal == Spec => NoResurrection
<1>1. IInv /\ [Next]_vars
        => [\A i \in FlowIds : i \notin Active => i \notin Active']_vars
  <2> SUFFICES ASSUME IInv, [Next]_vars
               PROVE  \A i \in FlowIds : i \notin Active => i \notin Active'
    OBVIOUS
  <2>1. CASE \E m \in FlowMods : FlowModAdd(m)
    <3>1. Len(flows) + 1 \notin FlowIds
      BY DEF IInv, TypeOK, FlowIds
    <3> QED BY <2>1, <3>1, AddStep
  <2>2. CASE \A m \in FlowMods : ~FlowModAdd(m)
    BY <2>2, OtherSteps
  <2> QED BY <2>1, <2>2
<1> QED BY <1>1, Invariance, PTL DEF Spec, NoResurrection

(* An ADD for one table leaves no expired entry in any.                    *)
THEOREM PurgeReachesEveryTable == Spec => PurgeIsGlobal
<1>1. IInv /\ [Next]_vars
        => [activTables' # activTables => \A i \in Active' : ~Expired(flows'[i], now)]_vars
  <2> SUFFICES ASSUME IInv, [Next]_vars, activTables' # activTables
               PROVE  \A i \in Active' : ~Expired(flows'[i], now)
    OBVIOUS
  <2>1. CASE \E m \in FlowMods : FlowModAdd(m)
    BY <2>1, AddStep
  <2>2. CASE \A m \in FlowMods : ~FlowModAdd(m)
    BY <2>2, OtherSteps
  <2> QED BY <2>1, <2>2
<1> QED BY <1>1, Invariance, PTL DEF Spec, PurgeIsGlobal

-----------------------------------------------------------------------------
(* A set of positions that is not empty has a last one: it is the one      *)
(* whose rank is the number of positions.                                  *)
LEMMA LastPosition ==
  ASSUME NEW n \in Nat, NEW K \in SUBSET (1..n), K # {}
  PROVE  \E k \in K : \A j \in K : j <= k
<1> DEFINE c == Cardinality(K)
<1>1. /\ c \in Nat
      /\ \A k \in K : Rank(K, k) \in 1..c
      /\ \A j, k \in K : j < k => Rank(K, j) < Rank(K, k)
      /\ \A i \in 1..c : \E k \in K : Rank(K, k) = i
  BY RankBijection
<1> HIDE DEF c
<1>2. c \in 1..c
  <2>1. PICK k \in K : TRUE
    OBVIOUS
  <2>2. Rank(K, k) \in 1..c
    BY <1>1
  <2> QED BY <1>1, <2>2
<1>3. PICK k \in K : Rank(K, k) = c
  BY <1>1, <1>2
<1>4. ASSUME NEW j \in K PROVE ~(k < j)
  BY <1>1, <1>3
<1>5. \A j \in K : j \in Int
  OBVIOUS
<1> QED BY <1>4, <1>5

(* The lookup finds nothing only when no entry would take the packet, and  *)
(* else exactly one entry.                                                 *)
LEMMA LookupIsTotal ==
  ASSUME NEW S, NEW s \in Seq(S), NEW heap, NEW p, NEW time
  PROVE  \/ /\ checkPacketInTable(s, heap, p, time) = {}
            /\ \A x \in Range(s) :
                 PassedOver(heap[x], time) \/ ~checkPacketOnFlow(heap[x], p)
         \/ \E hit \in Range(s) :
              /\ checkPacketInTable(s, heap, p, time) = {hit}
              /\ ~PassedOver(heap[hit], time) /\ checkPacketOnFlow(heap[hit], p)
<1> DEFINE K == Taking(s, heap, p, time)
<1>1. K \in SUBSET (1..Len(s)) /\ Len(s) \in Nat /\ DOMAIN s = 1..Len(s)
  BY DEF Taking
<1>2. CASE K = {}
  <2>1. checkPacketInTable(s, heap, p, time) = {}
    BY <1>2 DEF checkPacketInTable, StopsAt
  <2>2. \A x \in Range(s) : PassedOver(heap[x], time) \/ ~checkPacketOnFlow(heap[x], p)
    BY <1>2 DEF Taking, Range
  <2> QED BY <2>1, <2>2
<1>3. CASE K # {}
  <2> HIDE DEF K
  <2>1. PICK k \in K : \A j \in K : j <= k
    BY <1>1, <1>3, LastPosition
  <2>2. \A j \in K : j \in Int
    BY <1>1
  <2>3. StopsAt(s, heap, p, time) = {k}
    <3>1. \A i : i \in StopsAt(s, heap, p, time) <=> i \in K /\ \A j \in K : j <= i
      BY DEF StopsAt, K
    <3>2. \A i \in K : (\A j \in K : j <= i) => i = k
      BY <2>1, <2>2
    <3> QED BY <2>1, <3>1, <3>2
  <2>4. checkPacketInTable(s, heap, p, time) = {s[k]}
    BY <2>3 DEF checkPacketInTable
  <2>5. /\ k \in DOMAIN s /\ ~PassedOver(heap[s[k]], time)
        /\ checkPacketOnFlow(heap[s[k]], p)
    BY <2>1 DEF K, Taking
  <2>6. s[k] \in Range(s)
    BY <2>5 DEF Range
  <2> QED BY <2>4, <2>5, <2>6
<1> QED BY <1>2, <1>3

(* The abstract entries have the type of the abstract table's.             *)
LEMMA AbstractEntryType ==
  ASSUME TypeOK, NEW i \in FlowIds
  PROVE  /\ AbstractEntry(i) \in Abstract!Entry
         /\ AbstractEntry(i).id = i
         /\ AbstractEntry(i).priority = flows[i].priority
         /\ AbstractEntry(i).timeout = flows[i].timeout
         /\ \A p \in Packets : p \in AbstractEntry(i).accepts <=> checkPacketOnFlow(flows[i], p)
         /\ Abstract!Stale(AbstractEntry(i)) <=> Expired(flows[i], now)
         /\ Abstract!InForce(AbstractEntry(i)) <=> ~PassedOver(flows[i], now)
<1>1. flows[i] \in Flow /\ i \in Nat /\ now \in Nat
  BY DEF TypeOK, FlowIds
<1>2. /\ flows[i].match \in SUBSET Packets /\ flows[i].priority \in Nat
      /\ flows[i].timeout \in Int
  BY <1>1 DEF Flow, NoTimeout
<1>3. AbstractEntry(i) \in Abstract!Entry
  BY <1>1, <1>2 DEF AbstractEntry, Abstract!Entry
<1>4. \A p \in Packets : p \in AbstractEntry(i).accepts <=> checkPacketOnFlow(flows[i], p)
  BY DEF AbstractEntry, checkPacketOnFlow, checkPacketInOXMFields
<1>5. /\ Abstract!Stale(AbstractEntry(i)) <=> Expired(flows[i], now)
      /\ Abstract!InForce(AbstractEntry(i)) <=> ~PassedOver(flows[i], now)
  BY <1>1, <1>2 DEF AbstractEntry, Abstract!Stale, Abstract!InForce, Abstract!Permanent,
     Expired, PassedOver, NoTimeout
<1> QED BY <1>3, <1>4, <1>5 DEF AbstractEntry

(* No table entries are no abstract entries.                               *)
LEMMA AbstractInit == Init => Abstract!Init
<1> SUFFICES ASSUME Init PROVE Abstract!Init
  OBVIOUS
<1>1. \A t \in Tables : Entries(activTables, t) = {}
  BY DEF Init, Entries, Range
<1>2. AbstractEntries = [t \in Tables |-> {}]
  BY <1>1 DEF AbstractEntries
<1> QED BY <1>2 DEF Init, Abstract!Init

(* The ADD of the manager is the Add of the abstract table.                *)
LEMMA FlowModAddImplements ==
  ASSUME IInv, NEW m \in FlowMods, FlowModAdd(m)
  PROVE  Abstract!Next
<1> DEFINE new == Len(flows) + 1
           kept(t) == {i \in Entries(activTables, t) : ~Expired(flows[i], now)}
           e == [id |-> new, priority |-> NewFlow(m).priority,
                 timeout |-> NewFlow(m).timeout,
                 accepts |-> {p \in NewFlow(m).match :
                                applyActionOnPacket(NewFlow(m).action)}]
           new_t(t) == IF t = m.table THEN {new} ELSE {}
<1>1. TypeOK /\ TablesSorted /\ OneHome
  BY DEF IInv
<1>2. /\ m.table \in Tables /\ Len(flows) \in Nat /\ Len(flows') = new
      /\ flows'[new] = NewFlow(m)
      /\ \A i \in FlowIds : flows'[i] = flows[i]
      /\ \A t \in Tables :
           /\ Entries(activTables, t) \subseteq FlowIds
           /\ Range(activTables'[t]) = kept(t) \cup new_t(t)
      /\ now' = now
  BY <1>1, FlowModAddEffect
<1>3. NewFlow(m) \in Flow /\ new \in Nat
  BY <1>1, <1>2, NewFlowType DEF TypeOK
<1> HIDE DEF new
<1>4. e \in Abstract!Entry /\ e.id = new
  <2>1. /\ NewFlow(m).priority \in Nat /\ NewFlow(m).timeout \in Int
        /\ NewFlow(m).match \in SUBSET Packets
    BY <1>3 DEF Flow, NoTimeout
  <2> QED BY <1>3, <2>1 DEF Abstract!Entry
<1>5. /\ \A i \in FlowIds : AbstractEntry(i)' = AbstractEntry(i)
      /\ \A i : i = new => AbstractEntry(i)' = e
  BY <1>2 DEF AbstractEntry
<1> HIDE DEF e
<1>6. ASSUME NEW t \in Tables
      PROVE  AbstractEntries'[t] = {old \in AbstractEntries[t] : ~Abstract!Stale(old)}
                                     \cup (IF t = m.table THEN {e} ELSE {})
  <2>1. AbstractEntries'[t] = {AbstractEntry(i)' : i \in kept(t) \cup new_t(t)}
    BY <1>2 DEF AbstractEntries, Entries
  <2>2. AbstractEntries[t] = {AbstractEntry(i) : i \in Entries(activTables, t)}
    BY DEF AbstractEntries
  <2>3. \A i \in Entries(activTables, t) :
          Abstract!Stale(AbstractEntry(i)) <=> Expired(flows[i], now)
    BY <1>1, <1>2, AbstractEntryType
  <2>4. {AbstractEntry(i)' : i \in kept(t)} = {AbstractEntry(i) : i \in kept(t)}
    BY <1>2, <1>5
  <2>5. {AbstractEntry(i) : i \in kept(t)} = {old \in AbstractEntries[t] : ~Abstract!Stale(old)}
    BY <2>2, <2>3
  <2>6. {AbstractEntry(i)' : i \in new_t(t)} = IF t = m.table THEN {e} ELSE {}
    BY <1>5
  <2>7. {AbstractEntry(i)' : i \in kept(t) \cup new_t(t)}
          = {AbstractEntry(i)' : i \in kept(t)} \cup {AbstractEntry(i)' : i \in new_t(t)}
    OBVIOUS
  <2> QED BY <2>1, <2>4, <2>5, <2>6, <2>7
<1>7. AbstractEntries' = [t \in Tables |->
        {old \in AbstractEntries[t] : ~Abstract!Stale(old)}
          \cup (IF t = m.table THEN {e} ELSE {})]
  BY <1>6 DEF AbstractEntries
<1>8. Abstract!Add(m.table, e)
  BY <1>2, <1>4, <1>7 DEF Abstract!Add, FlowModAdd, new
<1>9. e \in AbstractEntries'[m.table]
  BY <1>2, <1>6
<1> QED BY <1>2, <1>4, <1>8, <1>9 DEF Abstract!Next

(* The lookup in every table is the Apply of the abstract table.           *)
LEMMA CheckPacketImplements ==
  ASSUME IInv, NEW p \in Packets, checkPacketInFlow(p)
  PROVE  Abstract!Next
<1> DEFINE hit(t) == checkPacketInTable(activTables[t], flows, p, now)
<1>1. TypeOK /\ TablesSorted
  BY DEF IInv
<1>2. /\ Len(flows') = Len(flows) /\ FlowIds' = FlowIds
      /\ \A i \in FlowIds : /\ flows'[i].timeout = flows[i].timeout
                            /\ flows'[i].priority = flows[i].priority
                            /\ flows'[i].match = flows[i].match
                            /\ flows'[i].action = flows[i].action
  BY <1>1, CheckPacketEffect
<1>3. /\ now' = now /\ activTables' = activTables
      /\ applied' = [t \in Tables |-> hit(t)]
  BY DEF checkPacketInFlow
<1>4. \A t \in Tables : /\ activTables[t] \in Seq(FlowIds)
                        /\ Entries(activTables, t) \subseteq FlowIds
  BY <1>1, SeqRange DEF TypeOK, Entries
<1>5. AbstractEntries' = AbstractEntries
  <2>1. \A i \in FlowIds : AbstractEntry(i)' = AbstractEntry(i)
    BY <1>2 DEF AbstractEntry
  <2>2. \A t \in Tables : AbstractEntries'[t] = AbstractEntries[t]
    BY <1>3, <1>4, <2>1 DEF AbstractEntries, Entries
  <2> QED BY <2>2 DEF AbstractEntries
<1>6. ASSUME NEW t \in Tables
      PROVE  \/ Abstract!Candidates(t, p) = {} /\ hit(t) = {}
             \/ \E e \in Abstract!Best(Abstract!Candidates(t, p)) : hit(t) = {e.id}
  <2>1. \A i \in FlowIds :
          /\ AbstractEntry(i).id = i
          /\ AbstractEntry(i).priority = flows[i].priority
          /\ p \in AbstractEntry(i).accepts <=> checkPacketOnFlow(flows[i], p)
          /\ Abstract!InForce(AbstractEntry(i)) <=> ~PassedOver(flows[i], now)
    BY <1>1, AbstractEntryType
  <2>2. \A e : e \in Abstract!Candidates(t, p) <=>
          \E i \in Entries(activTables, t) :
             /\ e = AbstractEntry(i)
             /\ ~PassedOver(flows[i], now) /\ checkPacketOnFlow(flows[i], p)
    BY <1>4, <2>1 DEF Abstract!Candidates, AbstractEntries
  <2>3. CASE /\ hit(t) = {}
             /\ \A x \in Entries(activTables, t) :
                  PassedOver(flows[x], now) \/ ~checkPacketOnFlow(flows[x], p)
    BY <2>2, <2>3
  <2>4. CASE \E x \in Entries(activTables, t) :
               /\ hit(t) = {x}
               /\ ~PassedOver(flows[x], now) /\ checkPacketOnFlow(flows[x], p)
    <3>1. PICK x \in Entries(activTables, t) :
               /\ hit(t) = {x}
               /\ ~PassedOver(flows[x], now) /\ checkPacketOnFlow(flows[x], p)
      BY <2>4
    <3>2. AbstractEntry(x) \in Abstract!Candidates(t, p) /\ AbstractEntry(x).id = x
      BY <1>4, <2>1, <2>2, <3>1
    <3>3. \A y \in FlowIds : flows[y].priority \in Nat
      <4>1. \A y \in FlowIds : flows[y] \in Flow
        BY <1>1 DEF TypeOK, FlowIds
      <4> QED BY <4>1 DEF Flow
    <3>4. \A y \in Entries(activTables, t) :
            ~PassedOver(flows[y], now) /\ checkPacketOnFlow(flows[y], p)
              => flows[y].priority <= flows[x].priority
      BY <1>1, <1>4, <3>1, <3>3, ScanFindsBest DEF Entries, TablesSorted
    <3>5. \A other \in Abstract!Candidates(t, p) : other.priority <= AbstractEntry(x).priority
      BY <1>4, <2>1, <2>2, <3>1, <3>4
    <3> QED BY <3>1, <3>2, <3>5 DEF Abstract!Best
  <2> QED BY <1>4, <2>3, <2>4, LookupIsTotal DEF Entries
<1>7. Abstract!Apply(p)
  BY <1>2, <1>3, <1>5, <1>6 DEF Abstract!Apply
<1> QED BY <1>7 DEF Abstract!Next

(* Every step of the manager is a step of the abstract table or changes    *)
(* nothing that the abstract table has.                                    *)
LEMMA StepImplements == IInv /\ [Next]_vars => [Abstract!Next]_Abstract!vars
<1> SUFFICES ASSUME IInv, [Next]_vars PROVE [Abstract!Next]_Abstract!vars
  OBVIOUS
<1>1. ASSUME NEW m \in FlowMods, FlowModAdd(m) PROVE Abstract!Next
  BY <1>1, FlowModAddImplements
<1>2. ASSUME NEW m \in FlowMods, FlowModOther(m) PROVE UNCHANGED Abstract!vars
  BY <1>2 DEF FlowModOther, vars, Abstract!vars, AbstractEntries, AbstractEntry, Entries
<1>3. ASSUME NEW p \in Packets, checkPacketInFlow(p) PROVE Abstract!Next
  BY <1>3, CheckPacketImplements
<1>4. CASE Tick
  BY <1>4 DEF Tick, Abstract!Next, Abstract!Tick, AbstractEntries, AbstractEntry, Entries
<1>5. CASE UNCHANGED vars
  BY <1>5 DEF vars, Abstract!vars, AbstractEntries, AbstractEntry, Entries
<1> QED BY <1>1, <1>2, <1>3, <1>4, <1>5 DEF Next

(* Vectors, sorting, purging and double buffering implement the abstract   *)
(* priority table (ImplementsPriorityTable), for any number of entries.    *)
THEOREM Refinement == Spec => ImplementsPriorityTable
BY AbstractInit, StepImplements, Invariance, PTL
   DEF Spec, ImplementsPriorityTable, Abstract!Spec
=============================================================================
