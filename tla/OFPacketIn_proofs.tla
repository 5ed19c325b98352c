--------------------------- MODULE OFPacketIn_proofs ---------------------------
(***************************************************************************)
(* Proofs about the managers behind the PACKET_INs, for any number of      *)
(* tables, packets and FLOW_MODs.  Whatever the table manager does here is *)
(* a step of module OFTableMng, so that what is proved of that holds too.  *)
(* The buffers stay apart because no two entries have the same copy of the *)
(* manager and none has the pipeline's own.                                *)
(***************************************************************************)
EXTENDS OFPacketIn, OFTableMng_proofs

ManagersTyped ==
  /\ buffers \in Seq(Nat)
  /\ Own \in DOMAIN buffers
  /\ tableMng \in [Tables -> DOMAIN buffers]
  /\ flowMng \in Seq(DOMAIN buffers) /\ Len(flowMng) = Len(flows)
  /\ lastId \in Seq(Nat \cup {NoId}) /\ Len(lastId) = Len(flows)

(* An entry has a copy of its own, which is not the pipeline's manager.    *)
CopiesAreOwn ==
  \A i \in FlowIds : /\ flowMng[i] # Own
                     /\ \A j \in FlowIds : flowMng[i] = flowMng[j] => i = j

ManagerInv == ManagersTyped /\ CopiesAreOwn /\ BuffersAreApart

-----------------------------------------------------------------------------
(* What OFTableMng::push and checkPacketInFlow do to the managers and the  *)
(* buffers leaves every theorem about the tables true.                     *)
THEOREM ManagersKeepTables == PacketInSpec => Spec
<1>1. InitManagers => Init
  BY DEF InitManagers
<1>2. [NextManagers]_packetInVars => [Next]_vars
  BY DEF NextManagers, AddFlowMng, OtherMod, HandlePacket, Second, Next, packetInVars
<1> QED BY <1>1, <1>2, PTL DEF PacketInSpec, Spec

(* The properties of the tables, of the manager with its copies, buffers   *)
(* and PACKET_INs (TypeOK, OneHome, ConsecutiveGenerations,                *)
(* HighestPriorityWins, NoEarlyDeletion, NoResurrection, PurgeIsGlobal,    *)
(* ImplementsPriorityTable).                                               *)
THEOREM ManagerKeepsPromises ==
  PacketInSpec => /\ []TypeOK /\ []OneHome /\ []ConsecutiveGenerations
                  /\ []HighestPriorityWins
                  /\ NoEarlyDeletion /\ NoResurrection /\ PurgeIsGlobal
                  /\ ImplementsPriorityTable
BY ManagersKeepTables, TypeCorrect, EntriesHaveOneHome, GenerationsAreConsecutive,
   PriorityIsRespected, DeletionIsNotEarly, RemovalIsFinal, PurgeReachesEveryTable,
   Refinement, PTL

(* What concatenation and Append return.                                   *)
LEMMA Concatenated ==
  ASSUME NEW S, NEW s \in Seq(S), NEW t \in Seq(S)
  PROVE  /\ s \o t \in Seq(S) /\ Len(s \o t) = Len(s) + Len(t)
         /\ \A k \in DOMAIN s : k \in DOMAIN (s \o t) /\ (s \o t)[k] = s[k]
<1>1. s \o t \in Seq(S) /\ Len(s \o t) = Len(s) + Len(t)
  OBVIOUS
<1>2. Len(s) \in Nat /\ Len(t) \in Nat /\ DOMAIN s = 1..Len(s)
  OBVIOUS
<1>3. \A k \in 1..Len(s) : (s \o t)[k] = s[k]
  BY <1>2
<1> QED BY <1>1, <1>2, <1>3

LEMMA Appended ==
  ASSUME NEW S, NEW s \in Seq(S), NEW T, S \subseteq T, NEW e \in T
  PROVE  /\ Append(s, e) \in Seq(T) /\ Len(Append(s, e)) = Len(s) + 1
         /\ Len(s) \in Nat
         /\ \A k \in 1..Len(s) : Append(s, e)[k] = s[k]
         /\ Append(s, e)[Len(s) + 1] = e
<1>1. s \in Seq(T)
  BY SeqWiden
<1> QED BY <1>1

(* Copying the managers of the tables adds one buffer for each table, as   *)
(* long as the one it copies, and changes no buffer that was there.        *)
LEMMA CopyManagersAdds ==
  ASSUME ManagersTyped
  PROVE  LET c == CopyManagers(tableMng, buffers)
         IN /\ c.heap \in Seq(Nat)
            /\ Len(c.heap) = Len(buffers) + Cardinality(Tables)
            /\ \A k \in DOMAIN buffers : k \in DOMAIN c.heap /\ c.heap[k] = buffers[k]
            /\ c.copies \in [Tables -> (Len(buffers) + 1)..Len(c.heap)]
<1> DEFINE n == Cardinality(Tables)
           more == [k \in 1..n |-> buffers[tableMng[k - 1]]]
           c == CopyManagers(tableMng, buffers)
<1>1. n \in Nat
  BY ManagerAssumption, FS_CardinalityType
<1>2. Tables = 0..(n - 1)
  BY ManagerAssumption
<1>3. more \in Seq(Nat) /\ Len(more) = n
  <2>1. \A k \in 1..n : k - 1 \in Tables
    BY <1>1, <1>2
  <2>2. \A k \in 1..n : buffers[tableMng[k - 1]] \in Nat
    BY <2>1 DEF ManagersTyped
  <2> QED BY <1>1, <2>2
<1>4. c.heap = buffers \o more /\ c.copies = [t \in Tables |-> Len(buffers) + 1 + t]
  BY DEF CopyManagers
<1> HIDE DEF c, more, n
<1>5. /\ buffers \in Seq(Nat) /\ Len(buffers) \in Nat /\ DOMAIN buffers = 1..Len(buffers)
  BY DEF ManagersTyped
<1>6. /\ c.heap \in Seq(Nat) /\ Len(c.heap) = Len(buffers) + n
      /\ \A k \in DOMAIN buffers : k \in DOMAIN c.heap /\ c.heap[k] = buffers[k]
  <2>1. /\ buffers \o more \in Seq(Nat)
        /\ Len(buffers \o more) = Len(buffers) + Len(more)
        /\ \A k \in DOMAIN buffers : /\ k \in DOMAIN (buffers \o more)
                                     /\ (buffers \o more)[k] = buffers[k]
    <3> SUFFICES ASSUME NEW s \in Seq(Nat), NEW t \in Seq(Nat), s = buffers, t = more
                 PROVE  /\ s \o t \in Seq(Nat) /\ Len(s \o t) = Len(s) + Len(t)
                        /\ \A k \in DOMAIN s : k \in DOMAIN (s \o t) /\ (s \o t)[k] = s[k]
      BY <1>3, <1>5, Zenon
    <3> QED BY Concatenated
  <2> QED BY <1>3, <1>4, <2>1
<1>7. c.copies \in [Tables -> (Len(buffers) + 1)..Len(c.heap)]
  BY <1>1, <1>2, <1>4, <1>5, <1>6
<1> QED BY <1>6, <1>7 DEF n, c

(* A new entry gets a copy that nobody had before.                         *)
LEMMA AddKeepsManagers ==
  ASSUME IInv, ManagerInv, NEW m \in FlowMods, AddFlowMng(m)
  PROVE  ManagerInv'
<1> DEFINE c == CopyManagers(tableMng, buffers)
           new == Len(flows) + 1
<1>1. /\ m.table \in Tables /\ flows \in Seq(Flow) /\ NewFlow(m) \in Flow
  BY NewFlowType DEF IInv, TypeOK
<1>2. /\ Len(flows) \in Nat /\ Len(flows') = new
  BY <1>1 DEF AddFlowMng, FlowModAdd
<1>3. FlowIds' = 1..new /\ FlowIds = 1..(new - 1)
  BY <1>2 DEF FlowIds
<1>4. /\ c.heap \in Seq(Nat)
      /\ Len(c.heap) \in Nat /\ Len(buffers) \in Nat
      /\ DOMAIN c.heap = 1..Len(c.heap) /\ DOMAIN buffers = 1..Len(buffers)
      /\ \A k \in DOMAIN buffers : k \in DOMAIN c.heap /\ c.heap[k] = buffers[k]
      /\ c.copies \in [Tables -> (Len(buffers) + 1)..Len(c.heap)]
  BY CopyManagersAdds DEF ManagerInv, ManagersTyped
<1>5. /\ buffers' = c.heap /\ tableMng' = c.copies
      /\ flowMng' = Append(flowMng, c.copies[m.table])
      /\ lastId' = Append(lastId, NoId)
  BY DEF AddFlowMng
<1> HIDE DEF c
<1>6. c.copies[m.table] \in DOMAIN c.heap
  BY <1>1, <1>4
<1>7. /\ flowMng' \in Seq(DOMAIN buffers') /\ Len(flowMng') = new
      /\ lastId' \in Seq(Nat \cup {NoId}) /\ Len(lastId') = new
      /\ \A i \in FlowIds : flowMng'[i] = flowMng[i] /\ lastId'[i] = lastId[i]
      /\ flowMng'[new] = c.copies[m.table] /\ lastId'[new] = NoId
  <2>1. /\ flowMng \in Seq(DOMAIN buffers) /\ Len(flowMng) = Len(flows)
        /\ lastId \in Seq(Nat \cup {NoId}) /\ Len(lastId) = Len(flows)
    BY DEF ManagerInv, ManagersTyped
  <2>2. DOMAIN buffers \subseteq DOMAIN c.heap
    BY <1>4
  <2>3. /\ flowMng' \in Seq(DOMAIN c.heap) /\ Len(flowMng') = Len(flowMng) + 1
        /\ \A k \in 1..Len(flowMng) : flowMng'[k] = flowMng[k]
        /\ flowMng'[Len(flowMng) + 1] = c.copies[m.table]
    <3> DEFINE S == DOMAIN buffers
               T == DOMAIN c.heap
               e == c.copies[m.table]
    <3>1. S \subseteq T /\ e \in T /\ flowMng \in Seq(S)
      BY <1>6, <2>1, <2>2
    <3>2. flowMng' = Append(flowMng, e)
      BY <1>5
    <3> HIDE DEF S, T, e
    <3>3. flowMng \in Seq(T)
      BY <3>1, SeqWiden
    <3>4. /\ flowMng' \in Seq(T) /\ Len(flowMng') = Len(flowMng) + 1
          /\ \A k \in 1..Len(flowMng) : flowMng'[k] = flowMng[k]
          /\ flowMng'[Len(flowMng) + 1] = e
      BY <3>1, <3>2, <3>3
    <3> QED BY <3>4 DEF T, e
  <2>4. /\ lastId' \in Seq(Nat \cup {NoId}) /\ Len(lastId') = Len(lastId) + 1
        /\ \A k \in 1..Len(lastId) : lastId'[k] = lastId[k]
        /\ lastId'[Len(lastId) + 1] = NoId
    BY <1>5, <2>1, Appended
  <2> QED BY <1>5, <2>1, <2>3, <2>4 DEF FlowIds
<1>8. c.copies[m.table] \in DOMAIN c.heap \ DOMAIN buffers
  BY <1>1, <1>4
<1>9. \A i \in FlowIds : flowMng[i] \in DOMAIN buffers
  BY DEF ManagerInv, ManagersTyped, FlowIds
<1>10. ManagersTyped'
  <2>1. Own \in DOMAIN buffers'
    BY <1>4, <1>5 DEF ManagerInv, ManagersTyped
  <2>2. tableMng' \in [Tables -> DOMAIN buffers']
    BY <1>4, <1>5
  <2> QED BY <1>2, <1>4, <1>5, <1>7, <2>1, <2>2 DEF ManagersTyped
<1>11. CopiesAreOwn'
  <2>1. \A i \in FlowIds : /\ flowMng[i] # Own
                           /\ \A j \in FlowIds : flowMng[i] = flowMng[j] => i = j
    BY DEF ManagerInv, CopiesAreOwn
  <2>2. Own \in DOMAIN buffers
    BY DEF ManagerInv, ManagersTyped
  <2>3. \A i \in FlowIds' : i \in FlowIds \/ i = new
    BY <1>2, <1>3
  <2> QED BY <1>7, <1>8, <1>9, <2>1, <2>2, <2>3 DEF CopiesAreOwn
<1>12. BuffersAreApart'
  <2>1. \A i \in FlowIds : lastId[i] # NoId => buffers[flowMng[i]] = lastId[i] + 1
    BY DEF ManagerInv, BuffersAreApart
  <2>2. Own \in DOMAIN buffers /\ buffers[Own] = 0
    BY DEF ManagerInv, ManagersTyped, BuffersAreApart
  <2>3. \A i \in FlowIds' : i \in FlowIds \/ i = new
    BY <1>2, <1>3
  <2>4. buffers'[Own] = 0
    BY <1>4, <1>5, <2>2
  <2>5. ASSUME NEW i \in FlowIds', lastId'[i] # NoId
        PROVE  buffers'[flowMng'[i]] = lastId'[i] + 1
    <3>1. i \in FlowIds /\ lastId[i] # NoId
      BY <1>7, <2>3, <2>5
    <3>2. flowMng'[i] = flowMng[i] /\ lastId'[i] = lastId[i]
      BY <1>7, <3>1
    <3>3. flowMng[i] \in DOMAIN buffers
      BY <1>9, <3>1
    <3>4. buffers'[flowMng[i]] = buffers[flowMng[i]]
      BY <1>4, <1>5, <3>3
    <3>5. buffers[flowMng[i]] = lastId[i] + 1
      BY <2>1, <3>1
    <3> QED BY <3>2, <3>4, <3>5
  <2> QED BY <2>4, <2>5 DEF BuffersAreApart
<1> QED BY <1>10, <1>11, <1>12 DEF ManagerInv

(* Each sender's buffer grows by one packet, all others stay.              *)
LEMMA SendKeepsManagers ==
  ASSUME IInv, ManagerInv, NEW p \in Packets, HandlePacket(p)
  PROVE  ManagerInv'
<1> DEFINE senders == Senders(applied')
           at(k) == {i \in senders : flowMng[i] = k}
<1>1. FlowIds' = FlowIds
  BY DEF HandlePacket, checkPacketInFlow, FlowIds, IInv, TypeOK
<1>2. senders \subseteq FlowIds
  BY DEF Senders
<1>3. /\ lastId' = [i \in FlowIds |-> IF i \in senders THEN buffers[flowMng[i]] ELSE lastId[i]]
      /\ buffers' = [k \in DOMAIN buffers |-> buffers[k] + Cardinality(at(k))]
      /\ flowMng' = flowMng /\ tableMng' = tableMng
  BY DEF HandlePacket, sendPacketToSocket
<1> HIDE DEF senders
<1>4. \A i \in FlowIds : /\ i \in senders => at(flowMng[i]) = {i}
                         /\ i \notin senders => at(flowMng[i]) = {}
  BY <1>2 DEF ManagerInv, CopiesAreOwn
<1>5. at(Own) = {}
  BY <1>2 DEF ManagerInv, CopiesAreOwn
<1>6. Cardinality({}) = 0 /\ \A i : Cardinality({i}) = 1
  BY FS_EmptySet, FS_Singleton
<1>7. \A k \in DOMAIN buffers : buffers'[k] = buffers[k] + Cardinality(at(k))
  BY <1>3
<1>8. \A k \in DOMAIN buffers : Cardinality(at(k)) \in Nat
  <2> TAKE k \in DOMAIN buffers
  <2>1. ASSUME NEW i \in senders, flowMng[i] = k PROVE Cardinality(at(k)) \in Nat
    <3>1. at(k) = {i}
      BY <1>2, <1>4, <2>1
    <3>2. Cardinality({i}) = 1
      BY <1>6
    <3>3. Cardinality(at(k)) = 1
      BY <3>1, <3>2, Zenon
    <3> QED BY <3>3
  <2>2. CASE ~ \E i \in senders : flowMng[i] = k
    <3>1. at(k) = {}
      BY <2>2
    <3> QED BY <1>6, <3>1
  <2> QED BY <2>1, <2>2
<1> HIDE DEF at
<1>9. /\ buffers \in Seq(Nat) /\ Own \in DOMAIN buffers
      /\ \A i \in FlowIds : /\ flowMng[i] \in DOMAIN buffers
                            /\ buffers[flowMng[i]] \in Nat
                            /\ lastId[i] \in Nat \cup {NoId}
  BY DEF ManagerInv, ManagersTyped, FlowIds
<1>10. buffers' \in Seq(Nat) /\ DOMAIN buffers' = DOMAIN buffers
  <2>1. \A k \in 1..Len(buffers) : buffers[k] + Cardinality(at(k)) \in Nat
    BY <1>8, <1>9
  <2> QED BY <1>3, <1>9, <2>1
<1>11. ManagersTyped'
  <2>1. lastId' \in Seq(Nat \cup {NoId}) /\ Len(lastId') = Len(flows)
    BY <1>3, <1>9 DEF FlowIds, IInv, TypeOK
  <2>2. Len(flows') = Len(flows)
    BY DEF HandlePacket, checkPacketInFlow, FlowIds, IInv, TypeOK
  <2>3. /\ flowMng' \in Seq(DOMAIN buffers') /\ Len(flowMng') = Len(flows)
        /\ Own \in DOMAIN buffers' /\ tableMng' \in [Tables -> DOMAIN buffers']
    BY <1>3, <1>10 DEF ManagerInv, ManagersTyped
  <2> QED BY <1>10, <2>1, <2>2, <2>3 DEF ManagersTyped
<1>12. CopiesAreOwn'
  BY <1>1, <1>3 DEF ManagerInv, CopiesAreOwn
<1>13. BuffersAreApart'
  <2>1. \A i \in FlowIds : lastId[i] # NoId => buffers[flowMng[i]] = lastId[i] + 1
    BY DEF ManagerInv, BuffersAreApart
  <2>2. buffers'[Own] = 0
    <3>1. buffers[Own] = 0 /\ Cardinality(at(Own)) = 0
      BY <1>5, <1>6 DEF ManagerInv, BuffersAreApart
    <3> QED BY <1>9, <1>7, <3>1
  <2>3. ASSUME NEW i \in FlowIds, lastId'[i] # NoId
        PROVE  buffers'[flowMng[i]] = lastId'[i] + 1
    <3> DEFINE k == flowMng[i]
    <3>0. buffers'[k] = buffers[k] + Cardinality(at(k)) /\ buffers[k] \in Nat
      BY <1>9, <1>7
    <3>1. CASE i \in senders
      <4>1. lastId'[i] = buffers[k] /\ Cardinality(at(k)) = 1
        BY <1>3, <1>4, <1>6, <3>1
      <4> QED BY <3>0, <4>1
    <3>2. CASE i \notin senders
      <4>1. lastId'[i] = lastId[i] /\ Cardinality(at(k)) = 0
        BY <1>3, <1>4, <1>6, <3>2
      <4>2. buffers[k] = lastId[i] + 1
        BY <2>1, <2>3, <4>1
      <4> QED BY <3>0, <4>1, <4>2
    <3> QED BY <3>1, <3>2
  <2> QED BY <1>1, <1>3, <2>2, <2>3 DEF BuffersAreApart
<1> QED BY <1>11, <1>12, <1>13 DEF ManagerInv

LEMMA ManagerInit == InitManagers => ManagerInv
<1> SUFFICES ASSUME InitManagers PROVE ManagerInv
  OBVIOUS
<1> DEFINE from == [t \in Tables |-> Own]
           more == [k \in 1..Cardinality(Tables) |-> <<0>>[from[k - 1]]]
<1>1. Cardinality(Tables) \in Nat /\ Tables = 0..(Cardinality(Tables) - 1)
  BY ManagerAssumption, FS_CardinalityType
<1>2. more \in Seq(Nat) /\ Len(more) = Cardinality(Tables)
  <2>1. \A k \in 1..Cardinality(Tables) : k - 1 \in Tables
    BY <1>1
  <2>2. \A k \in 1..Cardinality(Tables) : <<0>>[from[k - 1]] \in Nat
    BY <2>1 DEF Own
  <2> QED BY <1>1, <2>2
<1>3. buffers = <<0>> \o more /\ tableMng = [t \in Tables |-> Len(<<0>>) + 1 + t]
  BY DEF InitManagers, CopyManagers
<1> HIDE DEF more
<1>4. /\ buffers \in Seq(Nat) /\ DOMAIN buffers = 1..(1 + Cardinality(Tables))
      /\ Own \in DOMAIN buffers /\ buffers[Own] = 0
  BY <1>1, <1>2, <1>3 DEF Own
<1>5. tableMng \in [Tables -> DOMAIN buffers]
  BY <1>1, <1>3, <1>4
<1>6. FlowIds = {} /\ flowMng = <<>> /\ lastId = <<>>
  BY DEF InitManagers, Init, FlowIds
<1>7. ManagersTyped
  <2>1. flows = <<>>
    BY DEF InitManagers, Init
  <2> QED BY <1>4, <1>5, <1>6, <2>1 DEF ManagersTyped
<1> QED BY <1>4, <1>6, <1>7 DEF ManagerInv, CopiesAreOwn, BuffersAreApart

LEMMA ManagerNext == IInv /\ ManagerInv /\ [NextManagers]_packetInVars => ManagerInv'
<1> SUFFICES ASSUME IInv, ManagerInv, [NextManagers]_packetInVars PROVE ManagerInv'
  OBVIOUS
<1>1. ASSUME UNCHANGED packetInVars PROVE ManagerInv'
  BY <1>1 DEF packetInVars, vars, ManagerInv, ManagersTyped, CopiesAreOwn, BuffersAreApart, FlowIds
<1>2. ASSUME NEW m \in FlowMods, AddFlowMng(m) PROVE ManagerInv'
  BY <1>2, AddKeepsManagers
<1>3. ASSUME NEW m \in FlowMods, OtherMod(m) PROVE ManagerInv'
  BY <1>1, <1>3 DEF OtherMod, FlowModOther, packetInVars
<1>4. ASSUME NEW p \in Packets, HandlePacket(p) PROVE ManagerInv'
  BY <1>4, SendKeepsManagers
<1>5. CASE Second
  BY <1>5 DEF Second, Tick, ManagerInv, ManagersTyped, CopiesAreOwn, BuffersAreApart, FlowIds
<1> QED BY <1>1, <1>2, <1>3, <1>4, <1>5 DEF NextManagers

(* No PACKET_IN of an entry has the id of an earlier one or leaves one     *)
(* out, and no packet is ever added to the buffer that cleanup kills       *)
(* twice, for any number of tables and entries (BuffersAreApart).          *)
THEOREM BuffersStayApart == PacketInSpec => []BuffersAreApart
<1>1. PacketInSpec => []IInv
  BY ManagersKeepTables, Invariance, PTL
<1>2. PacketInSpec /\ []IInv => []ManagerInv
  BY ManagerInit, ManagerNext, PTL DEF PacketInSpec
<1>3. ManagerInv => BuffersAreApart
  BY DEF ManagerInv
<1> QED BY <1>1, <1>2, <1>3, PTL
=============================================================================
