------------------------------ MODULE OFTableMng ------------------------------
(***************************************************************************)
(* The table manager, Elements/OFPipeline/OFTableMng.cc, on top of the     *)
(* tables of module OFTable: FLOW_MOD with its double-buffered tables, and *)
(* the lookup of a packet in every table.                                  *)
(***************************************************************************)
EXTENDS OFTable

CONSTANTS
  Tables,      (* the indices of activTables: 0 .. NUMBEROFTABLES - 1        *)
  Packets,     (* the packets, as far as OXM matches tell them apart         *)
  FlowMods,    (* the FLOW_MOD messages a controller (or the timer) sends    *)
  MaxTime,     (* bound on the clock                                         *)
  MaxFlows,    (* bound on the number of entries ever created                *)
  MaxPackets   (* bound on the entry counters                                *)

Commands == {"ADD", "MODIFY", "DELETE"}

FlowMod == [command : Commands, table : Tables, hard : Nat, idle : Nat,
            priority : Nat, match : SUBSET Packets, action : Actions]

ASSUME TableAssumption ==
  /\ FlowMods \subseteq FlowMod
  /\ MaxTime \in Nat /\ MaxFlows \in Nat /\ MaxPackets \in Nat

VARIABLES
  now,            (* system_clock::now(), in whole seconds                   *)
  flows,          (* the heap of flow entries, in the order of creation      *)
  activTables,    (* table -> sequence of entries: what packets are run by   *)
  inactivTables,  (* the other buffer; NoTables is the initial nullptr       *)
  applied         (* history: the entries the last packet was handed to      *)

vars == <<now, flows, activTables, inactivTables, applied>>

NoTables == <<>>

Flow == [match : SUBSET Packets, priority : Nat, timeout : Nat \cup {NoTimeout},
         action : Actions, packets : Nat]

FlowIds == 1..Len(flows)

Entries(tables, t) == Range(tables[t])

Active == UNION {Entries(activTables, t) : t \in Tables}

-----------------------------------------------------------------------------
Init ==
  /\ now = 0
  /\ flows = <<>>
  /\ activTables = [t \in Tables |-> <<>>]
  /\ inactivTables = NoTables
  /\ applied = [t \in Tables |-> {}]

(* The smaller of the two timeouts that are not zero; zero when both are.  *)
Timeout(m) ==
  IF m.hard # 0 /\ (m.idle = 0 \/ m.hard < m.idle) THEN m.hard ELSE m.idle

NewFlow(m) ==
  [match |-> m.match, priority |-> m.priority, action |-> m.action,
   timeout |-> IF Timeout(m) # 0 THEN now + Timeout(m) ELSE NoTimeout,
   packets |-> 0]

(* Mutant: the buffer that is to be overwritten is copied.                 *)
CopyTables_Stale ==
  LET from == IF inactivTables = NoTables THEN activTables ELSE inactivTables
  IN [t \in Tables |-> deleteOldFlows(from[t], flows, now)]

(* Mutant: the copies are not purged.                                      *)
CopyTables_NoPurge == activTables

(* The copies of all active tables, each without its expired entries.      *)
CopyTables ==
  [t \in Tables |-> deleteOldFlows(activTables[t], flows, now)]

(* Mutant: the shared entry is put into every table.                       *)
FlowModAdd_AllTables(m) ==
  /\ m.command = "ADD"
  /\ Len(flows) < MaxFlows
  /\ flows' = Append(flows, NewFlow(m))
  /\ activTables' \in [Tables -> UNION {addFlow(CopyTables[t], Len(flows'), flows') : t \in Tables}]
  /\ \A t \in Tables : activTables'[t] \in addFlow(CopyTables[t], Len(flows'), flows')
  /\ inactivTables' = activTables
  /\ UNCHANGED <<now, applied>>

FlowModAdd(m) ==
  /\ m.command = "ADD"
  /\ Len(flows) < MaxFlows
  /\ flows' = Append(flows, NewFlow(m))
  /\ \E s \in addFlow(CopyTables[m.table], Len(flows'), flows') :
       activTables' = [CopyTables EXCEPT ![m.table] = s]
  /\ inactivTables' = activTables
  /\ UNCHANGED <<now, applied>>

(* push() looks for OFPFC_ADD only: any other command is dropped.          *)
FlowModOther(m) ==
  /\ m.command # "ADD"
  /\ UNCHANGED vars

(* checkPacketInFlow: every table gets its own clone of the packet.        *)
checkPacketInFlow(p) ==
  LET hit  == [t \in Tables |-> checkPacketInTable(activTables[t], flows, p, now)]
      seen == UNION {Consulted(activTables[t], flows, p, now) : t \in Tables}
  IN /\ \A i \in FlowIds : flows[i].packets < MaxPackets
     /\ applied' = hit
     /\ flows' = [i \in FlowIds |->
          [flows[i] EXCEPT !.packets = IF i \in seen THEN @ + 1 ELSE @]]
     /\ UNCHANGED <<now, activTables, inactivTables>>

Tick ==
  /\ now < MaxTime
  /\ now' = now + 1
  /\ UNCHANGED <<flows, activTables, inactivTables, applied>>

Next ==
  \/ \E m \in FlowMods : FlowModAdd(m)
  \/ \E m \in FlowMods : FlowModOther(m)
  \/ \E p \in Packets : checkPacketInFlow(p)
  \/ Tick

Spec == Init /\ [][Next]_vars

-----------------------------------------------------------------------------
(* Every variable keeps its type: the tables of both buffers point to      *)
(* entries that exist.                                                     *)
TypeOK ==
  /\ now \in Nat
  /\ flows \in Seq(Flow)
  /\ activTables \in [Tables -> Seq(FlowIds)]
  /\ inactivTables = NoTables \/ inactivTables \in [Tables -> Seq(FlowIds)]
  /\ applied \in [Tables -> SUBSET FlowIds]

(* Whatever the order in which entries were added, expired and purged, a   *)
(* table applies to a packet an entry of the highest priority among those  *)
(* it would apply at all: the scan from the back relies on the order that  *)
(* addFlow's sort and deleteOldFlows' copy have kept.                      *)
HighestPriorityWins ==
  \A t \in Tables, p \in Packets :
    \A hit \in checkPacketInTable(activTables[t], flows, p, now) :
      \A i \in Entries(activTables, t) :
        (~PassedOver(flows[i], now) /\ checkPacketOnFlow(flows[i], p))
          => flows[i].priority <= flows[hit].priority

(* An entry is in at most one table and only once, whatever copies and     *)
(* swaps the double buffering made.                                        *)
OneHome ==
  /\ \A t \in Tables : IsInjective(activTables[t])
  /\ \A t, u \in Tables :
       t # u => Entries(activTables, t) \cap Entries(activTables, u) = {}

(* The two buffers are consecutive generations: apart from the entry added *)
(* last, the active table holds only what the inactive one holds, and it   *)
(* lacks only entries whose timeout has passed.                            *)
ConsecutiveGenerations ==
  inactivTables # NoTables =>
    \A t \in Tables :
      /\ Entries(activTables, t) \subseteq Entries(inactivTables, t) \cup {Len(flows)}
      /\ \A i \in Entries(inactivTables, t) \ Entries(activTables, t) :
           Expired(flows[i], now)

(* No FLOW_MOD makes the switch forget an entry whose timeout has not      *)
(* passed; permanent entries stay for ever.                                *)
NoEarlyDeletion ==
  [][\A i \in Active : i \notin Active' => Expired(flows[i], now)]_vars

(* An entry that has left the active tables never comes back, although     *)
(* the inactive buffer still holds it.                                     *)
NoResurrection ==
  [][\A i \in FlowIds : i \notin Active => i \notin Active']_vars

(* An effective FLOW_MOD for one table purges the expired entries of all.  *)
PurgeIsGlobal ==
  [][activTables' # activTables => \A i \in Active' : ~Expired(flows'[i], now)]_vars

-----------------------------------------------------------------------------
(* The abstract table: the entries an active table points to, without      *)
(* their order; the heap's length is the number of entries created.        *)
AbstractEntry(i) ==
  [id |-> i, priority |-> flows[i].priority, timeout |-> flows[i].timeout,
   accepts |-> {p \in flows[i].match : applyActionOnPacket(flows[i].action)}]

AbstractEntries ==
  [t \in Tables |-> {AbstractEntry(i) : i \in Entries(activTables, t)}]

Abstract == INSTANCE PriorityTable WITH
  created <- Len(flows), entries <- AbstractEntries

(* The vectors, their sorting and the swap of the two buffers implement    *)
(* the abstract table: in particular std::sort's freedom with entries of   *)
(* equal priority shows in nothing but the choice among the best.          *)
ImplementsPriorityTable == Abstract!Spec

-----------------------------------------------------------------------------
(* A statement of openflow_1_5.h that the code does not keep: "Max time    *)
(* before discarding" (line 1665), an entry is not applied to a packet     *)
(* once its timeout has passed.                                            *)
ExpiredNotApplied ==
  \A t \in Tables, p \in Packets :
    \A i \in checkPacketInTable(activTables[t], flows, p, now) :
      ~Expired(flows[i], now)
=============================================================================
