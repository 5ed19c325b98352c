---------------------------- MODULE PriorityTable ----------------------------
(***************************************************************************)
(* What the table manager promises its users, without vectors, sorting,    *)
(* heap or double buffering: every table is a set of entries.  A new entry *)
(* arrives together with the removal of all entries whose timeout has      *)
(* passed, a packet is handed, per table, to some entry of the highest     *)
(* priority among those in force that accept it, and nothing else ever     *)
(* changes a table.                                                        *)
(***************************************************************************)
EXTENDS Integers

CONSTANTS Tables, Packets, MaxTime

VARIABLES
  now,       (* the time in seconds                                          *)
  created,   (* how many entries were ever added: entry number n has id n    *)
  entries,   (* table -> the set of its entries                              *)
  applied    (* table -> the ids (none or one) the last packet was handed to *)

vars == <<now, created, entries, applied>>

Entry == [id : Nat, accepts : SUBSET Packets, priority : Nat, timeout : Int]

Permanent(e) == e.timeout = -1

(* As the switch has it: a timed entry is in force after its timeout.      *)
InForce(e) == Permanent(e) \/ e.timeout < now

Stale(e) == ~Permanent(e) /\ e.timeout < now

(* The entries of table t that may be given packet p.                      *)
Candidates(t, p) == {e \in entries[t] : InForce(e) /\ p \in e.accepts}

Best(S) == {e \in S : \A other \in S : other.priority <= e.priority}

Init ==
  /\ now = 0
  /\ created = 0
  /\ entries = [t \in Tables |-> {}]
  /\ applied = [t \in Tables |-> {}]

Add(t, e) ==
  /\ created' = created + 1
  /\ e.id = created'
  /\ entries' = [u \in Tables |->
       {old \in entries[u] : ~Stale(old)} \cup (IF u = t THEN {e} ELSE {})]
  /\ UNCHANGED <<now, applied>>

Apply(p) ==
  /\ \A t \in Tables :
       \/ Candidates(t, p) = {} /\ applied'[t] = {}
       \/ \E e \in Best(Candidates(t, p)) : applied'[t] = {e.id}
  /\ DOMAIN applied' = Tables
  /\ UNCHANGED <<now, created, entries>>

Tick ==
  /\ now < MaxTime
  /\ now' = now + 1
  /\ UNCHANGED <<created, entries, applied>>

(* The entry added is one of entries'[t]: no set of entries is enumerated. *)
Next ==
  \/ \E t \in Tables : \E e \in entries'[t] : e \in Entry /\ Add(t, e)
  \/ \E p \in Packets : Apply(p)
  \/ Tick

Spec == Init /\ [][Next]_vars
=============================================================================
