--------------------------- MODULE MC_OFClassifier ---------------------------
(***************************************************************************)
(* Reads of one or two messages of every kind, and of three of those whose *)
(* order or splitting matters, each message at most once in a read.        *)
(***************************************************************************)
EXTENDS OFClassifier

M(type, xid) ==
  [type |-> type, xid |-> xid, version |-> 5, more |-> FALSE, role |-> 0,
   generation |-> 0, flags |-> 0]

Master(xid, generation) ==
  [M("ROLE_REQUEST", xid) EXCEPT !.role = MASTER, !.generation = generation]

Slave(xid, generation) ==
  [M("ROLE_REQUEST", xid) EXCEPT !.role = 3, !.generation = generation]

Piece(xid) == [M("DESC", xid) EXCEPT !.more = TRUE]

(* An older OpenFlow's HELLO.                                              *)
Foreign == [M("HELLO", 15) EXCEPT !.version = 4]

Messages ==
  {M("HELLO", 1), Foreign, [M("ECHO_REQUEST", 2) EXCEPT !.version = 6],
   M("BARRIER_REQUEST", 3), M("FLOW_MOD", 4), M("PACKET_OUT", 5), M("STATS", 6),
   [M("SET_CONFIG", 7) EXCEPT !.flags = 1], M("ERROR", 8), Master(9, 1), Master(10, 2),
   Slave(11, 2), Piece(12), M("DESC", 12), Piece(13),
   [M("DESC", 14) EXCEPT !.version = 6]}

Core ==
  {Foreign, [M("ECHO_REQUEST", 2) EXCEPT !.version = 6], M("BARRIER_REQUEST", 3),
   M("FLOW_MOD", 4), M("PACKET_OUT", 5), Master(9, 1), Master(10, 2)}

AllBatches ==
  {b \in UNION {[1..n -> Messages] : n \in 1..2} \cup [1..3 -> Core] : IsInjective(b)}

(* Controllers that send every piece of a request in one read.             *)
WholeRequests ==
  {<<M("DESC", 12)>>, <<Piece(13), M("DESC", 13)>>, <<M("BARRIER_REQUEST", 3)>>}
=============================================================================
