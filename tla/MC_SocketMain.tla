---------------------------- MODULE MC_SocketMain -----------------------------
(***************************************************************************)
(* What the controller says, for TLC: one script about roles, two about    *)
(* multipart requests in pieces, one with every other kind of message.     *)
(* Which of them share a read, and so the order in which they are handled, *)
(* is left to the specification.  The directory of the devices lists the   *)
(* loopback device, a live port, one that is down and an entry that is no  *)
(* device (bonding_masters is one).                                        *)
(***************************************************************************)
EXTENDS SocketPipeline

Plain(type, xid) ==
  [type |-> type, xid |-> xid, more |-> FALSE, role |-> 0, generation |-> 0]

Part(type, xid) == [Plain(type, xid) EXCEPT !.more = TRUE]

Role(xid, role, generation) ==
  [Plain("ROLE_REQUEST", xid) EXCEPT !.role = role, !.generation = generation]

MCScripts == {
  <<Role(1, MASTER, 1), Role(2, MASTER, 2), Role(3, MASTER, 2), Role(4, SLAVE, 2), Role(5, MASTER, 1)>>,
  <<Part("DESC", 1), Plain("BARRIER_REQUEST", 2), Part("DESC", 3), Part("DESC", 3), Plain("DESC", 3)>>,
  <<Part("TABLE_FEATURES", 1), Plain("PORT_DESC", 2), Part("PORT_DESC", 3), Plain("PORT_DESC", 3), Plain("AGGREGATE_STATS", 5)>>,
  <<Plain("HELLO", 1), Plain("SET_CONFIG", 2), Plain("FLOW_MOD", 3), Plain("TABLE_FEATURES", 4), Plain("ECHO_REQUEST", 5)>> }

Dev(name, operstate, speed, duplex) ==
  [name |-> name, operstate |-> operstate, speed |-> speed, duplex |-> duplex]

MCListings == {
  <<Dev("bonding_masters", "unreadable", "", ""), Dev("eth0", "down", "", ""),
    Dev("lo", "up", "", ""), Dev("eth1", "up", "10", "half")>>,
  <<Dev("lo", "up", "", ""), Dev("bonding_masters", "unreadable", "", ""), Dev("wlan0", "down", "", "")>> }
=============================================================================
