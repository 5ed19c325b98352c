---------------------------- MODULE MC_OFTableMng ----------------------------
(* Instances of OFTableMng and OFPacketIn for TLC.                         *)
EXTENDS OFPacketIn

CONSTANTS p1, p2   (* a packet for a known and one for an unknown address  *)

Message(command, table, hard, idle, priority, match, action) ==
  [command |-> command, table |-> table, hard |-> hard, idle |-> idle,
   priority |-> priority, match |-> match, action |-> action]

TwoTables == {0, 1}
TwoPackets == {p1, p2}

(* A permanent table-miss entry of the lowest priority that asks the       *)
(* controller, entries with one, with both and with no timeout, of equal   *)
(* and of different priority, an entry whose action is not implemented,    *)
(* and a command that is no ADD.                                           *)
ControllerMods ==
  {Message("ADD", 0, 0, 0, 0, {p1, p2}, "CONTROLLER"),
   Message("ADD", 0, 2, 1, 7, {p1, p2}, "OUTPUT"),
   Message("ADD", 0, 0, 0, 7, {p1}, "SET_FIELD"),
   Message("ADD", 1, 0, 1, 1, {p2}, "CONTROLLER"),
   Message("DELETE", 0, 0, 0, 0, {p1}, "DROP")}
=============================================================================
