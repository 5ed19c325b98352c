------------------------------ MODULE PortState ------------------------------
(***************************************************************************)
(* The port states of Elements/Utilities/openflow_1_5.h, and the byte swap *)
(* between host and network order of the little-endian build, the only one *)
(* that compiles.                                                          *)
(***************************************************************************)
EXTENDS Integers

OFPPS_LINK_DOWN == 1
OFPPS_LIVE == 4

Byte(x, weight) == (x \div weight) % 256

__builtin_bswap32(x) ==
  Byte(x, 1) * 16777216 + Byte(x, 256) * 65536 + Byte(x, 65536) * 256 + Byte(x, 16777216)
=============================================================================
