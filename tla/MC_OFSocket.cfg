SPECIFICATION FairSpec
CONSTANTS
  PacketLength = 3
  SendBuffer = 4
  ReceiveBuffer = 2
  MaxPushes = 2
  Numbers = 8
  Hosts = {both, denied, other}
  NoHost = nobody
  Allow = {both}
  Deny = {both, denied}
INVARIANTS
  StreamIsWhole
PROPERTIES
  HandlingEnds
  EndIsNoticed
  DeniedAreHarmless
CHECK_DEADLOCK FALSE
