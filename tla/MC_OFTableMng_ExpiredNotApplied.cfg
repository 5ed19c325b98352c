CONSTANTS
  p1 = p1
  p2 = p2
  Tables <- TwoTables
  Packets <- TwoPackets
  FlowMods <- ControllerMods
  MaxTime = 3
  MaxFlows = 1
  MaxPackets = 1
SPECIFICATION PacketInSpec
INVARIANTS
  ExpiredNotApplied
