CONSTANTS
  p1 = p1
  p2 = p2
  Tables <- TwoTables
  Packets <- TwoPackets
  FlowMods <- ControllerMods
  MaxTime = 3
  MaxFlows = 4
  MaxPackets = 2
SPECIFICATION PacketInSpec
INVARIANTS
  TypeOK
  HighestPriorityWins
  OneHome
  BuffersAreApart
  ConsecutiveGenerations
PROPERTIES
  NoEarlyDeletion
  NoResurrection
  PurgeIsGlobal
  ImplementsPriorityTable
