CONSTANTS
  near = near
  far = far
  Near = near
  Ends <- BothEnds
  Peer <- OtherEnd
  VLC <- OneEnd
  SeqNumbers = 2
  Trys = 5
  MaxInFlight <- AtMostTwo
  NumberOfPorts = 3
  Xids <- OneXid
  MaxRequests = 1
  Arrivals <- TwoArrivals
  PacketOuts <- ThreePacketOuts
  Interval = 2
  Late = 1
SPECIFICATION FairSwitchSpec
INVARIANTS
  DownIsAvoided
PROPERTIES
  LossIsBypassed
