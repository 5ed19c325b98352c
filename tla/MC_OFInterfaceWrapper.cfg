CONSTANTS
  near = near
  far = far
  Ends <- BothEnds
  Peer <- OtherEnd
  VLC <- BothEnds
  SeqNumbers = 3
  Trys = 5
  MaxInFlight <- FourAndOne
SPECIFICATION FairSpec
INVARIANTS
  AnswersAreRecent
PROPERTIES
  NoFalseAlarm
  BreakIsNoticed
  RepairIsFinal
