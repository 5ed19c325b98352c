CONSTANTS
  QUEUESIZE = 3
  MaxAccepted = 5
  MaxReceived = 2
  SIZE = 2
  VlcFrames = {"first", "second"}
  MaxFrames = 3
  MaxAcks = 3
SPECIFICATION FairSpec
INVARIANTS
  FramesAreAccounted
PROPERTIES
  KeepsOrder
  AcceptedIsSent
CHECK_DEADLOCK FALSE
