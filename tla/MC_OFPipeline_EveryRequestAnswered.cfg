CONSTANTS
  NumberOfPorts = 3
  Xids <- TwoXids
  MaxRequests = 2
  Interval = 5
  Late = 3
SPECIFICATION Spec
INVARIANTS
  EveryRequestAnswered
