SPECIFICATION Spec
CONSTANTS
  MaxPieces = 2
  Batches <- AllBatches
INVARIANTS
  BatchIsAnswered
  PiecesOfOneRequest
  MasterIsFinal
