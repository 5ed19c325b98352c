SPECIFICATION Spec
CONSTANTS
  MaxPieces = 2
  Batches <- WholeRequests
INVARIANT AnswersArePaired
