SPECIFICATION FairProgramSpec
CONSTANTS
  Messages = 5
  MaxRead = 3
  Undefined = {1}
  Scripts <- MCScripts
  Listings <- MCListings
  OFPP_LOCAL = OFPP_LOCAL
INVARIANTS
  PopsWhatItHandled
  NothingLostOrDoubled
  HeadsInOrder
  OneMaster
  PiecesOfOneRequest
  AnswersAreAsked
  DescribesTheSwitch
  QuitIsOrderly
PROPERTY HandledInTheEnd
CHECK_DEADLOCK FALSE
