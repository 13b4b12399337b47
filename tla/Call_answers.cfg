SPECIFICATION CallFairSpec
CONSTANTS
  Requests <- SmallRequests
  Webs <- SmallWebs
  BodyLimit = 1
  Sizes = {0, 1}
  ItemLimit = 3
  MaxSize = 1
  HasTimeout = TRUE
INVARIANTS
  CallTypeOK
  AnsweredOnce
  CompleteInTime
  OwnOutcome
PROPERTIES
  TimeoutReaches
  NoWriteAfterReturn
  EverybodyReturns

