SPECIFICATION Spec
CONSTANTS
  Requests <- CallBatches
  Sizes = {0, 1}
  ItemLimit = 0
  MaxSize = 0
  HasTimeout = TRUE
INVARIANTS
  BatchComplete
