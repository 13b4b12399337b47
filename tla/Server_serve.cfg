SPECIFICATION FairSpec
CONSTANTS
  call1 = call1
  note = note
  batch = batch
  NoOp = NoOp
  Calls = {call1, note}
  Notifies = {note}
  Batches = {}
  Procs = {call1}
  BatchLen = 1
  IdSpace = 4
  MaxConn = 1
  CanReconnect = FALSE
PROPERTIES
  OnlyReverseCallsBlock
CHECK_DEADLOCK FALSE
