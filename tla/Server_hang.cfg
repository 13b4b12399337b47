SPECIFICATION FairSpec
CONSTANTS
  call1 = call1
  note = note
  batch = batch
  NoOp = NoOp
  Calls = {call1}
  Notifies = {}
  Batches = {}
  Procs = {call1}
  BatchLen = 1
  IdSpace = 4
  MaxConn = 1
  CanReconnect = FALSE
PROPERTIES
  ServeCodecReturns
CHECK_DEADLOCK FALSE
