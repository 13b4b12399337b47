SPECIFICATION Spec
CONSTANTS
  call1 = call1
  note = note
  batch = batch
  NoOp = NoOp
  Calls = {call1}
  Notifies = {}
  Batches = {}
  Procs = {}
  BatchLen = 1
  IdSpace = 4
  MaxConn = 1
  CanReconnect = TRUE
INVARIANTS
  AnsweredWhenStopped
