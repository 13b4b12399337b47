SPECIFICATION FairSpec
CONSTANTS
  call1 = call1
  note = note
  batch = batch
  NoOp = NoOp
  Calls <- WithBatch
  Notifies = {}
  Batches = {batch}
  Procs = {}
  BatchLen = 2
  IdSpace = 3
  MaxConn = 2
  CanReconnect = TRUE
INVARIANTS
  TypeOK
  WriteLock
  RespChanSafe
  OneReader
  ConnsAccounted
  RightAnswer
  NobodyForgotten
PROPERTIES
 CloseReturns
 QuitReleasesCalls
