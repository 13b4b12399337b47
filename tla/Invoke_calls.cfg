SPECIFICATION Spec
CONSTANTS
  g1 = g1
  g2 = g2
  m1 = m1
  m2 = m2
  m3 = m3
  h1 = h1
  Bad = Bad
  Nil = Nil
  Hashes = {h1}
  MaxInt64 = 7
  Goroutines = {g1, g2}
  Messages <- SmallMessages
  Receivers <- SmallReceivers
  RpcReceiver = "rpc"
  Names = {"", "eth"}
  Lists <- SmallLists
  MaxSets = 2
INVARIANTS
  MiddlewareOrder
  MeantBlock
  ValidAccepted
PROPERTIES
  NothingUnregistered
CHECK_DEADLOCK FALSE
