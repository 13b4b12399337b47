SPECIFICATION FairSpec
CONSTANTS
  w1 = w1
  Nobody = Nobody
  PingLoop = PingLoop
  NoOrigin = NoOrigin
  Any = Any
  Writers = {w1}
  Specs <- SomeSpecs
  Origins <- SomeOrigins
  LocalHosts <- Local
  PingInterval = 3
  PongTimeout = 3
  PingWriteTimeout = 1
  WriteTimeout = 2
  PeerDelay = 2
  Window = 1
INVARIANTS
  LivePeerKept
  OriginChecked
PROPERTIES
  DeadPeerNoticed
  CloseEndsAll
