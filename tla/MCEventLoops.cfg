CONSTANTS
  k1 = k1
  k2 = k2
  k3 = k3
  b1 = b1
  b2 = b2
  b3 = b3
  Talker = k1
  Nul = Nul
  Junk = Junk
  None = None
  Clients = {k1, k2, k3}
  Bytes = {b1, b2, b3, Nul}
  Listen = 3
  LastFd = 5
  Backlog = 2
  BufferSize = 3
  MaxSend = 3
  Window = 3
SPECIFICATION MCSpec
INVARIANTS
  EchoIsExact
  WatchesOpenSockets
  NeverBlocksInRecv
  BlocksOnlyOnFresh
PROPERTIES
  SelectServes
  PollDrains
CHECK_DEADLOCK FALSE
