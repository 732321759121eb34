CONSTANTS
  k1 = k1
  k2 = k2
  x = x
  Nul = Nul
  Junk = Junk
  None = None
  Clients = {k1, k2}
  Bytes = {x}
  Listen = 3
  LastFd = 5
  Backlog = 2
  BufferSize = 2
  MaxSend = 1
  Window = 1
  ListenData = 99
  MaxEvents = 10
SPECIFICATION FairSpec
PROPERTY AcceptsClients
CHECK_DEADLOCK FALSE
