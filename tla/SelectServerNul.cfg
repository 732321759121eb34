CONSTANTS
  k1 = k1
  x = x
  Nul = Nul
  Junk = Junk
  None = None
  Clients = {k1}
  Bytes = {x, Nul}
  Listen = 3
  LastFd = 4
  Backlog = 1
  BufferSize = 3
  MaxSend = 3
  Window = 3
SPECIFICATION Spec
INVARIANT SentBackUnchanged
CHECK_DEADLOCK FALSE
