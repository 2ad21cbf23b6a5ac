SPECIFICATION Spec
CONSTANTS
  a = a
  Conns = {a}
  ClientIds = {2, 3}
  PoolSize = 2
  BUFFER_SIZE = 2
  MaxRead = 3
  MaxMsgs = 3
  SockCap = 4
  MaxSends <- MCMaxSends
  MaxOffers = 2
  MaxPending = 2
  MaxUnread = 3
  Ops <- MCOps
  Uninit <- MCUninit
INVARIANTS
  IdsOwned
  EventForItsObject
  SyncIsBarrier
PROPERTIES
  StreamIsFifo
  ReadersFit
CHECK_DEADLOCK FALSE
