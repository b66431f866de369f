SPECIFICATION FairSpec
CONSTANTS
  SeqSpace = 64
  Isn = 57
  CurrentSize = 4
  PeerWindow = 4
  RingSize = 2
  BufferSize = 3
  MaxLen = 3
  StreamBound = 6
INVARIANTS StreamIntegrity InOrderService AnyOrderService
PROPERTIES EventuallyRead GapStaysOpen
CHECK_DEADLOCK FALSE
