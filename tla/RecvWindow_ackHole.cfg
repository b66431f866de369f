SPECIFICATION Spec
CONSTANTS
  SeqSpace = 64
  Isn = 5
  CurrentSize = 4
  PeerWindow = 4
  RingSize = 2
  BufferSize = 3
  MaxLen = 3
  StreamBound = 4
INVARIANT AckOnlyReceived
CHECK_DEADLOCK FALSE
