SPECIFICATION FairSpec
CONSTANTS
  SeqSpace = 16
  Rto = 1
  MaxLen = 2
  StreamBound = 3
  SendAfterClose = FALSE
INVARIANTS TypeOK WindowSound HeldUntilReceived
PROPERTIES ImplementsChannel WindowDrains
CHECK_DEADLOCK FALSE
