SPECIFICATION Spec
CONSTANTS
  SeqSpace = 16
  Rto = 2
  MaxLen = 2
  StreamBound = 4
  SendAfterClose = TRUE
INVARIANT NoAbort
CHECK_DEADLOCK FALSE
