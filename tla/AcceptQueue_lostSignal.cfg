SPECIFICATION FairSpec
CONSTANTS
  Conns = {c1, c2}
  Acceptors = {t1}
  listen_queue_max = 3
  NULL = NULL
PROPERTY WaiterServed
CHECK_DEADLOCK FALSE
