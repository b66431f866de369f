SPECIFICATION FairSpec
CONSTANTS
  Conns = {c1, c2, c3, c4}
  Acceptors = {t1, t2}
  listen_queue_max = 3
  NULL = NULL
INVARIANTS TypeOK RingInOrder SignalsSuffice
PROPERTY WokenReturns
CHECK_DEADLOCK FALSE
