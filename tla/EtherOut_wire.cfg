SPECIFICATION FairSpec
CONSTANTS
  Mbufs = {m1, m2, m3}
  RingSize = 2
  NicSize = 1
  MaxLeak = 1
  MaxEthers = 2
INVARIANTS TypeOK RefsExact HeadersOnce
PROPERTY Released
CHECK_DEADLOCK FALSE
