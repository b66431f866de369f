SPECIFICATION FairSpec
CONSTANTS
  Conns = {c1, c2}
  PoolSize = 3
  RingSize = 2
  Chunks = 2
  MaxSegs = 3
INVARIANTS TypeOK PoolExact ReplyInOrder
PROPERTY ReplyCompletes
CHECK_DEADLOCK FALSE
