SPECIFICATION FairSpec
CONSTANTS
  Clients = {c1, c2}
  TOTAL_TCBS = 3
  Segments = 2
  Padding = 2
  MaxSize = 3
  Hello = 2
  MaxPackets = 4
  Busy = {c1}
  MaxSpurious = 1
INVARIANTS TypeOK AcceptedOnce SentInSequence InOrderStream
PROPERTY ConnectionsServed
CHECK_DEADLOCK FALSE
