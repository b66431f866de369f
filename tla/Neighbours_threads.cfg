SPECIFICATION NeighboursFairSpec
CONSTANTS
  Own = i1
  Peers = {i2}
  Macs = {m1, m2}
  LongIPs = {i2}
  ShowMax = 3
  MaxLearned = 2
  MaxCmds = 2
INVARIANTS NeighboursTypeOK Remembered AddedAnswered
PROPERTIES FirstAnswerStays CommandServed
CHECK_DEADLOCK FALSE
