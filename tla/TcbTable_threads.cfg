SPECIFICATION Spec
CONSTANTS
  Apps = {a1, a2}
  Clients = {c1, c2}
  TOTAL_TCBS = 3
  QueueMax = 1
  IdSpace = 8
INVARIANTS TypeOK TableUnique RemovalsJustified
PROPERTY IdentifierStable
CHECK_DEADLOCK FALSE
