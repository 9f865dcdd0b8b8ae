CONSTANTS
  Workers = {w1, w2, w3}
  PoolSize = 2
  MaxErrors = 3
  MaxRefusals = 2
  MaxStops = 1
SPECIFICATION FairSpec
INVARIANTS
  TypeOK
  SlotsConserved
  ExclusiveUse
  HandsOutOpen
PROPERTIES
  WaitersProgress
CHECK_DEADLOCK FALSE
