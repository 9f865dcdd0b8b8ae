CONSTANTS
  Configs <- MCConfigs
  MaxClients = 3
  MaxFaults = 2
  MaxCount = 3
SPECIFICATION FairSpec
INVARIANTS
  TypeOK
  CountersAgree
  CountedOnce
PROPERTY PairGoesOn
CHECK_DEADLOCK FALSE
