CONSTANTS
  Clients = {c1, c2}
  Workers = {w1, w2}
  RequestQueueSize = 2
  ResponseQueueSize = 2
  MaxConnections = 2
  MaxRequests = 3
  MaxCloses = 0
  MaxLost = 0
  MaxAcceptFailures = 0
SPECIFICATION FairSpec
PROPERTIES
  EveryRequestAnswered
CHECK_DEADLOCK FALSE
