CONSTANTS
  Clients = {c1, c2}
  Workers = {w1, w2}
  RequestQueueSize = 2
  ResponseQueueSize = 2
  MaxConnections = 3
  MaxRequests = 3
  MaxCloses = 1
  MaxLost = 0
  MaxAcceptFailures = 0
SPECIFICATION Spec
INVARIANTS
  NoStrandedResponse
SYMMETRY Symmetry
CHECK_DEADLOCK FALSE
