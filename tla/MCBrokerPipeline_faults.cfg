CONSTANTS
  Clients = {c1, c2}
  Workers = {w1, w2}
  RequestQueueSize = 1
  ResponseQueueSize = 1
  MaxConnections = 3
  MaxRequests = 2
  MaxCloses = 1
  MaxLost = 1
  MaxAcceptFailures = 1
SPECIFICATION Spec
INVARIANTS
  TypeOK
  AnswersOwnRequest
  SelectedKeysUsable
  BuffersAccountedFor
PROPERTIES
  NoTornResponse
SYMMETRY Symmetry
CHECK_DEADLOCK FALSE
