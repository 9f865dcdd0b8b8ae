SPECIFICATION Spec
CONSTANTS
  Requests <- SomeRequests
  Responses <- SomeResponses
  MaxMessageSize = 74
  ClientCapacity = 60
  MaxPieces = 3
CHECK_DEADLOCK FALSE
INVARIANTS TypeOK BothIntact ResponseCompletes
