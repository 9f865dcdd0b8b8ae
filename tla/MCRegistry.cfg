CONSTANTS
  Connections = {c1, c2}
  ClientNames = {a, b}
  QueueNames = {a}
  NONE = NONE
  MaxIds = 3
  MaxFailures = 1
SPECIFICATION Spec
INVARIANTS
  TypeOK
  OneQueuePerClient
  ContextSound
  RightRecipient
SYMMETRY Symmetry
CHECK_DEADLOCK FALSE
