CONSTANTS
  WorkerCount = 2
  MaxTasks = 1
  MaxCommands = 1
SPECIFICATION FairSpec
INVARIANTS
  TypeOK
  EndsToldOrFailed
PROPERTY ShutdownStops
CHECK_DEADLOCK FALSE
