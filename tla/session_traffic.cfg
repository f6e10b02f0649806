CONSTANTS
  Role = "server"
  Frames <- Questions
  MaxFrames = 2
  MaxBacklog = 0
  MaxTimeOut = 1
  Faults = {}
  Periods = {1}
SPECIFICATION Spec
INVARIANTS
  TypeOK
  FrontIsBeingWritten
PROPERTIES
  KeepsPromise
CHECK_DEADLOCK FALSE
