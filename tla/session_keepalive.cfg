CONSTANTS
  Role = "server"
  Frames <- Questions
  MaxFrames = 1
  MaxBacklog = 2
  MaxTimeOut = 2
  Faults = {"network"}
  Periods = {1, 2}
SPECIFICATION Spec
INVARIANTS
  ReadIsGuarded
  
CHECK_DEADLOCK FALSE
