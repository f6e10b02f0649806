CONSTANTS
  Role = "server"
  Frames <- AllFrames
  MaxFrames = 1
  MaxBacklog = 0
  MaxTimeOut = 0
  Faults = {"network", "owner", "memory"}
  Periods = {1}
SPECIFICATION Spec
INVARIANTS
  OneWriteInFlight
  NoLostWakeup
  ReadIsGuarded
  ClosedIsDisconnected
  CloseHandlerBound
CHECK_DEADLOCK FALSE
