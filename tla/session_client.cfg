CONSTANTS
  Role = "client"
  Frames <- AllFrames
  MaxFrames = 1
  MaxBacklog = 0
  MaxTimeOut = 0
  Faults = {"network", "owner", "memory"}
  Periods = {1}
SPECIFICATION Spec
INVARIANTS
  OneWriteInFlight
  NoLostWakeup
  ClosedIsDisconnected
PROPERTIES
  KeepsPromise
CHECK_DEADLOCK FALSE
