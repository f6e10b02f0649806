CONSTANTS
  Role = "server"
  Frames <- Questions
  MaxFrames = 1
  MaxBacklog = 0
  MaxTimeOut = 0
  Faults = {"network", "owner"}
  Periods = {1}
SPECIFICATION FairSpec
PROPERTIES
  SilentPeerIsDropped
CHECK_DEADLOCK FALSE
