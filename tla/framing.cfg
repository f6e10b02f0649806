CONSTANTS
  Sizes = {0, 1, 3, 4}
  SizeModulus = 4
  HeaderSize = 2
  MaxFrames = 3
SPECIFICATION FairSpec
INVARIANTS
  FramesKeepStep
PROPERTIES
  AllArrive
CHECK_DEADLOCK FALSE
