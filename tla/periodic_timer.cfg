CONSTANTS
  Handles = {"tick"}
  MaxCancels = 4
SPECIFICATION PeriodicFairSpec
INVARIANTS
  OneRound
  OneLateTick
PROPERTIES
  CancelStops
CHECK_DEADLOCK FALSE
