CONSTANTS
  Threads = {1, 2, 3}
  MaxHandlers = 5
  GiveUp = FALSE
SPECIFICATION FairSpec
INVARIANTS
  NoThreadIsLost
  Drained
PROPERTIES
  StopJoins
CHECK_DEADLOCK FALSE
