CONSTANTS
  MaxReads = 3
  MaxBacklog = 3
  Replies = {"nothing", "send", "drop"}
SPECIFICATION FairSpec
INVARIANTS
  TypeOK
  OneWriteOfFront
  ConnectedIsBusy
PROPERTIES
  ClosedIsLetGo
  KeepsPromise
CHECK_DEADLOCK FALSE
