CONSTANTS
  s1 = s1
  s2 = s2
  s3 = s3
  Sessions <- ThreeSessions
  MaxLeaves = 3
SPECIFICATION FairSpec
INVARIANTS
  TypeOK
  OneAcceptor
  NoZombies
  StopTellsAll
PROPERTIES
  StopReturns
CHECK_DEADLOCK FALSE
