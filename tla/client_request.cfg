CONSTANTS
  Handles = {"timeout"}
  MaxAnswers = 3
SPECIFICATION FairSpec
INVARIANTS
  TypeOK
  CancelIsFinal
PROPERTIES
  RequestEnds
  KillReturns
CHECK_DEADLOCK FALSE
