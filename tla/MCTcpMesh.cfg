CONSTANTS
  WorldSize = 2
  Tasks <- MCTwoTasks
  Sizes <- MCSizes
  Capacity = 2
  ConnectsLater = TRUE
  MaxCalls = 2

SPECIFICATION FairSpec

INVARIANTS
  TypeOK
  FramesInOrder
  FiledUnderItsRank

PROPERTIES
  HandshakesAreFiled
  CallsReturn

\* Tasks may wait for each other for ever.
CHECK_DEADLOCK FALSE
