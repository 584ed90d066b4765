CONSTANTS
  StageCounts <- MCStageCounts
  MicrobatchCounts <- MCMicrobatchCounts
  WorldSizes <- MCWorldSizes

SPECIFICATION Spec

INVARIANTS
  NoPanic
  OwnActivations
  HandOverBound
  InFlightBound
  NoWorkBeyondWorld

PROPERTIES
  ImplementsPipeline

\* A call to execute returns and the model stops.
CHECK_DEADLOCK FALSE
