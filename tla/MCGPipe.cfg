CONSTANTS
  StageCounts <- MCStageCounts
  MicrobatchCounts <- MCMicrobatchCounts
  WorldSizes <- MCWorldSizes
  Backends <- MCBackends
  MaxRuns <- MCMaxRuns

SPECIFICATION FairSpec

INVARIANTS
  GradientChain
  FailsOnlyWithoutWorld

PROPERTIES
  Termination
  ImplementsPipeline

\* After its last run the executor is left alone.
CHECK_DEADLOCK FALSE
