CONSTANTS
  StageCounts <- MCStageCounts
  MicrobatchCounts <- MCMicrobatchCounts
  WorldSizes <- MCWorldSizes

SPECIFICATION Spec

INVARIANT GradientFromNextStage

CHECK_DEADLOCK FALSE
