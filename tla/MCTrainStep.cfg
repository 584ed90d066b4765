CONSTANTS
  Topologies <- MCTopologies
  Communicators <- MCCommunicators
  TrainingConfigs <- MCTrainingConfigs
  Params <- MCParams
  Presences <- MCPresences
  Norms <- MCNorms
  NormCap <- MCNormCap
  Modes <- MCModes
  InitialExponents <- MCInitialExponents
  GrowthIntervals <- MCGrowthIntervals
  MaxExponent <- MCMaxExponent
  MaxMicrobatches <- MCMaxMicrobatches
  MaxResets <- MCMaxResets
  CallerResets = TRUE

SPECIFICATION Spec

INVARIANTS
  FullWindows
  EachOnce
  OneScalePerStep
  InfiniteNeverApplied
  StepsAreBounded
  RampFollowsSteps
  GrowthIsSlow

\* The model stops after MaxMicrobatches, a refusal or a panic.
CHECK_DEADLOCK FALSE
