CONSTANTS
  Topologies <- MCTopologies
  Communicators <- MCCommunicators
  TrainingConfigs <- MCTrainingConfigs
  Params <- MCParams
  Presences <- MCPresences
  Norms <- MCNorms
  NormCap <- MCNormCap
  Modes <- MCModes
  InitialExponents <- MCInitialExponents
  GrowthIntervals <- MCGrowthIntervals
  MaxExponent <- MCMaxExponent
  MaxMicrobatches <- MCMaxMicrobatches
  MaxResets <- MCMaxResets
  CallerResets = FALSE

SPECIFICATION Spec

INVARIANT FullWindows

CHECK_DEADLOCK FALSE
