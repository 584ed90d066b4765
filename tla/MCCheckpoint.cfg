CONSTANTS
  LayerCounts <- MCLayerCounts
  MaxMicro <- MCMaxMicro

SPECIFICATION CheckpointSpec

INVARIANTS
  SameOutput
  RecomputesTheLastSaved

\* The model ends with a panic.
CHECK_DEADLOCK FALSE
