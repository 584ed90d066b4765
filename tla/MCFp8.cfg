CONSTANTS
  HistoryLengths <- MCHistoryLengths
  Amaxes <- MCAmaxes
  Slices <- MCSlices
  BlockSizes <- MCBlockSizes
  Infinity <- MCInfinity
  Smallest <- MCSmallest

SPECIFICATION Fp8Spec

INVARIANTS
  Fp8TypeOK
  ScaledForOwnBlock
  RoundTripIfNearlyFull

PROPERTIES
  ImplementsWindow
  ObservedFits

\* An update of an empty history panics.
CHECK_DEADLOCK FALSE
