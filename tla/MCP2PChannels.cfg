CONSTANTS
  WorldSizes <- MCWorldSizes
  MaxCalls <- MCMaxCalls

SPECIFICATION Spec

INVARIANTS
  Regular
  RingSees

\* The model ends with the last call of every rank.
CHECK_DEADLOCK FALSE
