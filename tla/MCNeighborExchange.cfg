CONSTANTS
  WorldSizes <- MCWorldSizes
  Dimensions <- MCDimensions
  MaxCalls <- MCMaxCalls

SPECIFICATION FairSpec

INVARIANTS
  EitherSees
  NeverOlder
  FromThePeer

PROPERTY CallsReturn

\* The model ends with the last call of every rank.
CHECK_DEADLOCK FALSE
