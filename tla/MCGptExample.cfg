CONSTANTS
  Shapes <- MCShapes
  BatchCounts <- MCBatchCounts
  StepCounts <- MCStepCounts

SPECIFICATION GptSpec

INVARIANT SeesOnlyThePast

PROPERTY RunsThrough

\* The program ends.
CHECK_DEADLOCK FALSE
