SPECIFICATION Spec
CONSTANTS
  Rigs <- AllRigs
  Reads <- AllReads
  S = 2
  MaxBatch = 4
  Step = 4
  MaxShift = 8
INVARIANTS
  RightUnitRightKey
  OneCopyIsEnough
PROPERTIES
  AnswersInFull
