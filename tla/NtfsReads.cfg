SPECIFICATION Spec
CONSTANTS
  Hole = Hole
  Volumes <- Small
  CS = 2
INVARIANTS
  ReadsItsPieces
  EveryChildOnce
CHECK_DEADLOCK FALSE
