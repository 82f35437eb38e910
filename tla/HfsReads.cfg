SPECIFICATION Spec
CONSTANTS
  Hole = Hole
  Volumes <- AllVolumes
  Chunk = 2
  CacheMax = 1
  MaxDepth = 4
INVARIANTS
  
  ReadsAsListed
CHECK_DEADLOCK FALSE
