SPECIFICATION Spec
CONSTANTS
  r1 = r1
  r2 = r2
  Hole = Hole
  Readers <- TwoReaders
  Volumes <- AllVolumes
  CS = 4
  Chunk = 3
  Block = 2
  MaxSecondary = 3
  MaxWalkDepth = 4
SYMMETRY EitherWay
INVARIANTS
  NothingSwallowed
  IntactMeansIntact
  ReadsAsListed
PROPERTIES
  WalkAdvances
