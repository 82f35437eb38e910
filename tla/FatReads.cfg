SPECIFICATION Spec
CONSTANTS
  r1 = r1
  r2 = r2
  Hole = Hole
  Readers <- TwoReaders
  Volumes <- AllDisks
  CS = 2
  Chunk = 3
  Block = 2
  Probe = 1
  DeletedCap = 3
  MaxLfn = 2
SYMMETRY EitherWay
INVARIANTS
  ReadsTheChain
  StaysInPlace
  DamageIsTold
  LiveEntriesAreLive
  ListsEverything
