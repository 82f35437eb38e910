SPECIFICATION Spec
CONSTANTS
  d1 = d1
  d2 = d2
  f1 = f1
  f2 = f2
  Foreign = Foreign
  Dirs <- MCDirs
  Files <- MCFiles
  San <- MCSan
  Needles <- MCNeedles
  Scenarios <- AllScenarios
  MaxDepth = 4
  ReportDepth = 2
  MaxDup = 4
INVARIANTS
  ExitIsHonest
  ReportIsTheTree
  ListIsHonest
