SPECIFICATION Spec
CONSTANTS
  r1 = r1
  r2 = r2
  Hole = Hole
  Layouts <- AllSets
  Readers <- TwoReaders
  MaxOff = 8
  MaxLen = 4
  MaxReads = 1
INVARIANTS
  NeverWrongData
  HealthyIsWhole
  MirrorSurvivesOne
  SickDriveIsListed
PROPERTIES
  ImplementsDisk
