SPECIFICATION Spec
CONSTANTS
  None = None
  Disks <- LostDisks
  Modes <- AllModes
  Large = 2
  MiB = 2
  Dense = 8
  FastCap = 12
  Chunk = 4
  TableLbas = 1
  TableSlots = 4
  ApmMax = 8
  Field = 64
INVARIANTS
  FoundExactlyOnce
  GptSurvives
PROPERTIES
  ScanEnds
