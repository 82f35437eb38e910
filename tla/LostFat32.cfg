SPECIFICATION Spec
CONSTANTS
  None = None
  Disks <- Fat32Disks
  Modes <- AllModes
  Large = 2
  MiB = 2
  Dense = 8
  FastCap = 12
  Chunk = 4
  TableLbas = 1
  TableSlots = 4
  ApmMax = 8
  Field = 64
INVARIANTS
  NoneMissed
