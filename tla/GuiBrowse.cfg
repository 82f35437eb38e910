SPECIFICATION Spec
CONSTANTS
  NoFs = NoFs
  NoSource = NoSource
  Sources <- AllSources
INVARIANTS
  TickedIsExported
  RowsAreOfTheImage
  NoCiphertextMounted
PROPERTIES
  BusyEnds
CHECK_DEADLOCK FALSE
