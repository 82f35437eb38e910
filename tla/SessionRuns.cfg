SPECIFICATION SessionSpec
CONSTANTS
  d1 = d1
  d2 = d2
  f1 = f1
  f2 = f2
  Foreign = Foreign
  Now = Now
  Dirs <- MCDirs
  Files <- MCFiles
  Name <- MCName
  DestName <- MCDestName
  San <- MCSan
  Suffixed <- MCSuffixed
  RsrcName <- MCRsrcName
  HashName <- MCHashName
  Volumes <- AllVolumes
  Options <- AllPolicies
  Destinations <- BothDestinations
  Faults <- DiskAndThrow
  MaxDepth = 3
  MaxSuffix = 3
INVARIANTS
  CountIsOnDisk
  NoPartialLeft
  FolderDatesKept
  SilenceMeansComplete
PROPERTIES
  KeepsBoth
  CancelStopsWriting
  SessionEnds
