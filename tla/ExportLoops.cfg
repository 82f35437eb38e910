SPECIFICATION Spec
CONSTANTS
  d1 = d1
  d2 = d2
  f1 = f1
  f2 = f2
  Foreign = Foreign
  Now = Now
  Dirs <- MCDirs
  Files <- MCFiles
  Name <- MCName
  DestName <- MCDestName
  San <- MCSan
  Suffixed <- MCSuffixed
  RsrcName <- MCRsrcName
  HashName <- MCHashName
  Volumes <- WalkVolumes
  Options <- RenameOrSkip
  Destinations <- NewDestination
  Faults <- AnyFault
  MaxDepth = 3
  MaxSuffix = 3
INVARIANTS
  LoopFree
  EveryRouteAccounted
