SPECIFICATION FairSpec
CONSTANTS
  Proc <- Procs
  Module <- ABC
  Imports <- AImportsB
  TUImports <- TUStale
  NoMap <- OnlyC
  Bad <- None
  Stale <- NoB
  MaxVersion = 2
  FaultKinds <- TempFault
  MaxFaults = 1
  MayEdit = TRUE
  NoFile = NoFile
  Torn = Torn
  Free = Free
  TU = TU
  a = a
  b = b
  c = c
  p1 = p1
  p2 = p2
PROPERTIES
  LoadedNotOlder
  NeverReplacedByOlder
