SPECIFICATION FairSpec
CONSTANTS
  Proc <- Procs
  Module <- ABC
  Imports <- Diamond
  TUImports <- TUs
  NoMap <- None
  Bad <- None
  Stale <- Empty
  MaxVersion = 1
  FaultKinds <- ColdFaults
  MaxFaults = 2
  MayEdit = FALSE
  NoFile = NoFile
  Torn = Torn
  Free = Free
  TU = TU
  a = a
  b = b
  c = c
  p1 = p1
  p2 = p2
INVARIANTS
  TypeOK
  BuildsUnderLock
  NoMutualWait
  SuccessMeansImported
  PublishedComplete
  ErrorHasCause
PROPERTIES
  ImplementsContract
  EveryProcessStops
