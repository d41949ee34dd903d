SPECIFICATION Spec
CONSTANTS
  Proc <- Procs
  Module <- AB
  Imports <- Cycle
  TUImports <- TUs
  NoMap <- None
  Bad <- None
  Stale <- Empty
  MaxVersion = 1
  FaultKinds <- ColdFaults
  MaxFaults = 0
  MayEdit = FALSE
  NoFile = NoFile
  Torn = Torn
  Free = Free
  TU = TU
  a = a
  b = b
  c = c
  p1 = p1
  p2 = p2
INVARIANT
  NoMutualWait
