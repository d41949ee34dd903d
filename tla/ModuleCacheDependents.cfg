SPECIFICATION Spec
CONSTANTS
  Proc <- Loner
  Module <- AB
  Imports <- AImportsB
  TUImports <- TUBoth
  NoMap <- None
  Bad <- None
  Stale <- AllStale
  MaxVersion = 2
  FaultKinds <- TempFault
  MaxFaults = 0
  MayEdit = FALSE
  NoFile = NoFile
  Torn = Torn
  Free = Free
  TU = TU
  a = a
  b = b
  c = c
  p1 = p1
  p2 = p2
INVARIANT
  DependentsRebuilt
