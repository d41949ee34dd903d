SPECIFICATION Spec
CONSTANTS
  TypeGraphs <- FormedGraphs
  Uses <- SomeUses
  MaxUses = 2
  MaxDepth = 12
  Double = double
  Half = half
  double = double
  half = half
  S = S
  T = T
  P = P
  Q = Q
  A = A
  F = F
  PF = PF
INVARIANTS
  TypeOK
  MetadataTellsUse
PROPERTY
  SearchEnds
CHECK_DEADLOCK FALSE
