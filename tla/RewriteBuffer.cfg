SPECIFICATION Spec
CONSTANTS
  WidthFactor = 2
  Originals <- Texts
  Strings <- Inserted
  Offsets <- AllOffsets
  Newline = "nl"
  Blank = "sp"
  MaxEdits <- EditsOf
  Light <- OnlyOnce
  InsertsAtEnds = FALSE
  MovedLines = FALSE
INVARIANTS
  TypeOK
  TreeVerified
  OffsetsMapped
  RangesRead
PROPERTIES
  ImplementsAnchoredText
CHECK_DEADLOCK FALSE
