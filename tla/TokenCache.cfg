SPECIFICATION Spec
CONSTANTS
  Base <- Bases
  Macro <- Macros
  Expansion <- Expansions
  File <- MainFile
  Streams <- Stored
  MaxPeek = 1
  MaxMarks = 2
  MaxText = 5
  MaxCached = 3
  StreamsWhileCaching = FALSE
  None = None
  two = two
  none = none
INVARIANTS
  TypeOK
  MarksBehindCursor
  CachingOnTopOnly
  NothingCachedOutside
PROPERTIES
  LookAheadIsNext
  ImplementsTape
