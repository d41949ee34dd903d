SPECIFICATION Spec
CONSTANTS
  Base <- Bases
  Macro = {}
  Expansion <- Expansions
  File <- ShortFile
  Streams <- Stored
  MaxPeek = 0
  MaxMarks = 1
  MaxText = 4
  MaxCached = 2
  StreamsWhileCaching = TRUE
  None = None
  two = two
  none = none
PROPERTIES
  LookAheadIsNext
