SPECIFICATION Spec
CONSTANTS
  File <- Files
  Dir <- Dirs
  Above <- Paths
  Object = {o1, o2}
  Descriptor = {1, 2, 3, 4}
  MaxEntries = 3
  None = None
  Unseen = Unseen
  Missing = Missing
  VirtualUnderMissing = TRUE
  InvalidateAliased = FALSE
PROPERTY
  VirtualFileHasDirectory
