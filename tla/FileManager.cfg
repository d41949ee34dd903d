SPECIFICATION Spec
CONSTANTS
  File <- Files
  Dir <- Dirs
  Above <- Paths
  Object = {o1, o2}
  Descriptor = {1, 2, 3, 4}
  MaxEntries = 3
  None = None
  Unseen = Unseen
  Missing = Missing
  VirtualUnderMissing = FALSE
  InvalidateAliased = FALSE
SYMMETRY Objects
INVARIANTS
  TypeOK
  DescriptorsOwned
  NamesAgree
  VirtualAncestors
  FailuresAllowed
PROPERTIES
  EntriesKeepIdentity
  AnswersKept
