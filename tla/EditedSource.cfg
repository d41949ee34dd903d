SPECIFICATION Spec
CONSTANTS
  Original <- ThreeTokens
  ArgAt <- TwoArguments
  MaxCalls <- OneThenTwo
  MaxCommits = 2
  None = None
  p = p
  q = q
INVARIANTS
  TypeOK
  CheckedStillHolds
  EditsDisjoint
  RewritesGiveText
PROPERTY
  ImplementsEditedText
CHECK_DEADLOCK FALSE
