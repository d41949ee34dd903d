SPECIFICATION Spec
CONSTANTS
  Warnings = {w, v}
  Groups <- OneOrBoth
  CommandLines <- ThreeCommandLines
  Options <- SomeOptions
  MaxPragmas = 4
  MaxEvents = 4
  None = None
  w = w
  v = v
INVARIANTS
  TypeOK
  ErrorsAccounted
PROPERTIES
  ImplementsScopes
  ShownInContext
CHECK_DEADLOCK FALSE
