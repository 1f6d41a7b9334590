SPECIFICATION Spec
CONSTANTS
  b1 = b1
  b2 = b2
  i1 = i1
  i2 = i2
  Bridges = {b1, b2}
  Ids = {i1, i2}
  IdChoices <- AnyIds
  ResizeCap = 1
  NoBridge = NoBridge
  NoId = NoId
SYMMETRY Symmetric
INVARIANTS
  TypeOK
  ActiveIsTracked
  ReturnedHoldsNothing
PROPERTIES
  OneEndsNoOther
CHECK_DEADLOCK FALSE
