SPECIFICATION Spec
CONSTANTS
  b1 = b1
  b2 = b2
  i1 = i1
  i2 = i2
  Bridges = {b1}
  Ids = {i1, i2}
  IdChoices <- AnyId
  ResizeCap = 1
  NoBridge = NoBridge
  NoId = NoId
INVARIANT
  NoSendOnClosed
CHECK_DEADLOCK FALSE
