SPECIFICATION FairToOne
CONSTANTS
  b1 = b1
  b2 = b2
  i1 = i1
  i2 = i2
  Bridges = {b1, b2}
  Ids = {i1, i2}
  IdChoices <- SameIdOrNot
  ResizeCap = 1
  NoBridge = NoBridge
  NoId = NoId
PROPERTIES
  BridgesEnd
CHECK_DEADLOCK FALSE
