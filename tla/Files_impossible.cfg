CONSTANTS
  IntMax = 1
  MaxStreams = 3
  MaxLive = 3
  MaxDepth = 1
  Undefined = Undefined
SPECIFICATION Spec
INVARIANT HandleHasType
CHECK_DEADLOCK FALSE
