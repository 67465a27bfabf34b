CONSTANTS
  IntMax = 1
  MaxStreams = 5
  MaxLive = 4
  MaxDepth = 2
  Undefined = Undefined
SPECIFICATION FairSpec
INVARIANTS TypeOK NumberNamesItsStream OnlyOpenToLibc HeldUnlessClosed ClosedByItsOwn NothingLost
PROPERTY Exits
CHECK_DEADLOCK FALSE
