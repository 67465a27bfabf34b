CONSTANTS
  MaxName = 2
  MaxLen = 3
  UintMax = 3
  MaxFds = 2
  DirSeeks = TRUE
SPECIFICATION Spec
INVARIANT CatGivesText
