CONSTANTS
  Threads = {t1, t2}
  NoThread = NoThread
  IntMax = 1
  MaxNodes = 5
  MaxLive = 2
  Shared = TRUE
SYMMETRY Symm
SPECIFICATION Spec
INVARIANTS TypeOK UniqueIds FreesLinked
PROPERTY IsAtomic
