CONSTANTS
  Threads = {t1, t2}
  NoThread = NoThread
  IntMax = 1
  MaxNodes = 5
  MaxLive = 3
  Shared = FALSE
SPECIFICATION FairSpec
INVARIANTS OwnersKeepTheirs CopiesIntoOwn OwnerGetsOwn
PROPERTY MutexComesBack
