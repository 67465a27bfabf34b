CONSTANTS
  IntMax = 1
  MaxStreams = 2
  MaxLive = 2
  MaxDepth = 1
  Undefined = Undefined
  MaxRuns = 2
  MaxArgs = 2
  MaxText = 5
SPECIFICATION FairSpec
INVARIANTS TypeOK OnlyFirstLineGoes ServerHoldsTheShell
PROPERTIES ServerShieldsPipes Finishes
\* main ends, and a process that died does nothing more.
CHECK_DEADLOCK FALSE
