CONSTANTS
  IntMax = 1
  MaxRuns = 4
SPECIFICATION FairSpec
INVARIANTS TypeOK RecordOutlivesThread JoinsOnce NoneOutlives
PROPERTIES RunDoneReturns SecondServerDies
CHECK_DEADLOCK FALSE
