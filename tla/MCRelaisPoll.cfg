CONSTANTS
  N = 4
  Budget = 6
  MinPerRequest = 1
  MaxPerRequest = 3
  MaxErrors = 2
SPECIFICATION FairSpec
INVARIANTS OverrunIsOneClear ShareIsKept ReportIsTrue
PROPERTIES TapsAreApplied
CHECK_DEADLOCK FALSE
