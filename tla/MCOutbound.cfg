SPECIFICATION OutboundSpec
CONSTANTS
  Procs = {p1, p2}
  Second = 2
  Minute = 2
  Hour = 4
  Day = 12
  Retain = 13
  PerDay = 2
  PerHour = 1
  QuietStart = 5
  QuietEnd = 1
  MaxSend = 2
  LastTick = 15
SYMMETRY Symmetric
INVARIANTS PruningIsInvisible BudgetHolds
PROPERTIES QuietIsQuiet
CHECK_DEADLOCK FALSE
