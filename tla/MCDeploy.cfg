CONSTANTS
  build1 = build1
  build2 = build2
  broken = broken
  stray = stray
  u1 = u1
  u2 = u2
  Gone = Gone
  Words = {"a", "b", "c", "x"}
  Fleets <- MCFleets
  Yamls <- MCYamls
  MaxCommands = 3
  MaxMinutes = 1560
  Updaters = {u1, u2}
  Builds = {build1, build2, broken, stray}
  Released = {build2, broken}
  Runs = {build1, build2, stray}
  First = build1
SPECIFICATION Spec
CHECK_DEADLOCK FALSE
INVARIANTS
  InstallIsExact
  TimersKeepTime
  UninstallSilences
  ProgramIsSafe
  GapIsAccounted
PROPERTIES
  NothingHalfInstalled
