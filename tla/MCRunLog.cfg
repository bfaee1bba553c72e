SPECIFICATION Spec
CONSTANTS
  Procs = {p1, p2, p3}
  Keep = 3
  Legacy = 2
  MaxRuns = 8
  Nobody = nobody
  NoFile = nofile
SYMMETRY Symmetric
INVARIANTS NewestKept MigrationKeeps NewestLast
PROPERTIES TrimsToKeep
CHECK_DEADLOCK FALSE
