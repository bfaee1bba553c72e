CONSTANTS
  Ids = {p1, p2}
  Texts = {t}
  T = t
  P = p1
  Blank = blank
  Links = {l1}
  NoLink = nolink
  Procs = {w, v}
  Inodes = {i1, i2, i3, i4}
  NoFile = nofile
  Torn = torn
  Scrap = scrap
  Idle = idle
  MaxLines = 2
  Inputs <- LifeInputs
  Faults <- LifeFaults
SPECIFICATION Spec
SYMMETRY Symmetric
INVARIANTS NoDuplicates AnsweredTookEffect RowsAreWhole
PROPERTIES QueueSpec
CHECK_DEADLOCK FALSE
