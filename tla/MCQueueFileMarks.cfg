CONSTANTS
  Ids = {p1}
  Texts = {t}
  T = t
  P = p1
  Blank = blank
  Links = {l1}
  NoLink = nolink
  Procs = {w, v}
  Inodes = {i1, i2, i3, i4}
  NoFile = nofile
  Torn = torn
  Scrap = scrap
  Idle = idle
  MaxLines = 2
  Inputs <- MarkInputs
  Faults <- NoFaults
SPECIFICATION Spec
PROPERTIES MarksStay
CHECK_DEADLOCK FALSE
