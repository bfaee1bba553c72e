SPECIFICATION FairSpec
CONSTANTS
  Procs = {p1, p2}
  Keys = {k1, k2}
  Worked = k1
  Beside = k2
  Items = {i}
  Item = i
  Scalars = {s}
  Scalar = s
  Absent = Absent
  None = None
  NoFile = NoFile
  Partial = Partial
  Inputs <- TwoKeys
  MaxLen = 2
INVARIANTS AnswersAreRecent
PROPERTIES KVSpec CallsEnd
CHECK_DEADLOCK FALSE
