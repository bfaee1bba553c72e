CONSTANTS
  p1 = p1
  p2 = p2
  p3 = p3
  p4 = p4
  Pubs = {p1, p2, p3, p4}
  Private = {p1}
  Cap = 1
  Window = 2
  Delays <- MCDelays
  Elapsed <- MCElapsed
  Slack = 1
  TimeLeft = {3}
  Never = Never
  LastBegin = 1
  MaxTime = 5
SPECIFICATION Spec
SYMMETRY MCSymmetry
CHECK_DEADLOCK FALSE
INVARIANTS
  NeverDiesWaiting
  OutcomeIsTrue
  EarlyIsRight
