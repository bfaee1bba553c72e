CONSTANTS
  Ids = {p1}
  Texts = {t1, t2}
  Blank = blank
  Links = {l1, l2}
  NoLink = nolink
  Runs = {r1}
  Pollers = {a, b}
  Clis = {}
  None = none
  MaxTaps = 2
  MaxCrashes = 1
SPECIFICATION Spec
SYMMETRY Symmetry
INVARIANTS ApprovedTextWasShown
