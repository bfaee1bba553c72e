CONSTANTS
  Ids = {p1}
  Texts = {t1}
  Blank = blank
  Links = {l1, l2}
  NoLink = nolink
  Runs = {r1}
  Pollers = {a}
  Clis = {c1}
  None = none
  MaxTaps = 1
  MaxCrashes = 1
SPECIFICATION FairSpec
INVARIANTS LinkHasToken
PROPERTIES TapIsHeeded
