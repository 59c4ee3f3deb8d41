CONSTANTS
  t1 = t1
  t2 = t2
  c1 = c1
  c2 = c2
  Tabs = {t1, t2}
  Calls = {c1, c2}
  Sizes <- MCSizes
  Bars <- MCBars
  Floor = 3
  MinOuter = 6
  Fit = 5
  Opening = 8
  MaxBars = 0
  MaxSaves = 0
  Unread = Unread
  None = None
SPECIFICATION Spec
CHECK_DEADLOCK FALSE
INVARIANTS DraftIsOfTab
