CONSTANTS
  t1 = t1
  t2 = t2
  c1 = c1
  c2 = c2
  Tabs = {t1, t2}
  Calls = {c1, c2}
  Sizes <- MCSizes
  Bars <- MCBars
  Floor = 3
  MinOuter = 6
  Fit = 5
  Opening = 8
  MaxBars = 1
  MaxSaves = 1
  Unread = Unread
  None = None
SPECIFICATION Spec
SYMMETRY Symmetry
CHECK_DEADLOCK FALSE
INVARIANTS ResizeLands LeasesAreReported FieldsFollowTab
