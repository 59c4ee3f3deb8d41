CONSTANTS
  t1 = t1
  t2 = t2
  Tabs = {t1}
  MaxLists = 2
  MaxCalls = 1
  MaxShots = 2
  Poll = Poll
  None = None
SPECIFICATION FairSpec
CHECK_DEADLOCK FALSE
INVARIANTS NoStackedSessions
PROPERTIES ListConverges PicturesMoveForward
