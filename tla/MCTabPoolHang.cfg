CONSTANTS
  Agents = {a1, a2}
  Targets = {t1, t2}
  Callers = {c1, c2}
  MaxTabs = 1
  NoAgent = NoAgent
  NoTarget = NoTarget
SPECIFICATION FairSpec
PROPERTY ReleasesSettle
CHECK_DEADLOCK FALSE
