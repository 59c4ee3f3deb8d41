CONSTANTS
  Agents = {a1, a2}
  Targets = {t1, t2, t3}
  Callers = {c1, c2}
  MaxTabs = 2
  NoAgent = NoAgent
  NoTarget = NoTarget
SPECIFICATION FairSpec
CHECK_DEADLOCK FALSE
INVARIANTS TypeOK CapOvershootBound NoLeakedTab
PROPERTIES LeaseIsExclusive AwaitsSettle
