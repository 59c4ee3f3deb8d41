CONSTANTS
  Agents = {a1, a2}
  Targets = {t1, t2}
  Callers = {c1, c2}
  MaxTabs = 1
  NoAgent = NoAgent
  NoTarget = NoTarget
SPECIFICATION Spec
INVARIANT NoStrandedTab
CHECK_DEADLOCK FALSE
