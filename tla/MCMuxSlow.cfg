CONSTANTS
  a1 = a1
  a2 = a2
  c1 = c1
  c2 = c2
  Agents = {a1}
  Targets = {t1}
  Callers = {k1}
  MaxTabs = 1
  NoAgent = NoAgent
  NoTarget = NoTarget
  Clients = {c1}
  Nobody = Nobody
  AgentOf <- Solo
  MaxSessions = 1
  Commands = {"setAutoAttach", "createTarget", "closeTarget", "attachToTarget", "detachFromTarget"}
  Backlog = TRUE
  Discover = TRUE
  SlowChrome = TRUE
SPECIFICATION FairSpec
CHECK_DEADLOCK FALSE
PROPERTIES QueueMoves
INVARIANTS SuppressionIsTransient
