CONSTANTS
  a1 = a1
  a2 = a2
  c1 = c1
  c2 = c2
  Agents = {a1, a2}
  Targets = {t1, t2}
  Callers = {k1}
  MaxTabs = 1
  NoAgent = NoAgent
  NoTarget = NoTarget
  Clients = {c1}
  Nobody = Nobody
  AgentOf <- Solo
  MaxSessions = 1
  Commands = {"setAutoAttach", "createTarget", "closeTarget"}
  Backlog = FALSE
  Discover = FALSE
  SlowChrome = FALSE
SPECIFICATION Spec
CHECK_DEADLOCK FALSE
SYMMETRY Symmetry
INVARIANTS CreatorSeesItsPage
PROPERTIES PoolRefined
