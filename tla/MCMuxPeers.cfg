CONSTANTS
  a1 = a1
  a2 = a2
  c1 = c1
  c2 = c2
  Agents = {a1, a2}
  Targets = {t1, t2}
  Callers = {k1}
  MaxTabs = 2
  NoAgent = NoAgent
  NoTarget = NoTarget
  Clients = {c1, c2}
  Nobody = Nobody
  AgentOf <- Peers
  MaxSessions = 1
  Commands = {"setAutoAttach"}
  Backlog = FALSE
  Discover = FALSE
  SlowChrome = FALSE
SPECIFICATION Spec
CHECK_DEADLOCK FALSE
SYMMETRY PeersSymmetry
INVARIANTS SessionAffinity FamilyAffinity TableAccurate
PROPERTIES ReplayIsComplete
