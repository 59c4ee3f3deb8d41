CONSTANTS
  p1 = p1
  p2 = p2
  p3 = p3
  here = here
  Pids = {p1, p2, p3}
  HostOf <- Three
  MaxKills = 4
  NoPid = NoPid
SPECIFICATION Spec
CHECK_DEADLOCK FALSE
INVARIANTS HolderHasFile
PROPERTIES LockRefined
