CONSTANTS
  p1 = p1
  p2 = p2
  p3 = p3
  Pages = {p1, p2}
  Sockets <- MCSockets
  MaxActs = 3
  MaxJobs = 2
  NoPage = NoPage
  NoSocket = NoSocket
SPECIFICATION ViewerSpec
CHECK_DEADLOCK FALSE
SYMMETRY Symmetry
INVARIANTS NoButtonLeftDown
