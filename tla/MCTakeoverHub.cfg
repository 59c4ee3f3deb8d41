CONSTANTS
  Viewers = {v1, v2}
  Pages = {p1, p2}
  MaxSessions = 3
  MaxQueue = 2
  NoPage = NoPage
  NoViewer = NoViewer
SPECIFICATION Spec
CHECK_DEADLOCK FALSE
SYMMETRY Symmetry
INVARIANTS NoLeakedSession CastFollowsViewers JoinersArePainted NoFrozenFrame
