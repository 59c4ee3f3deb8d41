\* One client that is mitigated and one that is not.
CONSTANTS
  c1 = c1
  c2 = c2
  Clients = {c1, c2}
  Compat = {c2}
  Sends <- MCSends
SPECIFICATION FairSpec
INVARIANT AnswersMatch
PROPERTY OrderKept
PROPERTY EveryCommandIsAnswered
CHECK_DEADLOCK FALSE
