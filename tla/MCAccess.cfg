CONSTANTS
  p1 = p1
  browser = browser
  script = script
  k1 = k1
  k2 = k2
  Tokens = {k1, k2}
  Screens = {p1}
  Addresses = {browser, script}
  Browser = browser
  Window = 3
  Second = 2
  MaxFailures = 2
  MaxTracked = 1
  Edits = 1
  Absent = Absent
SPECIFICATION AccessFairSpec
CHECK_DEADLOCK FALSE
INVARIANTS WindowBound RetryAfterIsHonest PrintedTokenLasts
PROPERTIES GateFollowsCookie
