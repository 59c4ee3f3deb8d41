CONSTANTS
  i1 = i1
  i2 = i2
  Ids = {i1}
  Sups = {s1, s2, s3}
  Requests = {r1, r2}
  MaxKills = 1
  Matches <- Apart
  Overlap = FALSE
  NoSup = NoSup
  NoId = NoId
SPECIFICATION FairSpec
CHECK_DEADLOCK FALSE
PROPERTIES StopsEnd
