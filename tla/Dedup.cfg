SPECIFICATION DedupFairSpec
CONSTANTS
  s1 = s1
  s2 = s2
  s3 = s3
  i1 = i1
  i2 = i2
  Sends <- ThreeSends
  Ids <- TwoIds
  TTL = 2
  MaxNow = 4
INVARIANTS AnswerIsNewest
PROPERTIES NoSequentialRerun
CHECK_DEADLOCK FALSE
