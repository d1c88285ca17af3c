SPECIFICATION FairSpec
CONSTANTS
  w1 = w1
  w2 = w2
  s1 = s1
  NoTime = NoTime
  NoWorker = NoWorker
  Worker = {w1, w2}
  Schedule = {s1}
  Period = 2
  ClaimTtl = 3
  MaxTime = 5
  Punctual = TRUE
  MayFail = TRUE
  MayCrash = TRUE
  MayDelete = TRUE
INVARIANT TypeOK
INVARIANT ClaimedAlone
INVARIANT ClaimStands
INVARIANT FiresOnce
PROPERTY DueIsClaimed
CHECK_DEADLOCK FALSE
