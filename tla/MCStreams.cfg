SPECIFICATION MCFairSpec
CONSTANTS
  c1 = c1
  Client = {c1}
  Resuming = {c1}
  MaxEvent = 3
  Limit = 2
  LocalStore = FALSE
  MayFail = TRUE
  MayRestart = TRUE
  r1 = r1
  k1 = k1
  k2 = k2
  Run = {r1}
  Reader = {k1, k2}
  MaxExec = 2
  MaxLog = 2
  NoRun = NoRun
  NoRecord = NoRecord
  Doc = {"d1"}
  Writer = {"w1", "w2"}
  NoDoc = NoDoc
  MaxWrite = 4
INVARIANT TypeOK
INVARIANT ToldOnce
INVARIANT OwedIsTold
INVARIANT RowsAreKept
PROPERTY ImplementsEventFeed
PROPERTY EndIsTold
CHECK_DEADLOCK FALSE
