SPECIFICATION MCSpec
CONSTANTS
  NumRuns = 3
  s1 = s1
  Session = {s1}
  NoSession = NoSession
  LocalRun = {}
  EngineRun = {1}
  MaxListed = 2
  MayBeUnbound = FALSE
  MayRebind = FALSE
  MayReviveLive = FALSE
  a1 = a1
  a2 = a2
  r1 = r1
  r2 = r2
  NoLock = NoLock
  NoActor = NoActor
  Actor = {a1, a2}
  Slot = {r1, r2}
  Priority = {1, 2}
  Ttl = {1, 2}
  TouchTtl = 2
  MaxTime = 4
  LocalStore = TRUE
INVARIANT TypeOK
INVARIANT GrantIsLock
INVARIANT OneController
PROPERTY HandoverComplete
CHECK_DEADLOCK FALSE
