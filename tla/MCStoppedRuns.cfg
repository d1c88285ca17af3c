SPECIFICATION FairSpec
CONSTANTS
  NumRuns = 2
  s1 = s1
  Session = {s1}
  NoSession = NoSession
  LocalRun = {1}
  EngineRun = {}
  MaxListed = 2
  MayBeUnbound = FALSE
  MayRebind = FALSE
  MayReviveLive = FALSE
INVARIANT TypeOK
INVARIANT OwnerActs
INVARIANT LeaseInv
INVARIANT LeaseExclusive
PROPERTY StopEndsExecution
