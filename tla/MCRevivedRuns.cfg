SPECIFICATION Spec
CONSTANTS
  NumRuns = 2
  s1 = s1
  Session = {s1}
  NoSession = NoSession
  LocalRun = {1}
  EngineRun = {}
  MaxListed = 2
  MayBeUnbound = FALSE
  MayRebind = FALSE
  MayReviveLive = TRUE
PROPERTY UserWaitKeepsSession
