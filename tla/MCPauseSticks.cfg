SPECIFICATION Spec
CONSTANTS
  NumRuns = 2
  s1 = s1
  Session = {s1}
  NoSession = NoSession
  LocalRun = {}
  EngineRun = {}
  MaxListed = 2
  MayBeUnbound = FALSE
  MayRebind = FALSE
  MayReviveLive = FALSE
PROPERTY PauseSticks
