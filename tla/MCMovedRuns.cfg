SPECIFICATION Spec
CONSTANTS
  NumRuns = 2
  s1 = s1
  s2 = s2
  Session = {s1, s2}
  NoSession = NoSession
  LocalRun = {}
  EngineRun = {2}
  MaxListed = 2
  MayBeUnbound = TRUE
  MayRebind = TRUE
  MayReviveLive = FALSE
PROPERTY HandoverComplete
SYMMETRY SessionSymmetry
