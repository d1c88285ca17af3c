SPECIFICATION Spec
CONSTANTS
  r1 = r1
  r2 = r2
  k1 = k1
  k2 = k2
  Run = {r1}
  Client = {k1}
  MaxExec = 3
  MaxLog = 5
  MayRestart = TRUE
  NoRun = NoRun
  NoEvent = NoEvent
CHECK_DEADLOCK FALSE
INVARIANT TypeOK
INVARIANT RunningIsDriven
INVARIANT EndIsAnnounced
