SPECIFICATION Spec
CONSTANTS
  r1 = r1
  r2 = r2
  k1 = k1
  k2 = k2
  Run = {r1}
  Client = {k1, k2}
  MaxExec = 3
  MaxLog = 4
  MayRestart = FALSE
  NoRun = NoRun
  NoEvent = NoEvent
CHECK_DEADLOCK FALSE
INVARIANT OneActiveExecution
