SPECIFICATION MCFairSpec
CONSTANTS
  a = a
  b = b
  c = c
  c1 = c1
  c2 = c2
  d1 = d1
  t1 = t1
  v1 = v1
  x1 = x1
  x2 = x2
  NoSocket = NoSocket
  Device = {d1}
  Socket = {a, b}
  Command = {c1, c2}
  Tab = {t1}
  VoiceEndpoint = {a, b}
  Pump = {x1, x2}
  Name = {c1}
  NoPump = NoPump
  NoKey = NoKey
  NoEndpoint = NoEndpoint
  Source = {a, b}
  Watcher = {d1}
  Viewer = {v1}
  Object = {a, b, c}
  MaxFrame = 2
  NoSource = NoSource
  NoObject = NoObject
  Proc = {a, b}
  Call = {c1, c2}
  NoProc = NoProc
  NoCall = NoCall
  MaxBoot = 3
  MaxBrowser = 2
INVARIANT TypeOK
INVARIANT CommandsAreReachable
INVARIANT VoiceIsStoppable
INVARIANT WatchersAreServed
INVARIANT WorkersAreKnown
PROPERTY OwedIsSettled
CHECK_DEADLOCK FALSE
