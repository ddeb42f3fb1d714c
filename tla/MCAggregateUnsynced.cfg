\* An endpoint disappears before its informer has synced.
CONSTANTS
  s1 = s1
  s2 = s2
  h1 = h1
  h2 = h2
  p1 = p1
  Shards = {s1, s2}
  Handlers = {h1}
  Pollers = {}
  Worker = Worker
  None = None
  Unsynced = TRUE
  MaxOps = 3
  MaxFaults = 0
  MaxSkips = 0
SPECIFICATION FairSpec
PROPERTIES
  WorkerReturns
CHECK_DEADLOCK FALSE
