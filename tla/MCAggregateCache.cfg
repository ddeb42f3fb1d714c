\* Shards come and go, handlers are added and polled, calls fail.
CONSTANTS
  s1 = s1
  s2 = s2
  h1 = h1
  h2 = h2
  p1 = p1
  Shards = {s1, s2}
  Handlers = {h1, h2}
  Pollers = {p1}
  Worker = Worker
  None = None
  Unsynced = FALSE
  MaxOps = 3
  MaxFaults = 1
  MaxSkips = 1
SPECIFICATION FairSpec
INVARIANTS
  TypeOK
  AllShardsRegistered
  NoStaleRegistration
  FailedHandlerUnregistered
PROPERTIES
  WorkerReturns
  UsersReturn
CHECK_DEADLOCK FALSE
