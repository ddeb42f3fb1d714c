\* The endpoint reconciliation: safety and liveness.
CONSTANTS
  u1 = u1
  u2 = u2
  URLs = {u1, u2}
  UrlLists <- MCUrlLists
  NoSlice = NoSlice
  Malformed = Malformed
  NoURL = NoURL
  MaxChanges = 2
  MaxFaults = 1
SPECIFICATION FairSpec
INVARIANTS
  TypeOK
  NoLostUpdate
  NoOrphanWatcher
  AggregateMatchesWatched
PROPERTIES
  KeepsListedEndpoints
  ServesTheSlice
  EventuallyReconciled
  ShutdownEndsWorker
CHECK_DEADLOCK FALSE
