\* Endpoints come and go, engagement fails once, informers resync.
CONSTANTS
  w1 = w1
  w2 = w2
  o1 = o1
  o2 = o2
  c1 = c1
  c2 = c2
  Watchers = {w1, w2}
  Initial = {w1}
  Objects = {o1}
  Clusters = {c1}
  ClusterOf <- OneObject
  NoEntry = NoEntry
  Resyncs = TRUE
  MaxChanges = 2
  MaxPasses = 1
  MaxCancels = 1
  MaxEngageFaults = 1
  MaxLookupFaults = 0
SPECIFICATION FairSpec
INVARIANTS
  TypeOK
  NoGhostCluster
  RecordersFollowClusters
  HooksMatchEndpoints
PROPERTIES
  EventuallyEngaged
  EventuallyDisengaged
CHECK_DEADLOCK FALSE
