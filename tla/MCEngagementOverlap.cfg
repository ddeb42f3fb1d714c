\* Two running endpoints that expose the same cluster.
CONSTANTS
  w1 = w1
  w2 = w2
  o1 = o1
  o2 = o2
  c1 = c1
  c2 = c2
  Watchers = {w1, w2}
  Initial = {w1, w2}
  Objects = {o1, o2}
  Clusters = {c1}
  ClusterOf <- OneCluster
  NoEntry = NoEntry
  Resyncs = FALSE
  MaxChanges = 2
  MaxPasses = 0
  MaxCancels = 0
  MaxEngageFaults = 0
  MaxLookupFaults = 1
SPECIFICATION Spec
INVARIANTS
  EngagedWhenQuiet
CHECK_DEADLOCK FALSE
