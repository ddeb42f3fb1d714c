\* An endpoint URL is replaced by another one.
CONSTANTS
  w1 = w1
  w2 = w2
  o1 = o1
  o2 = o2
  c1 = c1
  c2 = c2
  Watchers = {w1, w2}
  Initial = {w1}
  Objects = {o1, o2}
  Clusters = {c1}
  ClusterOf <- OneCluster
  NoEntry = NoEntry
  Resyncs = FALSE
  MaxChanges = 1
  MaxPasses = 1
  MaxCancels = 1
  MaxEngageFaults = 0
  MaxLookupFaults = 0
SPECIFICATION Spec
INVARIANTS
  EngagedWhenQuiet
CHECK_DEADLOCK FALSE
