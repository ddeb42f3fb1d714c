\* Two endpoints: a path moves from one shard to another.
CONSTANTS
  w1 = w1
  w2 = w2
  c1 = c1
  c2 = c2
  p1 = p1
  Watchers = {w1, w2}
  Clusters = {c1, c2}
  Paths = {p1}
  Home <- TwoShards
  PathOf <- OnePath
  Absent = Absent
  NoCluster = NoCluster
  MaxChanges = 2
  MaxBreaks = 0
  MaxFaults = 0
  MaxMissed = 0
SPECIFICATION Spec
INVARIANTS
  RegisteredPathsAreStored
CHECK_DEADLOCK FALSE
