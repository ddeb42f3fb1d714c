\* One endpoint; a path is used again, watches break, an engagement and a check fail.
CONSTANTS
  w1 = w1
  w2 = w2
  c1 = c1
  c2 = c2
  p1 = p1
  Watchers = {w1}
  Clusters = {c1, c2}
  Paths = {p1}
  Home <- OneShard
  PathOf <- OnePath
  Absent = Absent
  NoCluster = NoCluster
  MaxChanges = 4
  MaxBreaks = 1
  MaxFaults = 1
  MaxMissed = 1
SPECIFICATION FairSpec
INVARIANTS
  RegisteredPathsAreStored
PROPERTIES
  EventuallyResolved
CHECK_DEADLOCK FALSE
