\* Reads of two clusters from one store.
CONSTANTS
  c1 = c1
  c2 = c2
  a = a
  v = v
  k1 = k1
  k2 = k2
  f1 = f1
  f2 = f2
  Clusters = {c1, c2}
  Namespaces <- MCNamespaces
  Objects <- MCObjects
  Fields = {f1, f2}
  Values <- MCValues
  Star = Star
  AllNamespaces = AllNamespaces
  Empty = Empty
  Callers = {k1, k2}
  MaxEvents = 2
  MaxFaults = 1
SPECIFICATION Spec
INVARIANTS
  ReadsSeeOwnCluster
  IndexedOnce
  HandlersSeeOwnCluster
CHECK_DEADLOCK FALSE
