\* The recorder manager.
CONSTANTS
  k1 = k1
  k2 = k2
  e1 = e1
  e2 = e2
  c1 = c1
  c2 = c2
  Clusters = {c1, c2}
  Callers = {k1, k2}
  Emitters = {e1, e2}
  None = None
  MaxProviders = 2
  MaxEmits = 2
SPECIFICATION FairSpec
INVARIANTS
  TypeOK
  NoEventAfterShutdown
  MapHoldsTheUnstopped
PROPERTIES
  StopsOnce
  EverythingReturns
  StopHonoursContext
CHECK_DEADLOCK FALSE
