SPECIFICATION MCSpec
CONSTANTS
  c1 = c1
  c2 = c2
  c3 = c3
  Callers = {c1, c2, c3}
  KindsOf <- MCKindsOf
  None = None
  MaxConcurrent = 1
  FailureThreshold = 2
  l1 = l1
  s1 = s1
  s2 = s2
  Lookups = {l1}
  Scanners = {s1, s2}
  Wanted = {2}
  Absent = Absent
  TTL = 2
  WindowBefore = 0
  WindowAfter = 1
  MaxOrders = 3
  MaxTime = 2
  MaxRestarts = 1
INVARIANTS
  TypeOK
  NoSlotIsLost
  CacheTypeOK
  CacheIsWhole
  PODataAge
PROPERTIES
  EveryCallReturns
  FlightEnds
CHECK_DEADLOCK FALSE
