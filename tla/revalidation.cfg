SPECIFICATION JobsSpec
CONSTANTS
  k1 = k1
  k2 = k2
  w1 = w1
  w2 = w2
  Keys = {k1}
  Workers = {w1}
  MaxAttempts = 2
  MaxRevision = 1
  MaxFaults = 0
  NoKey = NoKey
PROPERTIES
  RequestIsValidated
CHECK_DEADLOCK FALSE
