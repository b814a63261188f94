SPECIFICATION Spec
CONSTANTS
  i1 = i1
  i2 = i2
  m1 = m1
  m2 = m2
  f1 = f1
  f2 = f2
  Intakes = {i1, i2}
  Inbox = {}
  Mails = {}
  Files = {f1}
  FileOf <- MCFileOf
  Parts <- MCParts
  Requests = {q1}
  Controllers = {}
  Recoveries = {r1}
  Poller = poller
  None = None
  RecoveryLimit = 1
  MaxRetries = 1
  MaxDeliveries = 2
  MaxFaults = 0
PROPERTIES
  EveryUploadIsSettled
CHECK_DEADLOCK FALSE
