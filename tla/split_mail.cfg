SPECIFICATION Spec
CONSTANTS
  i1 = i1
  i2 = i2
  m1 = m1
  m2 = m2
  f1 = f1
  f2 = f2
  Intakes = {}
  Inbox = {}
  Mails = {m2}
  Files = {f1, f2}
  FileOf <- MCFileOf
  Parts <- MCParts
  Requests = {}
  Controllers = {c1}
  Recoveries = {}
  Poller = poller
  None = None
  RecoveryLimit = 1
  MaxRetries = 1
  MaxDeliveries = 1
  MaxFaults = 0
INVARIANTS
  NewestCopyStands
CHECK_DEADLOCK FALSE
