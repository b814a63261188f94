SPECIFICATION Spec
CONSTANTS
  d1 = d1
  d2 = d2
  n1 = n1
  None = None
  Docs = {d1, d2}
  Names = {n1}
  NameOf <- MCNameOf
  MaxRetries = 1
  MaxFaults = 1
INVARIANTS
  TypeOK
  RunsBounded
PROPERTIES
  DocumentsKept
  UploadAnswered
  StalePathHealed
CHECK_DEADLOCK FALSE
