SPECIFICATION Spec
CONSTANTS
  i1 = i1
  i2 = i2
  p1 = p1
  p2 = p2
  v1 = v1
  r1 = r1
  r2 = r2
  Invoices = {i1}
  Payments = {p1, p2}
  Batches = {b1, b2}
  Users = {u1}
  Refs = {r1, r2}
  MaxRevision = 1
  MaxPaid = 120
  Charges = {20}
  Confirmations = {30, 60}
  LowThreshold = 50
  CfoThreshold = 60
  FlaggedInvoices = {}
  PatchedStatuses = {}
  Decisions = {"PROCEED", "KEEP"}
  NoBatch = NoBatch
  NoUser = NoUser
  NoRef = NoRef
  Owner <- BothForFirst
  Vendor <- OneVendor
  Amount <- SixtyThenForty
INVARIANTS
  CfoGate
PROPERTIES
  BatchControlled
CONSTRAINT
  ReissuedOrCorrected
CHECK_DEADLOCK FALSE
