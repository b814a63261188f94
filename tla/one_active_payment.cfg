SPECIFICATION Spec
CONSTANTS
  i1 = i1
  i2 = i2
  p1 = p1
  p2 = p2
  v1 = v1
  r1 = r1
  r2 = r2
  Invoices = {i1}
  Payments = {p1, p2}
  Batches = {b1}
  Users = {u1}
  Refs = {r1}
  MaxRevision = 0
  MaxPaid = 120
  Charges = {}
  Confirmations = {60}
  LowThreshold = 50
  CfoThreshold = 100
  FlaggedInvoices = {}
  PatchedStatuses = {}
  Decisions = {}
  NoBatch = NoBatch
  NoUser = NoUser
  NoRef = NoRef
  Owner <- BothForFirst
  Vendor <- OneVendor
  Amount <- Sixty
INVARIANTS
  OneActivePayment
CHECK_DEADLOCK FALSE
