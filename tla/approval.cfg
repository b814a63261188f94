SPECIFICATION Spec
CONSTANTS
  c1 = c1
  c2 = c2
  m = m
  a = a
  sr = sr
  Users = {c1, m, a, sr}
  RoleOf <- WithSenior
  Requesters = {m}
  Finalizers = {}
  Tiers = {1, 2}
  Sources = {"UPLOAD"}
  Reasons = {"business"}
  Unavailable = {}
  PatchedStatuses = {"ON_HOLD"}
  MaxRevision = 2
  MaxSignatures = 4
  MaxReadings = 1
  NoOne = NoOne
INVARIANTS
  TypeOK
  ChainComplete
  InOrder
  StageCanMove
CHECK_DEADLOCK FALSE
