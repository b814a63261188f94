SPECIFICATION Spec
CONSTANTS
  s1 = s1
  s2 = s2
  a = a
  c = c
  r1 = r1
  r2 = r2
  r3 = r3
  v1 = v1
  v2 = v2
  h1 = h1
  h2 = h2
  None = None
  Supervisors = {s1, s2}
  Associates = {a}
  Coordinators = {c}
  Requests = {r1, r2, r3}
  MaxRequests = 2
  KindOf <- MCKindOf
  Values = {v1, v2}
  Handlers = {h1, h2}
  MaxVersions = 2
SYMMETRY SameRole
INVARIANTS
  TypeOK
  OnlyNewestActive
  TwoPersons
