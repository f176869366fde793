SPECIFICATION Spec
CONSTANTS
  a = a
  b = b
  one = one
  None = None
  Keys = {a, b}
  Conns = {s1, s2, s3}
  Scope <- MCScope
  Kinds <- Eligible
  Payloads <- Own
  Audiences = {}
  CanDie = FALSE
  MaxRev = 2
  MaxQueue = 1
SYMMETRY Sockets
CHECK_DEADLOCK FALSE
INVARIANT OwnersElected ViewsConverge
PROPERTY OwnershipStays NoLostUpdate
