SPECIFICATION FairSpec
CONSTANTS
  a = a
  b = b
  one = one
  None = None
  Keys = {a, b}
  Conns = {s1, s2}
  Scope <- MCScope
  Kinds <- Either
  Payloads <- Nobody
  Audiences = {"owner", "capable"}
  CanDie = TRUE
  MaxRev = 0
  MaxQueue = 1
CHECK_DEADLOCK FALSE
INVARIANT EventsNameTheOwner
PROPERTY OwnerBecomesKnown
