SPECIFICATION FairSpec
CONSTANTS
  Clients = {c1, c2}
  Brokers = {b1, b2}
  None = None
  Gone = Gone
  MaxRetries = 2
  MaxMishaps = 2
CHECK_DEADLOCK FALSE
INVARIANT  LockIsTended
PROPERTY SettledStays Reconnects
