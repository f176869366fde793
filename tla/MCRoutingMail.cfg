SPECIFICATION Spec
CONSTANTS
  a = a
  b = b
  d = d
  one = one
  other = other
  ia = ia
  ib = ib
  id = id
  x = x
  y = y
  m1 = m1
  m2 = m2
  None = None
  Keys = {a, b, d}
  Conns = {s1, s2, s3}
  Scope <- MCScope
  IdOf <- MCIdOf
  Profiles <- MCProfiles
  Messages <- MCMessages
  Dests <- MCDests
  Prefix <- MCPrefix
  MaxSessions = 2
  MaxMailbox = 1
  MaxRecords = 2
  AskTimeout = 0
  RouteRetention = 0
  RecordRetention = 0
  AwayRetention = 1
  MailRetention = 0
  Quoted = {}
  CanCrash = FALSE
  MaxTime = 1
  MaxSeq = 4
  MaxEpoch <- MCEpochs
SYMMETRY Sockets
CHECK_DEADLOCK FALSE
INVARIANT AtMostOnce RecordsTellTheTruth MailWaitsForTheAbsent TablesBounded
