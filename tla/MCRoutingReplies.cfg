SPECIFICATION Spec
CONSTANTS
  a = a
  b = b
  d = d
  one = one
  ia = ia
  ib = ib
  id = id
  x = x
  y = y
  q1 = q1
  r1 = r1
  None = None
  Keys = {a, b, d}
  Conns = {s1, s2, s3}
  Scope <- MCScope
  IdOf <- MCIdOf
  Profiles <- MCProfiles
  Messages <- MCMessages
  Dests <- MCDests
  Prefix <- MCPrefix
  MaxSessions = 3
  MaxMailbox = 1
  MaxRecords = 3
  AskTimeout = 1
  RouteRetention = 0
  RecordRetention = 0
  AwayRetention = 1
  MailRetention = 0
  Quoted = {1}
  CanCrash = FALSE
  MaxTime = 0
  MaxSeq = 4
  MaxEpoch <- MCEpochs
SYMMETRY Sockets
CHECK_DEADLOCK FALSE
PROPERTY ReplyReachesAsker
