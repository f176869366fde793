SPECIFICATION Spec
CONSTANTS
  a = a
  b = b
  c = c
  one = one
  ia = ia
  ib = ib
  ic = ic
  q1 = q1
  q2 = q2
  q3 = q3
  r1 = r1
  None = None
  Keys = {a, b, c}
  Conns = {s1, s2, s3}
  Scope <- MCScope
  IdOf <- MCIdOf
  Profiles <- MCProfiles
  Messages <- MCMessages
  Dests <- MCDests
  Prefix <- MCPrefix
  MaxSessions = 3
  MaxMailbox = 1
  MaxRecords = 4
  AskTimeout = 0
  RouteRetention = 0
  RecordRetention = 0
  AwayRetention = 1
  MailRetention = 1
  Quoted = {}
  CanCrash = FALSE
  MaxTime = 1
  MaxSeq = 4
  MaxEpoch <- MCEpochs
SYMMETRY Sockets
CHECK_DEADLOCK FALSE
INVARIANT NoMutualAsk SessionsOwnSockets AskFilesTrackAsks
PROPERTY AskEndsByItsParties LeavesWithItsSocket
