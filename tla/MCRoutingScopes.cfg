SPECIFICATION Spec
CONSTANTS
  a = a
  b = b
  o = o
  one = one
  two = two
  ia = ia
  ib = ib
  pb = pb
  y = y
  m1 = m1
  q1 = q1
  None = None
  Keys = {a, b, o}
  Conns = {s1, s2, s3}
  Scope <- MCScope
  IdOf <- MCIdOf
  Profiles <- MCProfiles
  Messages <- MCMessages
  Dests <- MCDests
  Prefix <- MCPrefix
  MaxSessions = 3
  MaxMailbox = 1
  MaxRecords = 2
  AskTimeout = 0
  RouteRetention = 0
  RecordRetention = 0
  AwayRetention = 1
  MailRetention = 0
  Quoted = {1}
  CanCrash = TRUE
  MaxTime = 1
  MaxSeq = 4
  MaxEpoch <- MCEpochs
SYMMETRY Sockets
CHECK_DEADLOCK FALSE
INVARIANT Inv ScopesNeverMix AtMostOnce AskFilesTrackAsks
