SPECIFICATION Spec
CONSTANTS
  a = a
  b = b
  one = one
  ia = ia
  ib = ib
  x = x
  y = y
  m1 = m1
  None = None
  Keys = {a, b}
  Conns = {s1, s2}
  Scope <- MCScope
  IdOf <- MCIdOf
  Profiles <- MCProfiles
  Messages <- MCMessages
  Dests <- MCDests
  Prefix <- MCPrefix
  MaxSessions = 2
  MaxMailbox = 1
  MaxRecords = 2
  AskTimeout = 0
  RouteRetention = 0
  RecordRetention = 0
  AwayRetention = 0
  MailRetention = 0
  Quoted = {}
  CanCrash = FALSE
  MaxTime = 0
  MaxSeq = 2
  MaxEpoch <- MCEpochs
SYMMETRY Sockets
CHECK_DEADLOCK FALSE
INVARIANT NoMailToSender
