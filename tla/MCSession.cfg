SPECIFICATION PartsSpec
CONSTANTS
  Attempts = {t1, t2}
  Unset = Unset
  MaxGen = 4
  a1 = a1
  a2 = a2
  p1 = p1
  x = x
  y = y
  Mail = {a1, a2, p1}
  Plain = {p1}
  From <- MCFrom
  NoMail = none
  AskTimeout = 0
  Retention = 0
  SeenMax = 2
  MaxNow = 1
  MaxQueue = 2
  Requests = {r1, r2}
  RequestIds = {i1, i2}
  Relays = {l1}
  NoRequest = none
  Confirms = TRUE
  ReusedLater = FALSE
  MaxRuntime = 3
  s1 = s1
  s2 = s2
  w1 = w1
  w2 = w2
  Watchers = {s1, s2}
  Watches = {w1, w2}
  Asker <- MCAsker
  Watched <- MCWatched
  MaxOut = 1
  MaxIn = 1
  MaxSocket = 2
  MaxEvents = 6
  MaxBranch = 1
  MaxPage = 3
  own1 = own1
  own2 = own2
  got = got
  Items = {own1, own2, got}
  Received = {got}
  Size <- MCSize
  RecordSize = 1
  MaxBytes = 4
  NoItem = none
  MaxCrash = 2
  Payloads = {p}
  Invalid = Invalid
  None = None
  Absent = Absent
  Torn = Torn
  SyncWorks = TRUE
  PowerCuts = TRUE
  MaxDamage = 1
  MaxRev = 3
CHECK_DEADLOCK FALSE
INVARIANT OpenIsOwned OneAttempt NotForgotten SettledAskIsGone ResultsAreOwn NoTargetIsCutOff ReadersMissNothing EvidenceFits OneFaultOneLoss
PROPERTY KeepsItsPromise
