SPECIFICATION PartsSpec
CONSTANTS
  NoCall = none
  Calls = {call1, call2}
  MessageIds = {m1, m2}
  Probe = probe
  Overlaps = FALSE
  Asks = {a1, a2}
  NoAsk = none
  InOrder = TRUE
  Remotes = {s}
  MaxNode = 3
CHECK_DEADLOCK FALSE
INVARIANT NothingIsForgotten SlotIsLive TakenIsReturned RosterIsOneToOne
PROPERTY NobodyWaitsForever EveryAskReturns RunningAreListed
