SPECIFICATION MCSpec
CONSTANTS
  Asks = {a1, a2}
  NoAsk = none
  InOrder = TRUE
CHECK_DEADLOCK FALSE
INVARIANT FailsForItsOwnReasons
