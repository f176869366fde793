SPECIFICATION LinkSpec
CONSTANTS
  Attempts = {a1, a2}
  Unset = Unset
  MaxGen = 1
SYMMETRY AnyAttempt
CHECK_DEADLOCK FALSE
PROPERTY FailureQueuesRetry
