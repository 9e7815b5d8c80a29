SPECIFICATION Spec
CONSTANTS
  NumMotors = 2
  Timeout = 2
  RetryInterval = 1
  NoLimit = NoLimit
  MaxCalls = 1
  MaxTime = 2
INVARIANTS
  SuccessIsComplete
  FailureHasReason
PROPERTY
  WaitReturns
CHECK_DEADLOCK FALSE
