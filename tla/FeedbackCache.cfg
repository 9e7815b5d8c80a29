SPECIFICATION Spec
CONSTANTS
  p1 = p1
  p2 = p2
  l1 = l1
  Part <- MCPart
  Val <- MCVal
  Limited = {l1}
  LimitOf <- MCLimitOf
  DefaultLimits <- MCDefault
  NewRange <- MCNewRange
  NoValue = NoValue
  NoPart = NoPart
  NoLimit = NoLimit
  HealthTimeout = 1
  RxCapacity = 1
  MaxTime = 4
INVARIANTS
  HealthyIsRecent
  RateWithinSession
  ClampedByARangeInForce
PROPERTY
  StoresOnePart
CHECK_DEADLOCK FALSE
