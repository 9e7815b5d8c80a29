SPECIFICATION Spec
CONSTANTS
  State = {joints}
  Health = health
  Ignored = ignored
  JudgeOptions = {FALSE}
  StartOptions = {TRUE}
  RxCapacity = 1
  MaxSessions = 2
INVARIANT
  ConnectedMeansReading
