SPECIFICATION Spec
CONSTANTS
  State = {joints, gripper}
  Health = health
  Ignored = ignored
  JudgeOptions = {TRUE, FALSE}
  StartOptions = {TRUE, FALSE}
  RxCapacity = 2
  MaxSessions = 3
INVARIANTS
  OnlyThisSession
  NoSocketRace
  ThreadSlotIsFree
  NoDescriptorLeak
  InterruptMeansStop
  StraysOnlyAcrossClose
PROPERTIES
  DisconnectReturns
  DeadSocketIsClosed
