SPECIFICATION Spec
CONSTANTS
  Adapters = 3
  GivenPrefixes = {"can", "cantmp"}
  MaxCalls = 2
  MaxChanges = 2
INVARIANTS
  TypeOK
  EveryAdapterInItsPlace
PROPERTY
  ActsOnOwnAdapter
CHECK_DEADLOCK FALSE
