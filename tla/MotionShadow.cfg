SPECIFICATION Spec
CONSTANTS
  Caller = {t1, t2}
  Request <- MCRequest
INVARIANTS
  ShadowIsWhatTheArmHeard
  RefusedForOwnRequestOnly
PROPERTY
  SettersAreAtomic
