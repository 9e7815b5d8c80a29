SPECIFICATION Spec
CONSTANTS
  OctetValues <- MCOctets
  WordValues <- MCWords
  LongValues <- MCLongs
  MitValues <- MCMit
INVARIANTS
  TypeOK
  ReadsBack
  OnlyReceivedBytes
  MitReachesTheArm
  EffectIsNamed
