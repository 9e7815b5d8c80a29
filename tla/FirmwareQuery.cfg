SPECIFICATION Spec
CONSTANTS
  Caller = {c1, c2}
  Version = {v1, v2}
  NoVersion = NoVersion
  MaxBytes = 14
  MaxComing = 4
SYMMETRY Symmetry
INVARIANTS
  TypeOK
  TagIsTheAnswer
