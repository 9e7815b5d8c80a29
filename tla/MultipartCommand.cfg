SPECIFICATION MultipartSpec
CONSTANTS
  Thread = {t1, t2}
  Kind = {joints, pose}
  Target = {a, b}
  NoTarget = NoTarget
INVARIANTS
  TargetIsWhole
