SPECIFICATION Spec
CONSTANTS
  Position = {zero, p}
  Zero = zero
  Stroke = {40}
  Invalid = Invalid
  Options <- MCHomed
  HealthTimeout = 1
  EnableTimeout = 0
  ZeroDuration = 1
  FeedbackTimeout = 0
INVARIANT
  SeedIsPostZero
