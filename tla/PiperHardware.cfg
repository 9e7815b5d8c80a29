SPECIFICATION Spec
CONSTANTS
  Position = {zero, p}
  Zero = zero
  Stroke = {40}
  Invalid = Invalid
  Options <- MCOptions
  HealthTimeout = 1
  EnableTimeout = 0
  ZeroDuration = 1
  FeedbackTimeout = 0
INVARIANTS
  NoStaleCommand
  ExportsWidthOnly
PROPERTIES
  StreamsOnlyWhenActive
  InvalidSendsNothing
  StaleFeedbackStops
  ActivationEnds
