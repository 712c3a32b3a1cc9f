CONSTANTS
  AllowDiagonal = TRUE
  ObstacleWeight = 2
  Searches <- MCSearches
  Directories <- MCDirectories
  Calls <- MCCalls
  Requirements <- MCRequirements
  TransitionTicks <- MCTransitionTicks
  Significant <- MCSignificant
  Decimal <- MCDecimal
  MostCalls = 2
SPECIFICATION MCSpec
CHECK_DEADLOCK FALSE
INVARIANTS
  SearchAnswers
  BundleSound
  AnswersFresh
  RoutesBest
  KeepsTimetable
  ResourcesHeld
  CheckpointsTrue
