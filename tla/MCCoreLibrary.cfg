CONSTANTS
  Missions <- MCMissions
SPECIFICATION MCSpec
CHECK_DEADLOCK FALSE
INVARIANTS
  ShortestOrNone
  ClosedSettled
  AnswersAsLowLevel
  TasksServed
  NothingToGain
  SchedulesServe
  SchedulesCheapest
PROPERTY Terminates
