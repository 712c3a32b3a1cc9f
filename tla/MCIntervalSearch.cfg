CONSTANTS
  Jobs <- MCJobs
  r1 = r1
  r2 = r2
  door = door
  lift = lift
  NoName = NoName
  Robots <- MCRobots
  Resources <- MCResources
  Clock <- MCClock
SYMMETRY SymmetricIds
SPECIFICATION EitherSpec
INVARIANTS
  IntervalsExact
  ScheduleLegal
  EarliestOrNone
  ArriveOnce
  TypeOK
  Exclusive
  SingleSlot
PROPERTY ImplementsCalendar
