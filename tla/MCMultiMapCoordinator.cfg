CONSTANT Missions <- MCMissions
SPECIFICATION Spec
INVARIANTS
  DecidedNeverMeet
  HorizonSuffices
  CheapestAgreed
  ConstraintsKept
PROPERTIES
  ImplementsContract
  Terminates
