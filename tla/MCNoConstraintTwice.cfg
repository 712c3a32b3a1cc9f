CONSTANT Missions <- ParkedMissions
SPECIFICATION Spec
INVARIANT NoConstraintTwice
