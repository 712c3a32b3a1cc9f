CONSTANT Missions <- RegionMissions
SPECIFICATION Spec
INVARIANT RegionHoldsOne
