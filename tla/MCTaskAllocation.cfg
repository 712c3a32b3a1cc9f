SPECIFICATION Spec
CONSTANT Problems <- MCProblems
INVARIANTS EveryTaskOnce StatesExact SlackKept
PROPERTIES MovesPay LocallyOptimal
