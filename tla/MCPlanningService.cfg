CONSTANTS
  Processes = {p, q}
  MostEdits = 1
  Mishaps = {}
  Requests <- MCRequests
  MostRequests = 3
SYMMETRY AnyProcess
SPECIFICATION Spec
CHECK_DEADLOCK FALSE
INVARIANT HitIsCurrent
PROPERTY SuccessIsOnDisk
