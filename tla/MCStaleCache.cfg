CONSTANTS
  Processes = {p}
  MostEdits = 1
  Mishaps = {"edit_midway"}
  Requests <- MCRequests
  MostRequests = 2
SPECIFICATION Spec
CHECK_DEADLOCK FALSE
INVARIANT HitIsCurrent
