CONSTANTS
  Requests <- MCRequests
  Options <- MCOptions
SPECIFICATION Spec
CHECK_DEADLOCK FALSE
INVARIANT WaitsAtCells
