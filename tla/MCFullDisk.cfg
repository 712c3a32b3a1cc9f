CONSTANTS
  Processes = {p}
  MostEdits = 1
  Mishaps = {"full_disk"}
  Requests <- MCRequests
  MostRequests = 2
SPECIFICATION Spec
CHECK_DEADLOCK FALSE
PROPERTY SuccessIsOnDisk
