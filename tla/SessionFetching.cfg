SPECIFICATION Spec
CONSTANTS
  f1 = f1
  f2 = f2
  Files <- OneFile
  NoFile = NoFile
  MaxLoads = 2
  MaxWaiting = 1
  UseCompare = FALSE
INVARIANT FetchingIsRunning
CHECK_DEADLOCK FALSE
