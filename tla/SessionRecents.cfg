SPECIFICATION Spec
CONSTANTS
  f1 = f1
  f2 = f2
  Files <- TwoFiles
  NoFile = NoFile
  MaxLoads = 3
  MaxWaiting = 1
  UseCompare = FALSE
INVARIANTS RecentIsItsFile
CHECK_DEADLOCK FALSE
