SPECIFICATION FairSpec
CONSTANTS
  f1 = f1
  f2 = f2
  Files <- OneFile
  NoFile = NoFile
  MaxLoads = 3
  MaxWaiting = 1
  UseCompare = TRUE
PROPERTIES ParseEnds
CHECK_DEADLOCK FALSE
