SPECIFICATION FairSpec
CONSTANTS
  f1 = f1
  f2 = f2
  Files <- OneFile
  NoFile = NoFile
  MaxLoads = 3
  MaxWaiting = 1
  UseCompare = TRUE
ACTION_CONSTRAINT Apart
PROPERTIES ParseEnds CompareEnds
CHECK_DEADLOCK FALSE
