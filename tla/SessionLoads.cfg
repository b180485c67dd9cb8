SPECIFICATION Spec
CONSTANTS
  f1 = f1
  f2 = f2
  Files <- TwoFiles
  NoFile = NoFile
  MaxLoads = 3
  MaxWaiting = 1
  UseCompare = TRUE
SYMMETRY Symmetry
ACTION_CONSTRAINT Apart
INVARIANTS RunIsItsFile OneActiveWorker SnapshotIsItsFile ScreenIsTrue
CHECK_DEADLOCK FALSE
VIEW Unanswered
