SPECIFICATION Spec
CONSTANTS
  Indexes = {t1}
  Tries = {"first", "copy"}
  First = "first"
  Copies = {"copy"}
  MaxAttempts = 2
  MaxEnds = 4
  NoRun = NoRun
INVARIANTS OwnFiguresAreLatestAttempt
CHECK_DEADLOCK FALSE
