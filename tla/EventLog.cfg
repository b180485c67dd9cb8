SPECIFICATION LogSpec
CONSTANTS
  Indexes = {t1}
  Tries = {"first", "retry", "copy"}
  First = "first"
  Copies = {"copy"}
  MaxAttempts = 3
  MaxEnds = 6
  MaxThirdEnds = 2
  NoRun = NoRun
  Plans = {p1, p2}
  WithColumns = {p1}
  SqlStages = {s1}
  Execs = {x1, x2}
  Null = Null
  MalformedLine = MalformedLine
  MayBeMalformed = FALSE
  MaxDriver = 1
  Rdds = {1}
  Partitions = {1, 2}
  Executors = {"x", "y"}
CONSTRAINT FewerEndsOfThree
INVARIANTS TypeOK WorkCountedOnce WorkKept WasteIsLateWork FailedTaskHadNoSuccess RecordIsShown
INVARIANTS TreeIsItsOwn ResidencyAgrees
PROPERTIES ImplementsReading CachedNotLost
CHECK_DEADLOCK FALSE
