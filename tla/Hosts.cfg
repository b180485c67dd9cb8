SPECIFICATION HostsSpec
CONSTANTS
  Files = {"f"}
  Downloads = {"d"}
  CacheCap = 2
  ComparisonCap = 1
  Calls = {1, 2}
  MaxVersion = 1
  MaxRuns = 3
  MaxBody = 3
  Keys = {"a", "b"}
  MaxBatches = 3
  Opened = {"w", "x", "y", "z"}
  Cap = 2
  MaxCalls = 3
  FullCells = 6
  BandBase = 0
  MinScore = 5
  Kinds <- StageKinds
  Similarity <- Alike
  AlignedMin = 6
  MaxPairCells = 9
  NoKey = NoKey
  NoExecution = 0
  Tables <- SomeTables
  Baselines <- OddRuns
  Candidates <- AllRuns
INVARIANTS CachesAgree NotOlderThanCall WholeIsWhole CollectedOnce AlignmentIsBest StagesAlign CappedButForTouches
PROPERTIES DownloadSettles WaitingEnds
CHECK_DEADLOCK FALSE
