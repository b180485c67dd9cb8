SPECIFICATION FairSpec
CONSTANTS
  MaxStreams = 2
  MaxSlices = 3
  MaxBlocks = 1
  BatchBlocks = 1
  MaxInFlight = 2
  StopAtFailure = TRUE
  NoSlice = NoSlice
INVARIANTS TotalWindowBound
PROPERTIES PushSettles
CHECK_DEADLOCK FALSE
