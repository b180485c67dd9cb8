SPECIFICATION Spec
CONSTANTS
  MaxStreams = 2
  MaxSlices = 3
  MaxBlocks = 2
  BatchBlocks = 2
  MaxInFlight = 2
  StopAtFailure = FALSE
  NoSlice = NoSlice
INVARIANTS TypeOK WindowBound ErrorIsLast
PROPERTIES ImplementsStreamDecoder
CHECK_DEADLOCK FALSE
