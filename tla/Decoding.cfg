SPECIFICATION DecodingSpec
CONSTANTS
  MaxParts = 2
  MaxSlices = 2
  MaxRequests = 1
  MaxFrames = 3
  MaxPushes = 2
  MaxChunks = 3
  MaxThreads = 2
  MaxQueued = 3
  MaxBuffered = 1
  NoFrame = NoFrame
  Texts <- SomeTexts
  MaxSlice = 14
  MaxScanned = 2
INVARIANTS DoneIsWhole NoStreamLeftOpen MessagesInOrder BacklogBounded LinesOfText OpenValueBounded
PROPERTIES ParseReports NativeImplementsDecoder NativePushSettles
CHECK_DEADLOCK FALSE
