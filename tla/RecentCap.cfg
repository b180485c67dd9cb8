SPECIFICATION RecentSpec
CONSTANTS
  Opened = {"w", "x", "y"}
  Cap = 2
  MaxCalls = 2
INVARIANT Capped
CHECK_DEADLOCK FALSE
