CONSTANTS
  Chunks <- MCChunks
  MaxChunks = 3
  LineSize = 3
  Slice = 2
  CycleCounts = {1, 3}
  IntSize = 3
  MaxRequests = 1
SPECIFICATION SessionSpec
PROPERTY
  TypedBreakStops
CHECK_DEADLOCK FALSE
