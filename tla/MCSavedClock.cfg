CONSTANTS
  Chunks <- MCChunks
  MaxChunks = 3
  LineSize = 3
  Slice = 2
  CycleCounts = {1, 3}
  IntSize = 3
  MaxRequests = 1
  Programs = {"monitor", "pdp8v"}
  MaxKeys = 3
  MemWords = 2
  WallClockAddress = 1
  Minutes = {7}
  FileLines <- MCFileLines
  MaxLines = 2
  DepositLists <- MCDepositLists
  Unflushed = 1
  MaxCommands = 3
  TapeLines <- MCTapeLines
  MaxTapeLines = 2
  MaxHalfwords = 4
  TapeAcs = {1, 3}
  ColumnSize = 16
  ColumnLimits = {3, 11, 19}
  HardCopyAcs = {9, 10, 13, 321}
  MaxPrinted = 6
  MaxPunched = 1
  MaxOpened = 1
  ConfigFiles <- MCConfigFiles
  PathKinds <- MCPathKinds
  MaxUnits = 1
  LimitSize = 256
SPECIFICATION MCSpec
INVARIANTS
  SavesMemory
CHECK_DEADLOCK FALSE
