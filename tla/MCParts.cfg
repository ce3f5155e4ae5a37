CONSTANTS
  MemWords = 17
  WallClockAddress = 6
  DeviceWords = {2733}
  HostWords = {4095}
  HostAddrs = {9, 16}
  Minutes = {0, 1439}
  MaxPending = 2
  Budget = 3
  HostBytes = {65, 194}
  GuestWords = {193}
  MaxWaiting = 2
  MaxRead = 2
  MaxPrinted = 2
SPECIFICATION PartsSpec
INVARIANTS
  CpuTypeOK
  SkipSettled
  ResumePointSaved
  ConsoleTypeOK
  NothingStranded
  SkipIsAPromise
  OutputLogFollowsStream
PROPERTY
  ImplementsStream
CHECK_DEADLOCK FALSE
