CONSTANTS
  MemWords = 40
  WallClockAddress = 4080
  DeviceWords = {}
  HostWords = {}
  HostAddrs = {}
  Minutes = {0}
  MaxPending = 3
  MaxRequests = 3
  Decisecond = 2
  GuestCounts = {0, 1, 2}
  MaxPause = 2
  MaxTime = 7
SPECIFICATION EventsSpec
INVARIANTS
  MainUndisturbed
  EveryRequestServedOnce
  NeverEarly
  FlagTellsAlarm
  OneShotRingsOnce
  DisabledIsSilent
PROPERTIES
  ResumesUnlessReentered
  CountdownRings
CHECK_DEADLOCK FALSE
