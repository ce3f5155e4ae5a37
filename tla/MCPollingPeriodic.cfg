CONSTANTS
  MemWords = 38
  WallClockAddress = 4080
  DeviceWords = {}
  HostWords = {}
  HostAddrs = {0}
  Minutes = {0}
  MaxPending = 3
  Decisecond = 2
  OperatorCommands = {}
  MaxPause = 2
  MaxTime = 8
  PollingControls = {3073}
  GuardedControls = {}
SPECIFICATION MCSpec
INVARIANT
  AlarmIdentified
