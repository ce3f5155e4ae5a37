CONSTANTS
  MemWords = 40
  WallClockAddress = 4080
  DeviceWords = {}
  HostWords = {}
  HostAddrs = {}
  Minutes = {0}
  MaxPending = 3
  MaxRequests = 3
SPECIFICATION MCSpec
PROPERTY
  MainProgramResumes
CHECK_DEADLOCK FALSE
