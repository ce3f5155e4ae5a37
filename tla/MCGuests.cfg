CONSTANTS
  MemWords = 38
  WallClockAddress = 4080
  DeviceWords = {}
  HostWords = {}
  HostAddrs = {0}
  Minutes = {0}
  MaxPending = 3
  Decisecond = 2
  OperatorCommands = {"continue", "go", "reset"}
  MaxPause = 2
  MaxTime = 8
  PollingControls = {2561}
  GuardedControls = {513, 1025, 1537, 2049}
SPECIFICATION MCSpec
INVARIANTS
  MachineTypeOK
  NoSpuriousService
  HangIsGuarded
  RearmedAfterReset
PROPERTIES
  AlarmServiced
  HangIsCaught
