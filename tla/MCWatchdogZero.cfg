CONSTANTS
  Decisecond = 2
  GuestCounts = {0, 1, 2}
  MaxPause = 2
  MaxTime = 7
SPECIFICATION WatchdogSpec
INVARIANT
  ZeroCountIsDisabled
