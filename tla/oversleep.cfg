SPECIFICATION Spec
CONSTANTS
  N = 1
  Fds = {1}
  Sec = 3
  Stagger = 0
  Check = 2
  Skews = {}
  StopAt = 11
  MaxTimers = 4
INVARIANT SleepDelaysNoTimer
