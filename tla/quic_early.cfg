SPECIFICATION Spec
CONSTANTS
  N = 1
  Fds = {f1, f2}
  Delays = {1}
  Period = 5
  Msec = 3
  Early = 1
  Stagger = 0
  TimeoutInterval = 1
  Timeout = 20
  StartTime = 20
  StopAt = 27
  RecordAll = TRUE
  SyncFail = FALSE
  Env = {}
  MaxTime = 27
  MaxFaults = 0
  MaxResponses = 3
INVARIANTS
  LatencyNonNegative
