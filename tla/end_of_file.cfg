SPECIFICATION Spec
CONSTANTS
  N = 1
  Fds = {1, 2}
  Pipeline = 1
  Length = 1
  Period = 2
  Msec = 2
  Early = 0
  Stagger = 1
  TimeoutInterval = 3
  Timeout = 20
  StartTime = 20
  StopAt = 26
  Wrap = 16
  RecordAll = TRUE
  TLS = FALSE
  SyncFail = FALSE
  Env = {"fin"}
  MaxTime = 30
  MaxFaults = 1
  MaxResponses = 3
INVARIANTS
  NoLostWakeup
