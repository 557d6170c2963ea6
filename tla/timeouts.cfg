SPECIFICATION Spec
CONSTANTS
  N = 1
  Fds = {1, 2}
  Pipeline = 1
  Length = 1
  Period = 5
  Msec = 2
  Early = 0
  Stagger = 1
  TimeoutInterval = 3
  Timeout = 2
  StartTime = 2
  StopAt = 20
  Wrap = 16
  RecordAll = TRUE
  TLS = FALSE
  SyncFail = FALSE
  Env = {}
  MaxTime = 25
  MaxFaults = 1
  MaxResponses = 3
PROPERTIES
  TimeoutsAreRequests
