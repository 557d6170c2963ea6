SPECIFICATION Spec
CONSTANTS
  N = 2
  Fds = {1, 2}
  Pipeline = 1
  Length = 1
  Period = 1
  Msec = 1
  Early = 0
  Stagger = 0
  TimeoutInterval = 1
  Timeout = 20
  StartTime = 20
  StopAt = 22
  Wrap = 16
  RecordAll = TRUE
  TLS = TRUE
  SyncFail = TRUE
  Env = {"idle_reset", "refuse", "fin", "unsolicited", "trailing"}
  MaxTime = 22
  MaxFaults = 1
  MaxResponses = 1
INVARIANTS
  DescriptorMatches
  SocketsWatched
PROPERTIES
  SocketsKept
