SPECIFICATION FairSpec
CONSTANTS
  N = 1
  Fds = {1, 2}
  Pipeline = 2
  Length = 2
  Period = 0
  Msec = 1
  Early = 0
  Stagger = 0
  TimeoutInterval = 0
  Timeout = 20
  StartTime = 20
  StopAt = 21
  Wrap = 16
  RecordAll = TRUE
  TLS = FALSE
  SyncFail = FALSE
  Env = {"part", "close", "until_eof", "reset", "cut", "bad", "trailing", "sigint"}
  MaxTime = 20
  MaxFaults = 2
  MaxResponses = 3
INVARIANTS
  PendingMatchesWire
  NoLostWakeup
PROPERTIES
  BatchEnds
  LoopEnds
