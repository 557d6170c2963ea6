SPECIFICATION FairSpec
CONSTANTS
  N = 1
  Fds = {1, 2}
  Pipeline = 2
  Length = 1
  Period = 2
  Msec = 2
  Early = 0
  Stagger = 0
  TimeoutInterval = 1
  Timeout = 20
  StartTime = 20
  StopAt = 23
  Wrap = 16
  RecordAll = TRUE
  TLS = FALSE
  SyncFail = TRUE
  Env = {"close", "reset"}
  MaxTime = 24
  MaxFaults = 1
  MaxResponses = 5
INVARIANTS
  CorrectionNeverGifts
  TypeOK
  LatencyNonNegative
  OneSleep
  RateCeiling
PROPERTIES
  ImplementsSchedule
  LoopEnds
