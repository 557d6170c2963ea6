SPECIFICATION Spec
CONSTANTS
  N = 1
  Fds = {f1, f2}
  Delays = {1}
  Period = 4
  Msec = 3
  Early = 1
  Stagger = 0
  TimeoutInterval = 2
  Timeout = 20
  StartTime = 21
  StopAt = 27
  RecordAll = TRUE
  SyncFail = TRUE
  Env = {"stream_reset", "close", "idle_timeout", "write_error", "other_thread", "sigint"}
  MaxTime = 27
  MaxFaults = 1
  MaxResponses = 2
SYMMETRY AnyFd
INVARIANTS
  TypeOK
  WritesOrSleeps
  OneFlow
  SocketsWatched
PROPERTIES
  OrderlyImplementsSchedule
