SPECIFICATION FairSpec
CONSTANTS
  N = 2
  Fds = {1, 2}
  Sec = 2
  Stagger = 1
  Check = 1
  Skews = {1}
  StopAt = 5
  MaxTimers = 5
INVARIANTS
  TypeOK
  EpollMatchesTable
  NoStaleDispatch
  SleepIsExact
  DueTimersRun
PROPERTIES
  LoopEnds
