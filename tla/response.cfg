CONSTANTS
  ULLONG_MAX = 255
  HTTP_MAX_HEADER_SIZE = 100
  RECVBUF = 60
  Streams <- MCStreams
  Later <- MCLater
  Lossy <- MCLossy
  MaxRead = 2
  Connections = 2
SPECIFICATION Spec
INVARIANTS TypeOK ScriptSeesResponses RefusesOnlyBad StateTellsWhere NoAssertFails
CHECK_DEADLOCK FALSE
