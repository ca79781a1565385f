CONSTANTS
  S = S
  C = C
  D = D
  E = E
  R = R
  Endpoints <- MCEndpoints
  Monitored <- MCMonitored
  Frames <- MCFrames
  Times <- MCTimes
  Stale <- MCStale
  MallocMayFail = FALSE
  UIntMod = 2
  NoLine = NoLine
  NoRequest = NoRequest
  Conns <- TwoClients
  Requests <- MCRequests
  Chunks <- MCChunks
  Replies <- AllReplies
  MaxTime = 3
  Losing = FALSE
  Closing = FALSE
  TimedOut <- NotArrays
  MidStream = FALSE
SPECIFICATION SSpec
CHECK_DEADLOCK FALSE
INVARIANTS
  InSync
PROPERTIES
  LogSpec
