CONSTANTS
  S = S
  C = C
  D = D
  E = E
  R = R
  Endpoints <- MCEndpoints
  Monitored <- MCMonitored
  Frames <- MCFrames
  Times <- MCTimes
  Stale <- MCStale
  MallocMayFail = FALSE
  UIntMod = 8
  NoLine = NoLine
  NoRequest = NoRequest
  Conns <- TwoClients
  Requests <- MCRequests
  Chunks <- MCChunks
  Replies <- AllReplies
  MaxTime = 3
  Losing = FALSE
  Closing = FALSE
  TimedOut <- Payloads
  MidStream = FALSE
SPECIFICATION SSpec
CHECK_DEADLOCK FALSE
PROPERTIES
  TimeoutSkipped
