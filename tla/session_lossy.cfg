CONSTANTS
  S = S
  C = C
  D = D
  E = E
  R = R
  Endpoints <- MCEndpoints
  Monitored <- MCMonitored
  Frames <- MCFrames
  Times <- MCTimes
  Stale <- MCStale
  MallocMayFail = FALSE
  UIntMod = 2
  NoLine = NoLine
  NoRequest = NoRequest
  Conns <- BothSides
  Requests <- MCRequests
  Chunks <- MCChunks
  Replies <- AllReplies
  MaxTime = 1
  Losing = TRUE
  Closing = TRUE
  TimedOut <- Payloads
  MidStream = TRUE
SPECIFICATION SSpec
CHECK_DEADLOCK FALSE
INVARIANTS
  RolesRight
  StaleOnlyAfterLoss
PROPERTIES
  MisnamedOnlyAfterLoss
