CONSTANTS
  S = S
  C = C
  D = D
  Endpoints <- MCEndpoints
  Monitored <- MCMonitored
  Frames <- MCFrames
  Times <- MCTimes
  Stale <- MCStale
  MallocMayFail = FALSE
  UIntMod = 8
  NoLine = NoLine
  Conns <- TwoClients
  Requests <- MCRequests
  Replies <- MCReplies
  MaxTime = 2
  MaxPending = 3
  TimingOut = TRUE
SPECIFICATION PSpec
CHECK_DEADLOCK FALSE
INVARIANTS
  OneEntryABurst
PROPERTIES
  LineOfPipeline
