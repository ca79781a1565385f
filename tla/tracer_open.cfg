CONSTANTS
  S = S
  C = C
  D = D
  Endpoints <- MCEndpoints
  Monitored <- MCMonitored
  Frames <- MCFrames
  Times <- MCTimes
  Stale <- MCStale
  MallocMayFail = TRUE
  UIntMod = 2
  NoLine = NoLine
  MaxHeard = 3
SPECIFICATION MCSpec
INVARIANTS
  TypeOK
  OneDirection
  MonitoredOnly
  ElapsedRight
  PairsOpposite
PROPERTIES
  EntryLife
CHECK_DEADLOCK FALSE
