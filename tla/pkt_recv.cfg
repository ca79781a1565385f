CONSTANTS
  S = S
  C = C
  D = D
  Endpoints <- MCEndpoints
  Monitored = {S}
  Frames <- MCFrames
  Times <- MCTimes
  Stale <- MCStale
  MallocMayFail = TRUE
  UIntMod = 2
  NoLine = NoLine
  Ids = {0}
  ModuleMax = 1
  BucketCount = 2
  Keys <- MCKeys
  Hash <- MCHash
  ZeroVal <- MCZero
  Vals <- MCVals
  Nodes = {n1, n2}
  UpdateAnswers <- MCUpdateAnswers
  CopyAnswers <- MCCopyAnswers
  Null = Null
SPECIFICATION KSpec
CHECK_DEADLOCK FALSE
SYMMETRY AddressSymmetry
INVARIANTS
  PointerIsOfKey
PROPERTIES
  TracerSpec
