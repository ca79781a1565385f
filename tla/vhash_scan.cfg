CONSTANTS
  k1 = k1
  k2 = k2
  k3 = k3
  k4 = k4
  M = 0
  Ids = {0}
  ModuleMax = 1
  BucketCount = 3
  Keys <- MCKeys
  Hash <- MCHash
  Vals = {0}
  ZeroVal = 0
  Nodes = {n1, n2, n3, n4}
  UpdateAnswers <- MCUpdateAnswers
  CopyAnswers <- MCCopyAnswers
  Null = Null
SPECIFICATION FairScanSpec
INVARIANTS
  NothingMissed
PROPERTIES
  NothingTwice
  EndsUnlessFed
