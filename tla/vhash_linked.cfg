CONSTANTS
  k1 = k1
  k2 = k2
  k3 = k3
  BucketCount = 2
  Keys <- MCKeys
  Hash <- MCHash
  Vals = {0, 1}
  ZeroVal = 0
  Nodes = {n1, n2}
  UpdateAnswers = {TRUE, FALSE}
  CopyAnswers = {0, 1}
  Null = Null
SPECIFICATION FairSpec
CHECK_DEADLOCK FALSE
INVARIANTS
  NeverLost
PROPERTIES
  AtomicSpec
  CallsReturn
  OnlyAddNodeLoops
