CONSTANTS
  k1 = k1
  k2 = k2
  k3 = k3
  Ids = {0, 1, 2}
  ModuleMax = 2
  BucketCount = 2
  Keys <- MCKeys
  Hash <- MCHash
  Vals = {0, 1}
  ZeroVal = 0
  Nodes = {n1, n2, n3}
  UpdateAnswers <- MCUpdateAnswers
  CopyAnswers <- MCCopyAnswers
  Null = Null
SPECIFICATION PSpec
SYMMETRY AddressSymmetry
INVARIANTS
  TypeOK
  HeapIsTable
  KeysUnique
  CountersAgree
  ToldRight
PROPERTIES
  MapSpec
  PointerTells
