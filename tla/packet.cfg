CONSTANTS
  Packets <- MCPackets
  MonitoredIp <- Here
  MaxPasses = 4
  Nothing = Nothing
SPECIFICATION Spec
CHECK_DEADLOCK FALSE
INVARIANTS
  ReadsInside
  AsTracerSees
  AddressesRight
  SameChain
  MatchesGrammar
  ReplayNamesArgument
