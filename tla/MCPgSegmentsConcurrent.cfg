SPECIFICATION Spec
CONSTANTS
  c1 = c1
  c2 = c2
  h1 = h1
  Client <- MCClient
  Holder <- MCHolder
  SizeNs <- MCSizeNs
  Clock <- MCClock
  UnknownId = UnknownId
  MaxCalls = 4
  MaxFaults = 1
SYMMETRY ClientSymmetry
INVARIANTS
  ConcurrentGrantsDisjoint
