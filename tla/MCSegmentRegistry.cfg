SPECIFICATION Spec
CONSTANTS
  g1 = g1
  g2 = g2
  Holder <- MCHolder
  CGUAS_MAX = 3
  SizeNs <- MCSizeNs
  Clock <- MCClock
  MaxRestarts = 1
INVARIANTS
  TypeOK
  ArenaTiled
  FindExactlyActive
  StaleCguaIsUnknown
PROPERTIES
  ImplementsLedger
