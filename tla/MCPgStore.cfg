SPECIFICATION Spec
CONSTANTS
  c1 = c1
  c2 = c2
  t1 = t1
  l1 = l1
  l2 = l2
  d1 = d1
  f1 = f1
  Client <- MCClient
  Timepoint <- MCTimepoint
  Labels <- MCLabels
  Domain <- MCDomain
  Cgfi <- MCCgfi
  MaxCalls = 4
  MaxFaults = 1
SYMMETRY Symmetry
INVARIANTS
  TypeOK
  OneCreator
  PublishRejectsKnown
  ReadsNeverRegress
PROPERTIES
  ImplementsStore
