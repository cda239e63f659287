SPECIFICATION Spec
CONSTANTS
  t1 = t1
  t2 = t2
  t3 = t3
  l1 = l1
  l2 = l2
  d1 = d1
  f1 = f1
  m1 = m1
  m2 = m2
  Timepoint <- MCTimepoint
  Labels <- MCLabels
  Domain <- MCDomain
  Cgfi <- MCCgfi
  Metadata <- MCMetadata
  Limit = 2
  MaxRestarts = 1
INVARIANTS
  TypeOK
  WalkSeesAll
PROPERTIES
  ImplementsStore
