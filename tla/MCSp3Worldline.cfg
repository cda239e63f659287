SPECIFICATION FairSpec
CONSTANTS
  sat = sat
  other = other
  Views <- MCViews
  Points <- MCPoints
  Query <- MCQuery
INVARIANTS
  WorldlineTypeOK
  AnsweredFromCentredWindow
  AnswersWhereItCan
PROPERTIES
  SearchEnds
