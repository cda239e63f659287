SPECIFICATION Spec
CONSTANTS
  a = a
  b = b
  GPS = GPS
  UTC = UTC
  Satellite <- MCSatellite
  EpochTime <- MCEpochTime
  Interval <- MCInterval
  SatCount <- MCSatCount
  Declared <- MCDeclared
  TimeSystem <- MCTimeSystem
  MaxLines = 8
SYMMETRY SatelliteSymmetry
INVARIANTS
  TypeOK
  RecordsStayInTheirEpoch
  SatellitesAsDeclared
  GridReportHonest
