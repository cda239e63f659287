SPECIFICATION Spec
CONSTANTS
  LeapTable <- MCLeapTable
  UnixEpoch = 3
  GpsEpoch = 13
  TaiMinusGps = 4
  MsPerSec = 2
  NsPerMs = 2
  Seconds <- MCSeconds
  Instants <- MCInstants
  Millis <- MCMillis
  ForeignKeys <- MCForeignKeys
  UnknownKeys <- MCUnknownKeys
  MaxCalls = 2
  MaxRestarts = 1
INVARIANTS
  TypeOK
  TaiKeepsOrder
  AllenConverse
