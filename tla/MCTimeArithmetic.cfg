SPECIFICATION ArithSpec
CONSTANTS
  NotBigInt = NotBigInt
  NsPerUs = 2
  NsPerMs = 4
  NsPerSec = 8
  NsPerMin = 96
  NsPerHour = 192
  NsPerDay = 384
  IrrationalNs = {25}
  Decimals <- MCDecimals
  Numbers <- MCNumbers
  Fractions <- MCFractions
  NotFinite = NotFinite
  FloatLimit = 16
  MaxExponent = 3
  MaxOperations = 3
  MaxNs = 400
INVARIANTS
  ArithTypeOK
  ChainDrift
CHECK_DEADLOCK FALSE
