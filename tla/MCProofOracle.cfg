CONSTANTS
  Buckets = {0}
  Candles <- MC_Candles
  Granularity = 2
  MaxSkew = 1
  MaxTime = 3
SPECIFICATION Spec
CHECK_DEADLOCK FALSE
INVARIANT EndorsedIsFinal
