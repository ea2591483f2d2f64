CONSTANTS
  ByteMod = 8
  CALIB = 2049
  TIMING_MEM = 2
  Ticks = {1, 4}
  Longest = 4
  Offsets = {0, 1, 4, 5, 8, 12}
  Data = {1, 6, 193}
  MaxSteps = 7
SPECIFICATION Spec
INVARIANTS TypeOK KeepsTime
PROPERTY ByteStoresKeepTheRest
CHECK_DEADLOCK FALSE
