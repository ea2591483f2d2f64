CONSTANTS
  Nibble = 4
  WordBytes = 2
  MAX_GPRS = 2
  GPR_SP = 1
  FLASH_SIZE = 4
  RAM_START = 6
  RAM_SIZE = 2
  MEMMAPIO_START = 10
  TIMING_MEM = 2
  Brace = 10
  Special = {8, 9, 10, 11}
  HeaderSize = 2
  Addrs = {0, 3, 7, 10, 12, 15, 16}
  Lengths = {1, 2, 7}
  Payloads <- MCPayloads
  Values = {6, 123}
  MaxSteps = 3
SPECIFICATION Spec
INVARIANTS TypeOK 
PROPERTIES  ResetChargedOnce
CHECK_DEADLOCK FALSE
