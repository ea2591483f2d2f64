CONSTANTS
  ByteMod = 2
  FLASH_SIZE = 4
  RAM_START = 4
  RAM_SIZE = 4
  UART = 12
  Low = {0, 1}
  SP = 0
  PC = 2
  MaxImm = 1
  InitialWords = {6, 11}
  MaxSteps = 2
SPECIFICATION Spec
INVARIANT TypeOK
PROPERTY ActsAsBytes
CHECK_DEADLOCK FALSE
