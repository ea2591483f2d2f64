CONSTANTS
  WordBits = 4
  WordMod = 16
  AmountMod = 8
  Low = {0, 1}
  Dest = {0}
  InitialSP = 12
  InitialPC = 7
  Imm = {0, 1, 7}
  MaxSteps = 2
SPECIFICATION Spec
INVARIANTS TypeOK CarryAndOverflowAreTrue ConditionsOrder ShiftsAreRepeated ResultsAreExact
PROPERTY DoubleWordExact
CHECK_DEADLOCK FALSE
