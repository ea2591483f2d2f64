CONSTANTS
  DECODE_SAFE = TRUE
  SecondHalves = {55296, 53248, 61440, 63488, 65535, 55295, 54613, 64170}
SPECIFICATION Spec
INVARIANTS TypeOK NoStaleOperand RunsAsAssembled BranchesAsAssembled MalformedExits
CHECK_DEADLOCK FALSE
