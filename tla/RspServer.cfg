SPECIFICATION FairSpec
CONSTANTS
  PCs = {0, 1, 2, 3}
  ResetPC = 0
  ExitPC = 3
  Goes <- MCGoes
  Stores <- MCStores
  WATCHPOINT_ADDR = "cycles"
  Matchpoints <- MCMatchpoints
  ResetAfter = 1
  Ops = {"?", "c", "s", "D", "vRun", "Z", "z"}
  MaxFaults = 1
  MaxConnections = 2
  MaxUnread = 1
INVARIANT TypeOK
INVARIANT NoMutualWait
 
PROPERTY StopsBeforeNext
PROPERTY StepReturns
CHECK_DEADLOCK FALSE
