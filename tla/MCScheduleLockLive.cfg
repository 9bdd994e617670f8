SPECIFICATION FairSpec
CONSTANTS
  p1 = p1
  p2 = p2
  p3 = p3
  None = None
  Procs <- TwoProcs
  NTypes = 2
  MaxCalls = 2
  Faults <- AllFaults
  Live <- OneLive
PROPERTY ImplementsLockService
PROPERTY EveryCallReturns
PROPERTY NoLockForEver
CHECK_DEADLOCK FALSE
