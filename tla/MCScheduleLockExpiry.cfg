SPECIFICATION Spec
CONSTANTS
  p1 = p1
  p2 = p2
  p3 = p3
  None = None
  Procs <- ThreeProcs
  NTypes = 2
  MaxCalls = 1
  Faults <- OnlyExpiry
  Live <- NoFaults
INVARIANT MutualExclusion
INVARIANT NoMutualRefusal
INVARIANT NoOrphanLock
SYMMETRY SymThree
CHECK_DEADLOCK FALSE
