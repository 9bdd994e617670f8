SPECIFICATION Spec
CONSTANTS
  a = a
  b = b
  f1 = f1
  q1 = q1
  q2 = q2
  q3 = q3
  None = None
  Type = Type
  Orders <- TwoOrders
  Factories <- OneFactory
  LastDay = 2
  Horizon = 1
  MaxCapacity = 1
  Deadline <- Deadlines
  Fixed <- OnlyB
  FrozenDays = 0
  ProductionDays = 1
  Policies <- Optimize
  Requests <- ThreeRequests
  Operations <- OccOperations
  Failures = TRUE
  Open <- EveryCell
INVARIANT OccSound
INVARIANT ApplyOnce
INVARIANT FreshCommitsKeepLedger
INVARIANT LockReturned
PROPERTY ProductionUntouched
SYMMETRY SymRequests
CHECK_DEADLOCK FALSE
