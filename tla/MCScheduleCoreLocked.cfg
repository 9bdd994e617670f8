SPECIFICATION Spec
CONSTANTS
  a = a
  b = b
  f1 = f1
  q1 = q1
  q2 = q2
  q3 = q3
  None = None
  Type = Type
  Orders <- TwoOrders
  Factories <- OneFactory
  LastDay = 3
  Horizon = 2
  MaxCapacity = 1
  Deadline <- Deadlines
  Fixed <- NoOrder
  FrozenDays = 0
  ProductionDays = 1
  Policies <- BothPolicies
  Requests <- TwoRequests
  Operations <- LockedOperations
  Failures = TRUE
  Open <- NoCell
INVARIANT CapacityLedger
INVARIANT NoDoubleAssignment
INVARIANT CancelledReleased
INVARIANT ScheduledBacked
INVARIANT RunCommitsFresh
PROPERTY ImmutableKept
PROPERTY WritesExcluded
SYMMETRY SymRequests
CHECK_DEADLOCK FALSE
