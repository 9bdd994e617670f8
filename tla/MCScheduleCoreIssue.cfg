SPECIFICATION Spec
CONSTANTS
  a = a
  b = b
  f1 = f1
  q1 = q1
  q2 = q2
  q3 = q3
  None = None
  Type = Type
  Orders <- TwoOrders
  Factories <- OneFactory
  LastDay = 2
  Horizon = 0
  MaxCapacity = 1
  Deadline <- Deadlines
  Fixed <- NoOrder
  FrozenDays = 0
  ProductionDays = 1
  Policies <- BothPolicies
  Requests <- TwoRequests
  Operations <- IssueRace
  Failures = FALSE
  Open <- NoCell
PROPERTY WritesExcluded
SYMMETRY SymRequests
CHECK_DEADLOCK FALSE
