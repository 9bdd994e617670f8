SPECIFICATION Spec
CONSTANTS
  a = a
  b = b
  f1 = f1
  q1 = q1
  q2 = q2
  q3 = q3
  None = None
  Type = Type
  Orders <- OneOrder
  Factories <- OneFactory
  LastDay = 2
  Horizon = 2
  MaxCapacity = 1
  Deadline <- Deadlines
  Fixed <- NoOrder
  FrozenDays = 0
  ProductionDays = 1
  Policies <- Optimize
  Requests <- ThreeRequests
  Operations <- DailyRace
  Failures = FALSE
  Open <- EveryCell
PROPERTY ImmutableKept
SYMMETRY SymRequests
CHECK_DEADLOCK FALSE
