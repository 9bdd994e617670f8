SPECIFICATION Spec
CONSTANTS
  None = None
  Orders = {1, 2}
  Factories = {1, 2}
  LastDay = 3
  ProductionDays = 1
  BufferDays = 0
  FrozenDays = 0
  Room <- MCRoom
  MaxRequests = 2
  MaxWork = 4
  MaxIssues = 2
  MaxProposals = 2
  Scenes <- MCScenes
CHECK_DEADLOCK FALSE
INVARIANTS
  SuggestionHolds
  NoDuplicateOpenIssue
  AppliedOnce
  ResolvedMeansApplied
  QuantityCovered
  PlanSound
  RankRespected
  NothingRunsEarly
  PageSettles
PROPERTY
  WorkGetsDone
