CONSTANTS
  Orders = {1, 2, 3}
  Factories = {1, 2}
  Types = {"A", "B"}
  Planners = {1, 2}
  Days = {0, 1, 2}
  Pieces = {1, 2, 3}
  MaxParts = 2
  OrderType <- MCOrderType
  Quantity <- MCQuantity
  Due <- MCDue
  FactoryType <- MCFactoryType
  MaxCapacity <- MCMaxCapacity
  Margin = 2
  Scenes <- MCScenes
  None = None
  Staging = Staging
SPECIFICATION Spec
INVARIANT CapacityKept
PROPERTY NothingUnseenOverwritten ConflictHasCause SavedMeansStored PreviewComesTrue PreviewBelongs
CHECK_DEADLOCK FALSE
