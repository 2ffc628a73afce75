SPECIFICATION Spec
CONSTANTS
  NodeId <- MCNodeId
  FarmId <- MCFarmId
  Names <- MCNames
  Word = 16
  PageSize = 1
  GB = 2
  Grids <- MCGrids
  FarmTables <- MCFarmTables
  RequestLists <- MCRequestLists
  Assignments <- MCAssignments
  MaxDrift = 0
  ProxyOrder <- MCProxyOrder
CHECK_DEADLOCK FALSE
INVARIANT PublicIPsNotOversold
