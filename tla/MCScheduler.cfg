SPECIFICATION Spec
CONSTANTS
  NodeId <- MCNodeId
  FarmId <- MCFarmId
  Names <- MCNames
  Word = 16
  PageSize = 1
  GB = 2
  Grids <- MCGrids
  FarmTables <- MCFarmTables
  RequestLists <- MCRequestLists
  Assignments <- MCAssignments
  MaxDrift = 1
  ProxyOrder <- MCProxyOrder
CHECK_DEADLOCK FALSE
INVARIANTS TypeOK NoOvercommit DistinctFromEarlier FeaturesOrLeftOver SearchIsExhaustive
  BotNodeNearlyFits
PROPERTIES CacheOnlyShrinks StepsProgress ImplementsPlacement
