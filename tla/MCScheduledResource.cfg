SPECIFICATION FairLifeSpec
CONSTANTS
  NodeId <- MCNodeId
  FarmId <- MCFarmId
  Names <- MCNames
  Word = 4
  PageSize = 1
  GB = 2
  Grids <- MCGrids
  FarmTables <- MCFarmTables
  RequestLists <- MCRequestLists
  Assignments <- MCAssignments
  MaxDrift = 1
  ProxyOrder <- MCProxyOrder
  Configs <- MCConfigs
  Word32 = 4
  MB = 1
  MaxApplies = 3
CHECK_DEADLOCK FALSE
PROPERTIES ImplementsResource AppliesEnd
