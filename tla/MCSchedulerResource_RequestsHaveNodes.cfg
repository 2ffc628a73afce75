SPECIFICATION Spec
CONSTANTS
  Node = {1, 2}
  Kinds = {"MRU"}
  Amounts = {0, 1}
  Queues <- MCQueues
  Givens <- MCGivens
  Names <- MCNames
  Configs <- MCConfigs
  Word = 2
  Word32 = 4
  MB = 1
  MaxApplies = 3
CHECK_DEADLOCK FALSE
INVARIANT RequestsHaveNodes
