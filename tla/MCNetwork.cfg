SPECIFICATION Spec
CONSTANTS
  Node = {n1, n2, n3}
  MaxContract = 6
  MaxTrouble = 2
SYMMETRY Symmetric
INVARIANTS TypeOK NothingOrphaned AppliedIsDeployed RefreshIsTruth
PROPERTIES ImplementsContracts
