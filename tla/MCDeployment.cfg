SPECIFICATION Spec
CONSTANTS
  Node = {n1, n2}
  Version = {v1, v2}
  MaxContract = 3
  MaxTrouble = 3
SYMMETRY Symmetric
INVARIANTS TypeOK OrphansAreReported AppliedIsDeployed RefreshIsTruth
PROPERTIES ImplementsContracts
