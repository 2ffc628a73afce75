SPECIFICATION Spec
CONSTANTS
  n1 = n1  n2 = n2  a = a  b = b  v1 = v1  v2 = v2  bad = bad
  Node = {n1, n2}
  Name = {a, b}
  Version = {v1, v2, bad}
  Valid = {v1, v2}
  NoVersion = NoVersion
  NoName = NoName
  MaxContract = 5
  MaxTrouble = 2
SYMMETRY Alike
INVARIANTS
  TypeOK
  OrphansAreReported
  AppliedIsDeployed
  RefreshIsTruth
  NothingInvalidRuns
PROPERTIES
  ImplementsContracts
