SPECIFICATION Spec
CONSTANTS
  n1 = n1  n2 = n2  m = m  w = w  s1 = s1  s2 = s2  bad = bad
  Node = {n1, n2}
  Name = {m, w}
  Seed = {s1, s2, bad}
  BadSeeds = {bad}
  Clusters <- MCClusters
  MaxContract = 5
  MaxTrouble = 2
INVARIANTS
  TypeOK
  OrphansAreReported
  AppliedIsDeployed
  AppliedIsRecorded
  RefreshIsTruth
PROPERTIES
  ImplementsContracts
