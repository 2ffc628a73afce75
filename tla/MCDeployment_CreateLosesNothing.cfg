SPECIFICATION Spec
CONSTANTS
  Node = {n1, n2}
  Version = {v1, v2}
  MaxContract = 2
  MaxTrouble = 2
SYMMETRY Symmetric
PROPERTY CreateLosesNothing
