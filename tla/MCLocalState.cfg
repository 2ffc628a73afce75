SPECIFICATION Spec
CONSTANTS
  Process = {p1, p2}
  Network = {w1, w2}
  Node = {n1}
  MaxStarts = 4
SYMMETRY Symmetric
CHECK_DEADLOCK FALSE
INVARIANTS TypeOK ServesCurrentEntries ReadableAtRest
