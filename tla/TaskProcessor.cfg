SPECIFICATION Spec
CONSTANTS
  Worker = {w1, w2}
  Client = {c1, c2}
  Queue = {q1, q2}
  Element = {e1, e2}
  MaxCalls = 5
  Outstanding = 1
SYMMETRY ProcessorSymmetry
INVARIANTS
  MapsAgree
  RunOnce
  NothingStranded
CHECK_DEADLOCK FALSE
