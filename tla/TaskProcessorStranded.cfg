SPECIFICATION Spec
CONSTANTS
  Worker = {w1}
  Client = {c1}
  Queue = {q1}
  Element = {e1}
  MaxCalls = 3
  Outstanding = 2
INVARIANTS
  NothingStranded
CHECK_DEADLOCK FALSE
