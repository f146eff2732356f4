SPECIFICATION Spec
CONSTANTS
  Adds = {g1, g2}
  Queries = {q1, q2}
  Files = {f1, f2}
  Cap = 2
CHECK_DEADLOCK FALSE
INVARIANTS
  ResultIdNamesOneVideo
