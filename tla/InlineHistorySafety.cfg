SPECIFICATION Spec
CONSTANTS
  Adds = {g1, g2, g3}
  Queries = {q1}
  Files = {f1, f2, f3}
  Cap = 2
SYMMETRY Symmetry
CHECK_DEADLOCK FALSE
INVARIANTS
  TypeOK
  MissedMeansOlder
  HistoryIsCut
  HistoryExpires
