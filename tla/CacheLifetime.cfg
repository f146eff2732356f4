SPECIFICATION Spec
CONSTANTS
  Queries = {q1, q2, q3}
  Limit = 1
  Hour = 2
  TTL = 2
  HotTTL = 3
  MaxTime = 4
  None = None
  Forever = Forever
SYMMETRY Symmetry
CONSTRAINT OneFailure
CHECK_DEADLOCK FALSE
INVARIANTS
  TypeOK
  PerHour
  QuietUserIsFree
  UseKeepsCached
PROPERTIES
  ReplacedByLatecomersOnly
