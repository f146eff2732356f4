SPECIFICATION Spec
CONSTANTS
  Updates = {c1, c2, c3}
  URLs = {u1, u2}
  Users = {p1}
  Capacity = 1
  Limit = 1
  None = None
SYMMETRY Symmetry
CONSTRAINT Bounds
INVARIANTS
  TypeOK
  AnswersAgree
  HitsComeFromJobs
  RateLimitIsExact
  TurnedAwayForAReason
