SPECIFICATION Spec
CONSTANTS
  Commands = {c1, c2, c3}
  u1 = u1
  u2 = u2
  Users = {u1, u2}
  Entries <- OneAndAWord
  Malformed = Malformed
  MaxDownloads = 1
SYMMETRY Symmetry
CONSTRAINTS
  OneStats
  OneName
  OneRemoval
CHECK_DEADLOCK FALSE
INVARIANTS
  TypeOK
  AdminsAreAppointed
  RemovedAreStopped
  NamesStayKnown
  StatsAddUp
