SPECIFICATION Spec
CONSTANTS
  Updates = {c1, c2, c3}
  URLs = {u1, u2}
  Users = {p1}
  Workers = {w1, w2}
  Capacity = 1
  None = None
SYMMETRY Symmetry
INVARIANTS
  TypeOK
  SingleFlight
  ClaimsAreOwned
  TmpDirUnderClaim
  AcceptedIsAccountedFor
  StoresAgree
PROPERTIES
  CacheWriteUnderClaim
