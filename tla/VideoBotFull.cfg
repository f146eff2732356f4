SPECIFICATION Spec
CONSTANTS
  Updates = {c1, c2}
  URLs = {u1}
  Users = {p1}
  Capacity = 2
  Limit = 1
  None = None
INVARIANTS
  FullMeansFull
