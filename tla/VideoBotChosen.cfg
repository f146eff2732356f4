SPECIFICATION Spec
CONSTANTS
  Updates = {c1, c2}
  URLs = {u1}
  Users = {p1}
  Capacity = 1
  Limit = 2
  None = None
PROPERTIES
  ChosenResultIsFound
