SPECIFICATION Spec
CONSTANTS
  Updates = {c1, c2}
  URLs = {u1, u2}
  Users = {p1}
  Workers = {w1}
  Capacity = 1
  None = None
PROPERTIES
  GracefulShutdown
