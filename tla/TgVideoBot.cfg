SPECIFICATION System
CONSTANTS
  Updates = {c1, c2}
  URLs = {u1, u2}
  Users = {p1}
  Workers = {w1}
  Capacity = 1
  Limit = 1
  None = None
SYMMETRY Symmetry
CONSTRAINT Bounds
INVARIANTS
  OneOutcomePerRequest
  HitsWereUploaded
PROPERTIES
  ImplementsVideoBot
