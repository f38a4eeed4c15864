CONSTANTS
  v1 = v1
  v2 = v2
  p1 = p1
  p2 = p2
  p3 = p3
  Vehicle = {v1, v2}
  Ping = {p1, p2, p3}
  Zone = {1, 2}
  Labelled = {1}
SPECIFICATION Spec
SYMMETRY MCSymmetry
INVARIANTS
  EventsMatchMembership
  PublishedInOrder
