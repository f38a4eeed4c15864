CONSTANTS
  r1 = r1
  r2 = r2
  r3 = r3
  v1 = v1
  v2 = v2
  Request <- MCRequest
  Vehicle <- MCVehicle
  Timestamp <- MCTimestamp
SYMMETRY MCSymmetry
SPECIFICATION Spec
INVARIANTS
  StoreAgrees
  SaidIsDurable
PROPERTIES
  MarksAdvance
CHECK_DEADLOCK FALSE
