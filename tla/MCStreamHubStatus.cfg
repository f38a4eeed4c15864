CONSTANTS
  r1 = r1
  r2 = r2
  k1 = k1
  k2 = k2
  room1 = room1
  room2 = room2
  m1 = m1
  m2 = m2
  c1 = c1
  c2 = c2
  c3 = c3
  None = None
  Replica = {r1}
  Key = {k1}
  Room = {room1}
  Message = {m1}
  Conn = {c1, c2}
  Stalled = {}
  SharedKeys = {k1}
SPECIFICATION Spec
CHECK_DEADLOCK FALSE
INVARIANTS
  DisconnectedHasNone
