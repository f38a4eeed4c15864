CONSTANTS
  d1 = d1
  d2 = d2
  v1 = v1
  v2 = v2
  l1 = l1
  l2 = l2
  a1 = a1
  a2 = a2
  r1 = r1
  r2 = r2
  None = None
  Driver <- MCDriver
  Vehicle <- MCVehicle
  Delivery <- MCDelivery
  Assignment <- MCAssignment
  Request <- MCTwoSlots
SPECIFICATION CallSpec
PROPERTY TerminalIsFinal
