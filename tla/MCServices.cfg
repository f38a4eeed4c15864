CONSTANTS
  a1 = a1
  a2 = a2
  b1 = b1
  b2 = b2
  e1 = e1
  e2 = e2
  e3 = e3
  p1 = p1
  p2 = p2
  RDelivery = {1, 2, 3}
  RAssignment = {a1}
  Build = {b1, b2}
  MinStops = 2
  MaxStops = 2
  Answer <- MCAnswer
  MaxBuilds = 2
  NoRouteYet = NoRouteYet
  Elsewhere = Elsewhere
  StopCount = 4
  Parcels = 2
  Load = {a1, a2}
  Truck = {"t1", "t2"}
  Handling = {"e1"}
  MaxChanges = 2
  Unassigned = Unassigned
  Email = {"e"}
  StaffRole = {"Administrator", "Driver"}
  Password = {"p"}
  TrackedDelivery = {"x", "y"}
  Second = 2
  AccessTtl = 2
  RefreshTtl = 2
  TrackingTtl = 1
  MaxClock = 9
  MaxTokens = 2
  NoAccount = NoAccount
  Stops = 2
  QueueSize = 2
  Flush = {"f1", "f2"}
  MaxPings = 3
  MaxPositions = 3
  VertexMax = 5
  Position <- MCPositions
  RingMax = 5
  MinVertices = 3
  MaxVertices = 4
  NameMax = 1
  Subject = {"x", "y"}
  Instant = {1, 2}
  LogSize = 3
  Event = {e1, e2, e3}
  Retrier = {p1, p2}
  MaxZoneEventRetries = 3
  Account = {"k"}
  Spelling = {"k", "K"}
  Canonical = "k"
  Owner = {"o1", "o2"}
  Unowned = Unowned
  Slot = {1, 2}
  MaxRecords = 2
  MaxInstant = 1
  MaxDriverChanges = 3
SPECIFICATION ServicesSpec
INVARIANTS
  RoutesSafe
  NoticesSafe
  SessionsSafe
  PhoneSafe
  TrackingSafe
  FieldsNameTheFaults
  ZonesSafe
  ReportsSafe
  OptimizerSafe
  DeliverySafe
  RegistersSafe
PROPERTIES
  RoutesAdvance
  FlushesEnd
  DeliveryKept
CHECK_DEADLOCK FALSE
