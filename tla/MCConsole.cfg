CONSTANTS
  t1 = t1
  t2 = t2
  Topic = {"v1", "v2"}
  Transport = {t1, t2}
  Timer = {1, 2}
  MaxWire = 3
  ScheduleSize = 2
  NoTransport = NoTransport
  NoTimer = NoTimer
  Vehicle = {"v1", "v2"}
  Seeded = {"v1"}
  MaxTime = 3
  Window = 1
  TraceCap = 2
  FeedLimit = 2
  MaxFrames = 4
  MapVehicle = {"v1", "v2"}
  Status = {"Available", "On_Delivery"}
  Zone = {"z"}
  Enough = 1
  Nothing = Nothing
  MaxHeld = 2
  NoRoute = NoRoute
  Url = {"u1", "u2"}
  Token = {"primary"}
  MaxLoads = 4
  NoUrl = NoUrl
  MaxToasts = 3
  MaxRenders = 3
  Loop <- MCLoop
  SimZone <- MCZones
  Distance = {1, 2, 12}
  Rows = 2
  RowStatus = {"A", "B"}
  OtherStatus = "C"
  Cell = {1, 2}
  Null = Null
  Staff = 2
  Van = {"v1", "v2"}
  Manifest <- MCManifest
  Stored = {1, 2}
  NoVan = NoVan
SPECIFICATION ConsoleSpec
INVARIANTS
  SocketSafe
  MapSafe
  BrandSafe
  SimulationSafe
  OperationsSafe
PROPERTIES
  SocketReturns
  FleetShowsTheFrames
  SpinYields
  ShellSafe
  WidgetsSafe
CHECK_DEADLOCK FALSE
