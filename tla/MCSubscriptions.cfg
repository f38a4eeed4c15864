CONSTANTS
  t1 = t1
  t2 = t2
  v1 = v1
  v2 = v2
  Topic = {v1, v2}
  Transport = {t1, t2}
  Timer = {1, 2}
  MaxWire = 3
  ScheduleSize = 2
  NoTransport = NoTransport
  NoTimer = NoTimer
SPECIFICATION SocketSpec
INVARIANT RoomsFollowSubscriptions
CHECK_DEADLOCK FALSE
