----------------------------- MODULE FleetState -----------------------------
(***************************************************************************)
(* What the dashboard keeps of the frames it receives: the fleet and its   *)
(* traces (map/useFleetState.ts) and the activity feed                     *)
(* (operations/useActivityFeed.ts), fed by SocketClient.handleMessage.     *)
(*                                                                         *)
(* A position is abstracted to the timestamp it was taken at, and whether  *)
(* it carries a heading; frames arrive in any order of their timestamps.   *)
(***************************************************************************)
EXTENDS Naturals, Sequences, SequencesExt, Ordering

CONSTANTS
  Vehicle,   \* ids the stream reports
  Seeded,    \* those of the demo seed, which are shown from the start
  MaxTime,   \* bound on clock and timestamps
  Window,    \* TRACE_WINDOW_MS
  TraceCap,  \* the hard cap on a trace
  FeedLimit, \* limit of the feed
  MaxFrames  \* bound on the frames received

ASSUME FleetAssumption ==
  /\ {MaxTime, Window, FeedLimit} \subseteq Nat /\ TraceCap \in Nat \ {0}
  /\ Seeded \subseteq Vehicle

VARIABLES
  now,       \* Date.now(), the dashboard's clock
  shown,     \* vehicles: the marker of each vehicle, if there is one
  traces,    \* tracesByVehicle
  feed,      \* entries of the feed: their sequence numbers, newest first
  received,  \* history: <<timestamp, arrival>> of each frame of a vehicle
  seq        \* the module's counter of zone events

fleetVars == <<now, shown, traces, feed, received, seq>>

NoMarker == [at |-> 0, heading |-> 0, status |-> "none", kind |-> "none"]
Seed     == [at |-> 0, heading |-> 1, status |-> "seeded", kind |-> "ground"]

FleetInit ==
  /\ now = 0
  /\ shown = [v \in Vehicle |-> IF v \in Seeded THEN Seed ELSE NoMarker]
  /\ traces = [v \in Vehicle |-> IF v \in Seeded THEN <<0>> ELSE <<>>]
  /\ feed = <<>>
  /\ received = [v \in Vehicle |-> IF v \in Seeded THEN <<<<0, 0>>>> ELSE <<>>]
  /\ seq = 0

InWindow(t, at) == t + Window >= at
FirstOf(s, n)   == SubSeq(s, 1, IF Len(s) > n THEN n ELSE Len(s))
LastOf(s, n)    == SubSeq(s, IF Len(s) > n THEN Len(s) - n + 1 ELSE 1, Len(s))

Kept(s, at) == SelectAt(s, {i \in DOMAIN s : InWindow(s[i], at)})
MutBoundedKeepsOldest(s, at) == FirstOf(Kept(s, at), TraceCap)
Bounded(s, at) == LastOf(Kept(s, at), TraceCap)

\* The marker's next value: what a frame does not carry is kept.
Merge(old, t, heading) ==
  [at      |-> t,
   heading |-> IF heading # 0 THEN heading ELSE old.heading,
   status  |-> IF old = NoMarker THEN "On_Delivery" ELSE old.status,
   kind    |-> IF old = NoMarker THEN "fromId" ELSE old.kind]

\* heading 0: the frame has none.
OnPosition(v, t, heading) ==
  /\ shown' = [shown EXCEPT ![v] = Merge(@, t, heading)]
  /\ traces' = [traces EXCEPT ![v] = Bounded(Append(@, t), now)]
  /\ received' = [received EXCEPT ![v] = Append(@, <<t, now>>)]
  /\ UNCHANGED <<now, feed, seq>>

OnZoneEvent ==
  /\ seq' = seq + 1
  /\ feed' = FirstOf(<<seq'>> \o feed, FeedLimit)
  /\ UNCHANGED <<now, shown, traces, received>>

Frames == seq + FoldFunction(LAMBDA s, n : Len(s) + n, 0, received)

\* handleMessage: a frame of another event, or one that does not parse, is dropped.
Tick == now < MaxTime /\ now' = now + 1 /\ UNCHANGED <<shown, traces, feed, received, seq>>

FleetNext ==
  \/ /\ Frames < MaxFrames
     /\ \/ \E v \in Vehicle, t \in 0..MaxTime, heading \in 0..1 : OnPosition(v, t, heading)
        \/ OnZoneEvent
  \/ Tick

FleetSpec == FleetInit /\ [][FleetNext]_fleetVars
-----------------------------------------------------------------------------
(***************************************************************************)
(* What the map draws (map/geo.ts).                                        *)
(***************************************************************************)

\* windowTrace: the samples of the last hour, by time and, at one time, as they came.
InHour(s)      == {i \in DOMAIN s : InWindow(s[i], now) /\ s[i] <= now}
ByTime(s, I)   == {p \in I \X I : s[p[1]] < s[p[2]] \/ (s[p[1]] = s[p[2]] /\ p[1] < p[2])}
PathTrace(v) ==
  LET s == traces[v]  at == OrderedBy(InHour(s), ByTime(s, InHour(s)))
  IN  [n \in DOMAIN at |-> s[at[n]]]

-----------------------------------------------------------------------------
(***************************************************************************)
(* Properties.                                                             *)
(***************************************************************************)

\* Types of the variables; a trace and the feed never outgrow their limits,
\* which is what keeps the memory of a long session bounded.
FleetTypeOK ==
  /\ now \in 0..MaxTime
  /\ shown \in [Vehicle -> [at : 0..MaxTime, heading : 0..1,
                           status : {"none", "seeded", "On_Delivery"},
                           kind : {"none", "ground", "fromId"}]]
  /\ \A v \in Vehicle : Len(traces[v]) <= TraceCap
  /\ Len(feed) <= FeedLimit

\* Trimming a trace at each frame loses nothing that the last hour is made
\* of: the trace drawn is in time order and shows each of a vehicle's last
\* TraceCap frames that was taken in the hour before now (design, Property
\* 14), however late and in whatever order they arrived.
TraceShowsTheHour ==
  \A v \in Vehicle :
    /\ \A i, j \in DOMAIN PathTrace(v) : i < j => PathTrace(v)[i] <= PathTrace(v)[j]
    /\ \A frame \in ToSet(LastOf(received[v], TraceCap)) :
         InWindow(frame[1], now) /\ frame[1] <= now => frame[1] \in ToSet(PathTrace(v))

\* For frames in time order, trimming step by step is the same as trimming
\* everything received at once when the last one came.
Times(s)       == [i \in DOMAIN s |-> s[i][1]]
InTimeOrder(s) == \A i, j \in DOMAIN s : i < j => s[i][1] <= s[j][1]
TrimmedAtOnce ==
  \A v \in Vehicle : received[v] # <<>> /\ InTimeOrder(received[v]) =>
    traces[v] = Bounded(Times(received[v]), received[v][Len(received[v])][2])

\* The feed shows the newest events, newest first and each once.
FeedIsNewest ==
  \A i \in 1..FeedLimit : i <= seq => i \in DOMAIN feed /\ feed[i] = seq - i + 1

\* A frame that says less than its predecessors takes nothing back: heading,
\* driver status and kind of a marker survive frames without them.
KnownStaysKnown ==
  [][\A v \in Vehicle : shown[v] # NoMarker =>
       /\ shown[v].heading # 0 => shown'[v].heading # 0
       /\ shown'[v].status = shown[v].status
       /\ shown'[v].kind = shown[v].kind]_fleetVars

\* What a "current position" would need (requirement 5.1): a marker never goes
\* back in time.
MarkerMovesForward == [][\A v \in Vehicle : shown'[v].at >= shown[v].at]_fleetVars

\* What the dashboard shows is what the frames have said, recent and complete.
FleetShowsTheFrames ==
  /\ [](FleetTypeOK /\ TraceShowsTheHour /\ TrimmedAtOnce /\ FeedIsNewest)
  /\ KnownStaysKnown
=============================================================================
