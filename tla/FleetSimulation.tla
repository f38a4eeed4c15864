--------------------------- MODULE FleetSimulation ---------------------------
(***************************************************************************)
(* The simulation behind the dashboard's demo mode (sim/fleetSimulation.ts) *)
(* for one of its vehicles, which do not influence each other: it walks a  *)
(* closed route by the distance of each tick and reports its position and  *)
(* the zones it enters and leaves.                                         *)
(*                                                                         *)
(* The plane is a grid of metres and the segments of the route are         *)
(* parallel to its axes, so that every point of the walk is on the grid.   *)
(***************************************************************************)
EXTENDS Integers, Sequences, FiniteSets

CONSTANTS
  Loop,       \* the points <<lng, lat>> of the loop; two neighbours may be equal
  SimZone,     \* zones, each by its south-west and north-east corners
  Distance     \* what a tick covers: speed * dtMs / 1000

ASSUME SimulationAssumption ==
  /\ Loop \in Seq(Int \X Int) /\ Loop # <<>>
  /\ \A z \in SimZone : /\ z \in (Int \X Int) \X (Int \X Int)
                        /\ z[1][1] < z[2][1] /\ z[1][2] < z[2][2]
  /\ Distance \subseteq Nat \ {0}

VARIABLES
  segIndex, segFrac,   \* the segment and how many metres of it are behind
  position,    \* lng and lat
  heading,     \* the segment whose bearing it has
  inside,      \* the zones it is in
  frames,      \* the zone events of the last tick, <<type, zone>>
  travelled,   \* history: metres from the first point, modulo the loop
  lastEvent    \* history: the last event of each zone

simVars == <<segIndex, segFrac, position, heading, inside, frames, travelled, lastEvent>>

Segment   == DOMAIN Loop
NextOf(i) == (i % Len(Loop)) + 1
Abs(n)    == IF n < 0 THEN -n ELSE n

\* segmentMetres(a, b) || 1
SegLen(i) ==
  LET metres == Abs(Loop[NextOf(i)][1] - Loop[i][1]) + Abs(Loop[NextOf(i)][2] - Loop[i][2])
  IN  IF metres = 0 THEN 1 ELSE metres

\* From a towards b; on a segment of length 0 the point stays.
PointAt(i, frac) ==
  LET a == Loop[i]  b == Loop[NextOf(i)]
      Part(x, y) == x + ((y - x) * frac) \div SegLen(i)
  IN  <<Part(a[1], b[1]), Part(a[2], b[2])>>

\* pointInRing, for the closed ring of a zone: edges that pass the latitude to
\* the east of the point, counted modulo 2.
RingOf(z) ==
  <<<<z[1][1], z[2][2]>>, z[2], <<z[2][1], z[1][2]>>, z[1], <<z[1][1], z[2][2]>>>>
Passes(yi, yj, y) == (yi > y) # (yj > y)
InRing(p, ring) ==
  LET n == Len(ring) - 1
      crosses(i) ==
        LET xi == ring[i][1]  yi == ring[i][2]  xj == ring[i+1][1]  yj == ring[i+1][2]
            east == (xj - xi) * (p[2] - yi) - (p[1] - xi) * (yj - yi)
        IN  Passes(yi, yj, p[2]) /\ (IF yj > yi THEN east > 0 ELSE east < 0)
  IN  Cardinality({i \in 1..n : crosses(i)}) % 2 = 1

ZonesAt(p) == {z \in SimZone : InRing(p, RingOf(z))}

\* The distance from the first point to the start of segment i.
Before[i \in 1..Len(Loop) + 1] == IF i = 1 THEN 0 ELSE Before[i - 1] + SegLen(i - 1)
LoopLength == Before[Len(Loop) + 1]

\* The constructor: anywhere on a segment, but reported at its start.
SimInit ==
  /\ segIndex \in Segment /\ segFrac \in 0..SegLen(segIndex) - 1
  /\ position = Loop[segIndex] /\ heading = segIndex
  /\ inside = ZonesAt(position)
  /\ frames = {}
  /\ travelled = Before[segIndex] + segFrac
  /\ lastEvent = [z \in SimZone |-> "none"]

\* The loop of tick: where a vehicle gets from a segment, frac metres behind,
\* with rest metres to go.
Stage == [seg : Segment, frac : Nat, rest : Nat]
Walk[w \in Stage] ==
  LET remain == SegLen(w.seg) - w.frac IN
  IF w.rest < remain THEN [seg |-> w.seg, frac |-> w.frac + w.rest, last |-> w.seg]
  ELSE IF w.rest = remain THEN [seg |-> NextOf(w.seg), frac |-> 0, last |-> w.seg]
  ELSE Walk[[seg |-> NextOf(w.seg), frac |-> 0, rest |-> w.rest - remain]]

Events(was, is) ==
  {<<"Enter", z>> : z \in is \ was} \cup {<<"Exit", z>> : z \in was \ is}

MutMove(i, frac, metres) ==
  IF frac + metres < SegLen(i) THEN [seg |-> i, frac |-> frac + metres, last |-> i]
  ELSE [seg |-> NextOf(i), frac |-> 0, last |-> i]
Move(i, frac, metres) == Walk[[seg |-> i, frac |-> frac, rest |-> metres]]

SimTick(metres) ==
  LET end == Move(segIndex, segFrac, metres)
      now == ZonesAt(PointAt(end.seg, end.frac))
  IN  /\ segIndex' = end.seg /\ segFrac' = end.frac /\ heading' = end.last
      /\ position' = PointAt(end.seg, end.frac)
      /\ inside' = now
      /\ frames' = Events(inside, now)
      /\ travelled' = (travelled + metres) % LoopLength
      /\ lastEvent' = [z \in SimZone |->
           IF <<"Enter", z>> \in frames' THEN "Enter"
           ELSE IF <<"Exit", z>> \in frames' THEN "Exit" ELSE lastEvent[z]]

SimNext == \E metres \in Distance : SimTick(metres)
SimSpec == SimInit /\ [][SimNext]_simVars
-----------------------------------------------------------------------------
(***************************************************************************)
(* Properties.                                                             *)
(***************************************************************************)

\* No metre is lost or walked twice, however many corners a tick passes and
\* wherever it ends: a vehicle is where the metres of all its ticks take it.
DistanceKept == Before[segIndex] + segFrac = travelled % LoopLength

\* The zones are half-open rectangles, so that neighbours share no point; the
\* vehicle is inside those its reported position is in, and the last event of
\* a zone, if there was one, says the same.
InRectangle(p, z) == p[1] \in z[1][1] .. z[2][1] - 1 /\ p[2] \in z[1][2] .. z[2][2] - 1
EventsTellWhereItIs ==
  \A z \in SimZone :
    /\ z \in inside <=> InRectangle(position, z)
    /\ lastEvent[z] = "Enter" => z \in inside
    /\ lastEvent[z] = "Exit" => z \notin inside

\* The position is on the segment the vehicle has reached, or, before the first
\* tick, at its start.
PositionIsReached == position \in {PointAt(segIndex, segFrac), Loop[segIndex]}

\* What the constructor would need: the first position is that of the walk.
StartsWhereItIs == position = PointAt(segIndex, segFrac)

\* The simulated vehicle walks its route and reports where it is.
SimulationSafe == DistanceKept /\ EventsTellWhereItIs /\ PositionIsReached
=============================================================================
