------------------------------- MODULE Zones -------------------------------
(***************************************************************************)
(* Creating a zone (management, src/zones): the service reads the polygon  *)
(* of the request position by position, has its geometry checked and       *)
(* stores it.  The validator is PurePolygonValidator, which mirrors the    *)
(* two PostGIS predicates.  Coordinates are integers.                      *)
(***************************************************************************)
EXTENDS Integers, Sequences, FiniteSets, FiniteSetsExt

CONSTANTS
  Position,    \* <<lng, lat>>
  RingMax,     \* bound on the positions of a polygon
  MinVertices, MaxVertices,  \* ZONE_MIN_VERTICES, ZONE_MAX_VERTICES
  NameMax      \* ZONE_NAME_MAX, ARRIVAL_LABEL_MAX

ASSUME ZonesAssumption ==
  /\ Position \subseteq Int \X Int
  /\ {RingMax, MinVertices, MaxVertices, NameMax} \subseteq Nat

VARIABLES
  ring,        \* what toRing has read of the polygon
  malformed,   \* it met something that is no position
  zones,       \* the repository
  answer       \* the fields the call rejected, or Pending

Pending == {"pending"}
zoneVars == <<ring, malformed, zones, answer>>

ZonesInit == ring = <<>> /\ malformed = FALSE /\ zones = {} /\ answer = Pending

-----------------------------------------------------------------------------
(***************************************************************************)
(* geometry.ts.                                                            *)
(***************************************************************************)

\* The sign of the turn from p over q to r: 0 when they are on a line.
Orientation(p, q, r) ==
  LET val == (q[2] - p[2]) * (r[1] - q[1]) - (q[1] - p[1]) * (r[2] - q[2])
  IN  IF val = 0 THEN 0 ELSE IF val > 0 THEN 1 ELSE 2

Between(a, x, b) == x \in Min({a, b}) .. Max({a, b})
OnSegment(p, q, r) == Between(p[1], q[1], r[1]) /\ Between(p[2], q[2], r[2])

SegmentsIntersect(p1, p2, p3, p4) ==
  \/ /\ Orientation(p1, p2, p3) # Orientation(p1, p2, p4)
     /\ Orientation(p3, p4, p1) # Orientation(p3, p4, p2)
  \/ Orientation(p1, p2, p3) = 0 /\ OnSegment(p1, p3, p2)
  \/ Orientation(p1, p2, p4) = 0 /\ OnSegment(p1, p4, p2)
  \/ Orientation(p3, p4, p1) = 0 /\ OnSegment(p3, p1, p4)
  \/ Orientation(p3, p4, p2) = 0 /\ OnSegment(p3, p2, p4)

\* Adjacent edges a, b that run back over each other.
CollinearOverlap(a1, a2, b1, b2) ==
  /\ Orientation(a1, a2, b1) = 0 /\ Orientation(a1, a2, b2) = 0
  /\ (a2 = b1 /\ OnSegment(a1, b2, a2)) \/ (a1 = b2 /\ OnSegment(b1, a2, b2))

IsClosed(r) == Len(r) >= 4 /\ r[1] = r[Len(r)]

\* Edge i leads from r[i] to r[i + 1]; the closing position is the last.
MutAdjacent(i, j, n) == j = i + 1
Adjacent(i, j, n) == j = i + 1 \/ (i = 1 /\ j = n)
IsSimplePolygon(r) ==
  LET n == Len(r) - 1 IN
  /\ IsClosed(r)
  /\ \A i, j \in 1..n : i < j =>
       IF Adjacent(i, j, n) THEN ~CollinearOverlap(r[i], r[i+1], r[j], r[j+1])
       ELSE ~SegmentsIntersect(r[i], r[i+1], r[j], r[j+1])

DistinctVertexCount(r) ==
  IF Len(r) >= 2 /\ r[1] = r[Len(r)] THEN Len(r) - 1 ELSE Len(r)

-----------------------------------------------------------------------------
(***************************************************************************)
(* zone-service.ts.                                                        *)
(***************************************************************************)

IsPolygonInvalid ==
  \/ malformed
  \/ DistinctVertexCount(ring) \notin MinVertices..MaxVertices
  \/ ~IsSimplePolygon(ring)

\* The loop of toRing: the next position, or the end of it.
ReadPosition(p) ==
  /\ answer = Pending /\ ~malformed /\ Len(ring) < RingMax
  /\ ring' = Append(ring, p)
  /\ UNCHANGED <<malformed, zones, answer>>
ReadGarbage ==
  /\ answer = Pending /\ ~malformed
  /\ malformed' = TRUE /\ UNCHANGED <<ring, zones, answer>>

\* create, with names as their lengths: a name of length 0 is missing or blank,
\* a label of length NoLabel is not given.
NoLabel == -1
Offences(name, label) ==
  (IF name \in 1..NameMax THEN {} ELSE {"name"})
    \cup (IF label \in {NoLabel} \cup 1..NameMax THEN {} ELSE {"arrivalLabel"})
    \cup (IF IsPolygonInvalid THEN {"polygon"} ELSE {})

Create(name, label) ==
  /\ answer = Pending
  /\ answer' = Offences(name, label)
  /\ zones' = IF answer' # {} THEN zones
              ELSE zones \cup {[name |-> name, label |-> label, polygon |-> ring]}
  /\ UNCHANGED <<ring, malformed>>

ZonesNext ==
  \/ \E p \in Position : ReadPosition(p)
  \/ ReadGarbage
  \/ \E name \in 0..NameMax + 1, label \in NoLabel..NameMax + 1 : Create(name, label)

ZonesSpec == ZonesInit /\ [][ZonesNext]_zoneVars

-----------------------------------------------------------------------------
(***************************************************************************)
(* Properties.                                                             *)
(***************************************************************************)

\* A reference for "two segments have a common point", by Cramer's rule: for
\* p + s(q - p) = u + t(v - u) with s and t in 0..1, or, on one line, some end
\* of one within the other.
Cross(a, b) == a[1] * b[2] - a[2] * b[1]
Minus(a, b) == <<a[1] - b[1], a[2] - b[2]>>
InUnit(num, den) == IF den > 0 THEN num \in 0..den ELSE num \in den..0
Meet(p, q, u, v) ==
  LET d == Minus(q, p)  e == Minus(v, u)  w == Minus(u, p)  den == Cross(d, e)
  IN  IF den # 0 THEN InUnit(Cross(w, e), den) /\ InUnit(Cross(w, d), den)
      ELSE \/ \E x \in {u, v} : Cross(d, Minus(x, p)) = 0 /\ OnSegment(p, x, q)
           \/ \E x \in {p, q} : Cross(e, Minus(x, u)) = 0 /\ OnSegment(u, x, v)

\* The boundary of r is a simple curve: no position comes twice, edges that are
\* not neighbours have no common point, and no edge runs back over the one before.
Simple(r) ==
  LET n == Len(r) - 1
      next(i) == (i % n) + 1
      Back(p, q, v) == /\ Cross(Minus(q, p), Minus(v, q)) = 0
                       /\ OnSegment(p, v, q) \/ OnSegment(q, p, v)
  IN  /\ \A i, j \in 1..n : i # j => r[i] # r[j]
      /\ \A i, j \in 1..n :
           next(i) # j /\ next(j) # i /\ i # j => ~Meet(r[i], r[i+1], r[j], r[j+1])
      /\ \A i \in 1..n : ~Back(r[i], r[next(i)], r[next(next(i))])

\* Requirements 6.1 and 6.2: what is stored is a zone, a closed ring of at
\* least three positions that does not cross or touch itself, and a request
\* that describes such a zone is not rejected for its polygon.
StoredAreSimple ==
  /\ \A z \in zones : /\ IsClosed(z.polygon) /\ Simple(z.polygon)
                      /\ Len(z.polygon) - 1 \in MinVertices..MaxVertices
                      /\ z.name \in 1..NameMax /\ z.label \in {NoLabel} \cup 1..NameMax
  /\ answer # Pending /\ "polygon" \in answer /\ ~malformed =>
       \/ DistinctVertexCount(ring) \notin MinVertices..MaxVertices
       \/ ~IsClosed(ring) \/ ~Simple(ring)

\* A call either stores one zone or names what is wrong, never both.
AnswerOrZone == answer # Pending => (answer = {} <=> zones # {})

\* A zone is stored if, and only if, the request was right.
ZonesSafe == StoredAreSimple /\ AnswerOrZone
=============================================================================
