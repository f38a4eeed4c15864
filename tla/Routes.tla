------------------------------- MODULE Routes -------------------------------
(***************************************************************************)
(* Building the route of an assignment (management, src/routes): list its  *)
(* deliveries, ask the vehicle's position and the optimizer, check the     *)
(* answer, save the route, publish it.  Each await is a step, so builds    *)
(* overlap with each other and with deliveries being moved between         *)
(* assignments.                                                            *)
(*                                                                         *)
(* Deliveries are numbered in the order of the repository's map, which is  *)
(* the order listByAssignmentId returns them in and never changes.  What   *)
(* createdAt does, the route's id does too.                                *)
(***************************************************************************)
EXTENDS RouteBuilder

CONSTANTS
  RDelivery,          \* a set of numbers
  RAssignment, Build, \* calls of createOrUpdateRoute that may run at a time
  MinStops, MaxStops, \* OPTIMIZE_MIN_STOPS, OPTIMIZE_MAX_STOPS
  Answer,             \* what an optimizer may answer: [sequence, groups]
  MaxBuilds,          \* bound on builds started
  NoRouteYet, Elsewhere

ASSUME RoutesAssumption ==
  /\ RDelivery \subseteq Nat /\ IsFiniteSet(RDelivery) /\ MinStops \in Nat /\ MaxStops \in Nat
  /\ MinStops <= MaxStops /\ MaxBuilds \in Nat
  /\ NoRouteYet \notin RAssignment /\ Elsewhere \notin RAssignment
  /\ \A answer \in Answer : answer.sequence \in Seq(Nat)

VARIABLES
  linkedTo,    \* the assignmentId of each delivery
  routes,      \* the repository
  builds,      \* the calls
  shownRoute,  \* the last event published for an assignment: what the driver has
  started,     \* builds started: also numbers the listings and the new ids
  clean        \* history: no two builds of the assignment overlapped, none failed

routeVars == <<linkedTo, routes, builds, shownRoute, started, clean>>

Idle == [pc |-> "idle"]
Listing(a) == InOrder({d \in RDelivery : linkedTo[d] = a})

RoutesInit ==
  /\ linkedTo \in [RDelivery -> RAssignment \cup {Elsewhere}]
  /\ routes = [a \in RAssignment |-> NoRouteYet]
  /\ builds = [c \in Build |-> Idle]
  /\ shownRoute = [a \in RAssignment |-> NoRouteYet]
  /\ started = 0
  /\ clean = [a \in RAssignment |-> TRUE]

-----------------------------------------------------------------------------
(***************************************************************************)
(* The stops of a route, in the assigned order or the optimizer's.         *)
(***************************************************************************)

Unoptimized(ids) ==
  [stops |-> AssignedOrderStops(ids), optimized |-> Len(ids) < MinStops]
FromAnswer(answer, ids) ==
  IF IsExactCover(answer.sequence, ids)
  THEN [stops |-> OptimizedStops(answer.sequence, answer.groups, ids), optimized |-> TRUE]
  ELSE Unoptimized(ids)

-----------------------------------------------------------------------------
(***************************************************************************)
(* createOrUpdateRoute, step by step.                                      *)
(***************************************************************************)

Running(a) == {c \in Build : builds[c].pc # "idle" /\ builds[c].assignment = a}

\* requireAssignment and listByAssignmentId; out of the bounds of the optimizer
\* the stops are final at once.
Start(c, a) ==
  /\ builds[c].pc = "idle" /\ started < MaxBuilds
  /\ started' = started + 1
  /\ clean' = [clean EXCEPT ![a] = @ /\ Running(a) = {}]
  /\ LET ids == Listing(a)
         asks == Len(ids) \in MinStops..MaxStops
     IN  builds' = [builds EXCEPT ![c] =
           [pc |-> IF asks THEN "locate" ELSE "read", assignment |-> a, ids |-> ids,
            number |-> started', id |-> started', built |-> Unoptimized(ids),
            overLimit |-> Len(ids) > MaxStops]]
  /\ UNCHANGED <<linkedTo, routes, shownRoute>>

\* The vehicle's position, or none, which ends the attempt to optimize.
Locate(c) ==
  /\ builds[c].pc = "locate"
  /\ builds' \in {[builds EXCEPT ![c].pc = p] : p \in {"optimize", "read"}}
  /\ UNCHANGED <<linkedTo, routes, shownRoute, started, clean>>

\* withTimeout settles once: with the answer, or with an error or the timeout,
\* after which the answer changes nothing.
Answered(c) ==
  /\ builds[c].pc = "optimize"
  /\ \E answer \in Answer :
       builds' = [builds EXCEPT ![c].pc = "read", ![c].built = FromAnswer(answer, builds[c].ids)]
  /\ UNCHANGED <<linkedTo, routes, shownRoute, started, clean>>

FailedOrTimedOut(c) ==
  /\ builds[c].pc = "optimize"
  /\ builds' = [builds EXCEPT ![c].pc = "read"]
  /\ UNCHANGED <<linkedTo, routes, shownRoute, started, clean>>

\* findByAssignmentId: the route that is there keeps its id.
MutReadNewId(c) ==
  /\ builds[c].pc = "read"
  /\ builds' = [builds EXCEPT ![c].pc = "upsert"]
  /\ UNCHANGED <<linkedTo, routes, shownRoute, started, clean>>
Read(c) ==
  /\ builds[c].pc = "read"
  /\ LET old == routes[builds[c].assignment]
     IN  builds' = [builds EXCEPT ![c].pc = "upsert",
                                  ![c].id = IF old = NoRouteYet THEN @ ELSE old.id]
  /\ UNCHANGED <<linkedTo, routes, shownRoute, started, clean>>

\* of and listing are history: what the route was built from.
Saved(b) ==
  [id |-> b.id, stops |-> b.built.stops, optimized |-> b.built.optimized,
   of |-> b.ids, listing |-> b.number, overLimit |-> b.overLimit]

Upsert(c) ==
  /\ builds[c].pc = "upsert"
  /\ routes' = [routes EXCEPT ![builds[c].assignment] = Saved(builds[c])]
  /\ builds' = [builds EXCEPT ![c].pc = "publish"]
  /\ UNCHANGED <<linkedTo, shownRoute, started, clean>>

\* The event is published, or the publisher fails and the call with it.
Publish(c) ==
  /\ builds[c].pc = "publish"
  /\ builds' = [builds EXCEPT ![c] = Idle]
  /\ LET a == builds[c].assignment IN
       \/ shownRoute' = [shownRoute EXCEPT ![a] = Saved(builds[c])] /\ UNCHANGED clean
       \/ clean' = [clean EXCEPT ![a] = FALSE] /\ UNCHANGED shownRoute
  /\ UNCHANGED <<linkedTo, routes, started>>

\* createDeliveries, offer and reassign of the other services.
Relink(d, a) ==
  /\ started < MaxBuilds
  /\ linkedTo' = [linkedTo EXCEPT ![d] = a]
  /\ UNCHANGED <<routes, builds, shownRoute, started, clean>>

RoutesNext ==
  \/ \E c \in Build :
       \/ \E a \in RAssignment : Start(c, a)
       \/ Locate(c) \/ Answered(c) \/ FailedOrTimedOut(c)
       \/ Read(c) \/ Upsert(c) \/ Publish(c)
  \/ \E d \in RDelivery, a \in RAssignment \cup {Elsewhere} : Relink(d, a)

RoutesSpec == RoutesInit /\ [][RoutesNext]_routeVars

\* Calls of the position, the repository and the publisher return; the
\* optimizer's 30 s run out.  That the optimizer answers is not assumed.
RoutesFairness ==
  \A c \in Build :
    /\ WF_routeVars(Locate(c)) /\ WF_routeVars(FailedOrTimedOut(c))
    /\ WF_routeVars(Read(c)) /\ WF_routeVars(Upsert(c)) /\ WF_routeVars(Publish(c))

-----------------------------------------------------------------------------
(***************************************************************************)
(* Properties.                                                             *)
(***************************************************************************)

\* Design, Properties 29 and 30: whatever the optimizer answers (a delivery
\* left out, twice or foreign, groups that overlap), the route saved visits each
\* delivery it was built from at exactly one stop; it is in the assigned order
\* unless it says optimized, and never optimized beyond the limit.
RouteIsAPlan ==
  \A a \in RAssignment : routes[a] # NoRouteYet =>
    LET r == routes[a] IN
      /\ \A d \in Range(r.of) : \E i \in DOMAIN r.stops : d \in r.stops[i]
      /\ \A i, j \in DOMAIN r.stops : i # j => r.stops[i] \cap r.stops[j] = {}
      /\ \A i \in DOMAIN r.stops : r.stops[i] # {} /\ r.stops[i] \subseteq Range(r.of)
      /\ ~r.optimized => r.stops = AssignedOrderStops(r.of)
      /\ r.overLimit => ~r.optimized

\* While the builds of an assignment do not overlap, a rebuilt route keeps its
\* identity and is never replaced by one made from an older list.
RebuildsAdvance ==
  [][\A a \in RAssignment :
       clean[a] /\ routes[a] # NoRouteYet /\ routes'[a] # routes[a] =>
         /\ routes'[a].id = routes[a].id
         /\ routes'[a].listing > routes[a].listing]_routeVars

\* Requirement 9.7: then too, what the driver has is the route that is stored,
\* between builds.
DriverHasStoredRoute ==
  \A a \in RAssignment : clean[a] /\ Running(a) = {} => shownRoute[a] = routes[a]

\* Without the proviso neither holds: two builds that overlap may save and
\* publish in different orders, and an old list may win.
DriverHasStoredRouteAlways ==
  \A a \in RAssignment : Running(a) = {} => shownRoute[a] = routes[a]

\* Every build ends, although the optimizer may never answer: provided the
\* position of the vehicle is answered, for which there is no timeout.
EveryBuildEnds == \A c \in Build : builds[c].pc # "idle" ~> builds[c].pc = "idle"

\* What holds of the routes that are stored and shown, in every state.
RoutesSafe == RouteIsAPlan /\ DriverHasStoredRoute

\* What builds do: each ends, and those of an assignment that do not overlap
\* go forward.
RoutesAdvance == RebuildsAdvance /\ EveryBuildEnds
=============================================================================
