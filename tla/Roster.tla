------------------------------- MODULE Roster -------------------------------
(***************************************************************************)
(* How the dashboard joins its records: the detail panel of a driver       *)
(* (operations/driverDetail.ts, DriversView.tsx) and the driver of each    *)
(* vehicle (views/VehiclesView.tsx), over the records of useOperationsState*)
(* and the vehicles that the stream has reported.                          *)
(*                                                                         *)
(* The records do not change while the page is open; they are any that the *)
(* types allow, references to what is not there included.  Drivers and     *)
(* assignments are numbered in the order of their lists; a position is     *)
(* abstracted to its vehicle.                                              *)
(***************************************************************************)
EXTENDS Tables

CONSTANTS
  Staff, Van,  \* how many drivers; the vehicles
  Manifest,    \* the deliveryIds of each assignment, in its order
  Stored,      \* the deliveries there are
  NoVan        \* null

ASSUME RosterAssumption ==
  Staff \in Nat /\ NoVan \notin Van /\ Manifest \in Seq(Seq(Nat))

VARIABLES
  vanOf,       \* vehicleId of each driver
  jobs,        \* assignments: driver, vehicle, and whether Complete
  routed,      \* those with a route
  live,        \* vehicles with a position
  picked       \* selectedId, or 0

rosterVars == <<vanOf, jobs, routed, live, picked>>

RosterInit ==
  /\ vanOf \in [1..Staff -> Van \cup {NoVan}]
  /\ jobs \in [DOMAIN Manifest -> [driver : 1..Staff, van : Van, complete : BOOLEAN]]
  /\ routed \in {{i} : i \in DOMAIN Manifest}
  /\ live = {} /\ picked = 0

\* A position frame, and a click on a row of the roster.
Report(v) == live' = live \cup {v} /\ UNCHANGED <<vanOf, jobs, routed, picked>>
PickDriver(d) == picked' = d /\ UNCHANGED <<vanOf, jobs, routed, live>>

-----------------------------------------------------------------------------
\* The first assignment of the driver that is not complete, or 0.
ActiveJob(d)    == SelectInSeq(jobs, LAMBDA job : job.driver = d /\ ~job.complete)

\* What is shown for a driver; nothing is joined that has no assignment.
BuildDriverDetail(d) ==
  LET job == ActiveJob(d)
      van == IF job = 0 THEN vanOf[d] ELSE jobs[job].van
  IN  [assignment |-> job,
       route      |-> job \in routed,
       deliveries |-> IF job = 0 THEN <<>>
                      ELSE SelectAt(Manifest[job],
                             {k \in DOMAIN Manifest[job] : Manifest[job][k] \in Stored}),
       position   |-> IF van \in live THEN van ELSE NoVan]

\* The panel: its hint, or the driver's vehicle with the detail.  Route and
\* deliveries are shown below an assignment only.
Hint == [vehicle |-> NoVan, assignment |-> 0, stops |-> FALSE, deliveries |-> <<>>,
         position |-> NoVan]
DriverDetailPanel ==
  IF picked = 0 THEN Hint
  ELSE LET detail == BuildDriverDetail(picked) IN
       [vehicle    |-> vanOf[picked],
        assignment |-> detail.assignment,
        stops      |-> detail.assignment # 0 /\ detail.route,
        deliveries |-> detail.deliveries,
        position   |-> detail.position]

\* The roster of vehicles: the last driver listed with a vehicle, or "Unassigned".
DriverByVehicle(v) == SelectLastInSeq(vanOf, LAMBDA van : van = v)

RosterNext ==
  \/ \E v \in Van : Report(v)
  \/ \E d \in 1..Staff : PickDriver(d)

RosterSpec == RosterInit /\ [][RosterNext]_rosterVars
-----------------------------------------------------------------------------
(***************************************************************************)
(* Properties.                                                             *)
(***************************************************************************)

OpenJobs(d) == {i \in DOMAIN jobs : jobs[i].driver = d /\ ~jobs[i].complete}

\* The panel tells one story: the work shown is open work of the driver, with
\* the deliveries, the route and the position that belong to it, and no work is
\* shown only of a driver who has none ("its route, ordered deliveries, and the
\* associated vehicle's live position are gathered alongside").
PanelTellsOneStory ==
  picked # 0 =>
    LET p == DriverDetailPanel IN
      IF OpenJobs(picked) = {}
      THEN p.assignment = 0 /\ ~p.stops /\ p.deliveries = <<>>
           /\ p.position \in {NoVan, vanOf[picked]}
      ELSE /\ p.assignment \in OpenJobs(picked)
           /\ p.stops <=> p.assignment \in routed
           /\ ToSet(p.deliveries) = ToSet(Manifest[p.assignment]) \cap Stored
           /\ p.position \in {NoVan, jobs[p.assignment].van}
           /\ jobs[p.assignment].van \in live => p.position # NoVan

\* The two rosters agree: the driver that is shown with a vehicle has it, and a
\* driver who shares theirs with nobody is shown with it.
RostersAgree ==
  /\ \A v \in Van : DriverByVehicle(v) # 0 => vanOf[DriverByVehicle(v)] = v
  /\ \A d \in 1..Staff :
       vanOf[d] # NoVan /\ (\A e \in 1..Staff \ {d} : vanOf[e] # vanOf[d])
         => DriverByVehicle(vanOf[d]) = d

\* Not so: the position may be that of another vehicle than the one named.
PositionIsOfTheVehicle ==
  LET p == DriverDetailPanel IN p.position # NoVan => p.position = p.vehicle

\* The operations views show what was asked for, and what belongs together.
OperationsSafe == TablesSafe /\ PanelTellsOneStory /\ RostersAgree
=============================================================================
