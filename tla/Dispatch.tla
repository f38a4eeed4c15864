------------------------------ MODULE Dispatch ------------------------------
(***************************************************************************)
(* The dispatch core of the management service (services/management):      *)
(* drivers, vehicles, deliveries and assignments, and every operation of   *)
(* DriverService, VehicleService, DeliveryService, AssignmentService and   *)
(* RouteService.completeIfAllStopsTerminal that changes them.              *)
(*                                                                         *)
(* One action is one call of a service method, run to its end.  That is    *)
(* how the calls run over the in-memory repositories, whose promises are   *)
(* already resolved; DispatchConcurrent splits the same handlers at their  *)
(* awaits.  A call that is rejected changes nothing and is no action.      *)
(* Names, contact data, timestamps and geocoding results are abstracted:   *)
(* an id stands for its record, and a geocoding failure or a duplicate     *)
(* e-mail leaves the id absent.                                            *)
(***************************************************************************)
CONSTANTS
  Driver, Vehicle, Delivery, Assignment,   \* ids
  None                                     \* an optional field that is not set

ASSUME DispatchAssumption == None \notin Driver \cup Vehicle \cup Assignment

VARIABLES
  driver,      \* driver[d]: status and active flag
  vehicle,     \* vehicle[v]: registered, and the driver associated with it
  delivery,    \* delivery[l]: lifecycle status and assignmentId
  assignment   \* assignment[a]: status, driverId, vehicleId

vars == <<driver, vehicle, delivery, assignment>>

DriverStatus     == {"Offline", "Available", "On_Delivery", "On_Break"}
DeliveryStatus   == {"Created", "Assigned", "In_Transit", "Arrived",
                     "Completed", "Failed", "Cancelled"}
AssignmentStatus == {"Pending", "Accepted", "Complete"}
Absent           == "absent"     \* no record with this id yet

DeliveryEvent == {"Assign", "StartTransit", "Arrive", "Complete", "Fail", "Cancel"}

\* The (state, event) -> state table of the delivery lifecycle.
Lifecycle ==
  { <<"Created",    "Assign",       "Assigned">>,
    <<"Created",    "Cancel",       "Cancelled">>,
    <<"Assigned",   "StartTransit", "In_Transit">>,
    <<"Assigned",   "Cancel",       "Cancelled">>,
    <<"In_Transit", "Arrive",       "Arrived">>,
    <<"In_Transit", "Fail",         "Failed">>,
    <<"In_Transit", "Cancel",       "Cancelled">>,
    <<"Arrived",    "Complete",     "Completed">>,
    <<"Arrived",    "Fail",         "Failed">>,
    <<"Arrived",    "Cancel",       "Cancelled">> }

Terminal == {"Completed", "Failed", "Cancelled"}

\* What a driver may set on their own; nothing leaves On_Delivery this way.
DriverSettable ==
  { <<"Offline",   "Available">>, <<"Available", "On_Break">>,
    <<"Available", "Offline">>,   <<"On_Break",  "Available">>,
    <<"On_Break",  "Offline">> }

\* The tests the services make on one record (also on a snapshot of one).
Eligible(driverRec)       == driverRec.active /\ driverRec.status = "Available"
Assignable(deliveryRec)   == deliveryRec.status = "Created" /\ deliveryRec.assignment = None
Active(assignmentRec)     == assignmentRec.status \in AssignmentStatus \ {"Complete"}

Linked(a) == {l \in Delivery : delivery[l].assignment = a}

Init ==
  /\ driver = [d \in Driver |-> [status |-> Absent, active |-> FALSE]]
  /\ vehicle = [v \in Vehicle |-> [registered |-> FALSE, driver |-> None]]
  /\ delivery = [l \in Delivery |-> [status |-> Absent, assignment |-> None]]
  /\ assignment = [a \in Assignment |->
                     [status |-> Absent, driver |-> None, vehicle |-> None]]

-----------------------------------------------------------------------------
(***************************************************************************)
(* DriverService.                                                          *)
(***************************************************************************)
CreateDriver(d) ==
  /\ driver[d].status = Absent
  /\ driver' = [driver EXCEPT ![d] = [status |-> "Offline", active |-> TRUE]]
  /\ UNCHANGED <<vehicle, delivery, assignment>>

SetDriver(d, status) ==
  /\ driver' = [driver EXCEPT ![d].status = status]
  /\ UNCHANGED <<vehicle, delivery, assignment>>

\* update takes any status; its other fields are abstracted.
UpdateDriver(d, status) ==
  /\ driver[d].status # Absent
  /\ SetDriver(d, status)

Deactivate(d) ==
  /\ driver[d].status # Absent
  /\ driver' = [driver EXCEPT ![d].active = FALSE]
  /\ UNCHANGED <<vehicle, delivery, assignment>>

SetAvailability(d, target) ==
  /\ <<driver[d].status, target>> \in DriverSettable
  /\ SetDriver(d, target)

BeginDelivery(d) ==
  /\ driver[d].status = "Available"
  /\ SetDriver(d, "On_Delivery")

CompleteDelivery(d) ==
  /\ driver[d].status = "On_Delivery"
  /\ SetDriver(d, "Available")

-----------------------------------------------------------------------------
(***************************************************************************)
(* VehicleService.                                                         *)
(***************************************************************************)
Register(v) ==
  /\ ~vehicle[v].registered
  /\ vehicle' = [vehicle EXCEPT ![v].registered = TRUE]
  /\ UNCHANGED <<driver, delivery, assignment>>

\* Rejected only when the vehicle has another driver: neither the driver's
\* existence nor the vehicles the driver already has are looked at.
AssociateDriver(v, d) ==
  /\ vehicle[v].registered
  /\ vehicle[v].driver \in {None, d}
  /\ vehicle' = [vehicle EXCEPT ![v].driver = d]
  /\ UNCHANGED <<driver, delivery, assignment>>

-----------------------------------------------------------------------------
(***************************************************************************)
(* DeliveryService.                                                        *)
(***************************************************************************)
CreateDelivery(l) ==
  /\ delivery[l].status = Absent
  /\ delivery' = [delivery EXCEPT ![l].status = "Created"]
  /\ UNCHANGED <<driver, vehicle, assignment>>

\* The public transition method takes every event, Assign included, and
\* leaves assignmentId as it is.
MutTransitionCancelAny(l, event) ==
  /\ delivery[l].status # Absent
  /\ \E status \in DeliveryStatus :
       /\ \/ <<delivery[l].status, event, status>> \in Lifecycle
          \/ event = "Cancel" /\ status = "Cancelled"
       /\ delivery' = [delivery EXCEPT ![l].status = status]
  /\ UNCHANGED <<driver, vehicle, assignment>>
Transition(l, event) ==
  /\ \E status \in DeliveryStatus :
       /\ <<delivery[l].status, event, status>> \in Lifecycle
       /\ delivery' = [delivery EXCEPT ![l].status = status]
  /\ UNCHANGED <<driver, vehicle, assignment>>

-----------------------------------------------------------------------------
(***************************************************************************)
(* AssignmentService and RouteService.completeIfAllStopsTerminal.          *)
(***************************************************************************)

\* findByDriverId returns one of the driver's vehicles: the first registered
\* one, which the model leaves open.
MutCreateAssignmentKeepsDriver(a, d, ls) ==
  /\ assignment[a].status = Absent
  /\ Eligible(driver[d])
  /\ ls # {} /\ \A l \in ls : Assignable(delivery[l])
  /\ \E v \in Vehicle :
       /\ vehicle[v].driver = d
       /\ assignment' = [assignment EXCEPT ![a] =
                           [status |-> "Pending", driver |-> d, vehicle |-> v]]
  /\ delivery' = [l \in Delivery |->
       IF l \in ls THEN [status |-> "Assigned", assignment |-> a] ELSE delivery[l]]
  /\ UNCHANGED <<driver, vehicle>>
CreateAssignment(a, d, ls) ==
  /\ assignment[a].status = Absent
  /\ Eligible(driver[d])
  /\ ls # {} /\ \A l \in ls : Assignable(delivery[l])
  /\ \E v \in Vehicle :
       /\ vehicle[v].driver = d
       /\ assignment' = [assignment EXCEPT ![a] =
                           [status |-> "Pending", driver |-> d, vehicle |-> v]]
  /\ delivery' = [l \in Delivery |->
       IF l \in ls THEN [status |-> "Assigned", assignment |-> a] ELSE delivery[l]]
  /\ driver' = [driver EXCEPT ![d].status = "On_Delivery"]
  /\ UNCHANGED vehicle

\* accept looks only at the existence of the assignment.
Accept(a) ==
  /\ assignment[a].status # Absent
  /\ assignment' = [assignment EXCEPT ![a].status = "Accepted"]
  /\ UNCHANGED <<driver, vehicle, delivery>>

\* The delivery keeps its status, and the assignment it leaves is not touched.
MutReassignAnyTarget(l, a) ==
  /\ delivery[l].assignment \notin {None, a}
  /\ assignment[a].status # Absent
  /\ delivery' = [delivery EXCEPT ![l].assignment = a]
  /\ UNCHANGED <<driver, vehicle, assignment>>
Reassign(l, a) ==
  /\ delivery[l].assignment \notin {None, a}
  /\ Active(assignment[a])
  /\ delivery' = [delivery EXCEPT ![l].assignment = a]
  /\ UNCHANGED <<driver, vehicle, assignment>>

\* An assignment without deliveries is never completed; one that is complete
\* already is completed again, and its driver freed again.
CompleteIfAllStopsTerminal(a) ==
  LET d == assignment[a].driver IN
  /\ assignment[a].status # Absent
  /\ Linked(a) # {}
  /\ \A l \in Linked(a) : delivery[l].status \in Terminal
  /\ assignment' = [assignment EXCEPT ![a].status = "Complete"]
  /\ driver' = [driver EXCEPT ![d].status =
                  IF @ = "On_Delivery" THEN "Available" ELSE @]
  /\ UNCHANGED <<vehicle, delivery>>

-----------------------------------------------------------------------------
(***************************************************************************)
(* The calls, by who makes them.  Two kinds are kept apart because the     *)
(* services accept them in any state and they bypass the workflow: a       *)
(* status set by hand, and accept or completion called again on an         *)
(* assignment that is Complete (a double click, a repeated event).         *)
(***************************************************************************)
DriverCalls ==
  \E d \in Driver :
    \/ CreateDriver(d)
    \/ Deactivate(d)
    \/ \E status \in DriverStatus : SetAvailability(d, status)

VehicleCalls ==
  \E v \in Vehicle : Register(v) \/ \E d \in Driver : AssociateDriver(v, d)

DeliveryCalls ==
  \E l \in Delivery :
    CreateDelivery(l) \/ \E event \in DeliveryEvent : Transition(l, event)

Finishing(a) == Accept(a) \/ CompleteIfAllStopsTerminal(a)

AssignmentCalls ==
  \E a \in Assignment :
    \/ \E d \in Driver, ls \in SUBSET Delivery : CreateAssignment(a, d, ls)
    \/ \E l \in Delivery : Reassign(l, a)
    \/ Active(assignment[a]) /\ Finishing(a)

HandCall(d) ==
  \/ BeginDelivery(d)
  \/ CompleteDelivery(d)
  \/ \E status \in DriverStatus : UpdateDriver(d, status)

RepeatedCall(a) == assignment[a].status = "Complete" /\ Finishing(a)

WorkflowNext == DriverCalls \/ VehicleCalls \/ DeliveryCalls \/ AssignmentCalls

Next ==
  \/ WorkflowNext
  \/ \E d \in Driver : HandCall(d)
  \/ \E a \in Assignment : RepeatedCall(a)

Spec == Init /\ [][Next]_vars

-----------------------------------------------------------------------------
(***************************************************************************)
(* Properties.                                                             *)
(***************************************************************************)

\* Types of the variables.
TypeOK ==
  /\ driver \in [Driver -> [status : DriverStatus \cup {Absent}, active : BOOLEAN]]
  /\ vehicle \in [Vehicle -> [registered : BOOLEAN, driver : Driver \cup {None}]]
  /\ delivery \in [Delivery -> [status : DeliveryStatus \cup {Absent},
                                assignment : Assignment \cup {None}]]
  /\ assignment \in [Assignment -> [status : AssignmentStatus \cup {Absent},
                                    driver : Driver \cup {None},
                                    vehicle : Vehicle \cup {None}]]

\* A delivery is linked only to an assignment that exists, and has left
\* Created: no unassigned delivery is linked and no link dangles.
LinksAreReal ==
  \A l \in Delivery : delivery[l].assignment # None =>
    /\ assignment[delivery[l].assignment].status # Absent
    /\ delivery[l].status \notin {Absent, "Created"}

\* The vehicle an assignment records is still its driver's vehicle, long after
\* create looked it up: associateDriver never takes a vehicle away.
VehicleStaysWithDriver ==
  \A a \in Assignment : assignment[a].status # Absent =>
    vehicle[assignment[a].vehicle].driver = assignment[a].driver

\* A Complete assignment holds no unfinished delivery: none is moved into it
\* and none in it can come back to life.
CompleteIsDone ==
  \A a \in Assignment : assignment[a].status = "Complete" =>
    \A l \in Linked(a) : delivery[l].status \in Terminal

\* The schema comment of migration 0001: a driver is associated with at most
\* one vehicle.
OneVehiclePerDriver ==
  \A v, w \in Vehicle : vehicle[v].driver = vehicle[w].driver /\ v # w =>
    vehicle[v].driver = None

\* A terminal delivery never changes its status again, whichever service writes it.
TerminalIsFinal ==
  [][\A l \in Delivery : delivery[l].status \in Terminal =>
       delivery'[l].status = delivery[l].status]_vars

\* A deactivated driver stays deactivated: no operation activates one.
DeactivationSticks ==
  [][\A d \in Driver : driver[d].status # Absent /\ ~driver[d].active =>
       ~driver'[d].active]_vars

\* A delivery's link is never dropped, and is set only to an assignment that is
\* active then; a delivery that has a link is moved only to one that was active
\* before: a new assignment never takes it (requirement 8.3).
LinkMoves(l) ==
  LET new == delivery'[l].assignment IN
  new # delivery[l].assignment =>
    /\ new # None
    /\ Active(assignment'[new])
    /\ delivery[l].assignment # None => Active(assignment[new])
LinkMovesToActive == [][\A l \in Delivery : LinkMoves(l)]_vars

\* The four repositories agree with each other.
RecordsAgree ==
  /\ TypeOK /\ LinksAreReal
  /\ VehicleStaysWithDriver /\ CompleteIsDone

\* What no operation does: revive a driver or a delivery, or drop a link.
NothingIsUndone == DeactivationSticks /\ TerminalIsFinal /\ LinkMovesToActive
=============================================================================
