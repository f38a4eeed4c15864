------------------------- MODULE DispatchConcurrent -------------------------
(***************************************************************************)
(* The handlers of Dispatch split at their awaits: every repository call   *)
(* (findById, listByAssignmentId, insert, save) is a step of its own, and  *)
(* calls in progress interleave between those steps.  A handler keeps the  *)
(* records it read as a snapshot and save writes a whole record back.      *)
(*                                                                         *)
(* The fleet is set up before: drivers are Available and each has one      *)
(* vehicle, deliveries are Created.  Creating them, and associating        *)
(* vehicles, is left to Dispatch; the vehicle look-up of create therefore  *)
(* reads what no call here changes and is joined to the step before it.    *)
(***************************************************************************)
EXTENDS Dispatch, Naturals, FiniteSets

CONSTANT Request   \* slots: how many calls can be in progress at once

VARIABLE call      \* call[r]: the call in slot r: where it is and its snapshots

callVars == <<driver, vehicle, delivery, assignment, call>>

Idle == [at |-> "idle"]

At(r, label) == call[r].at = label
Goto(r, c)   == call' = [call EXCEPT ![r] = c]
Return(r)    == Goto(r, Idle)

CallInit ==
  /\ driver = [d \in Driver |-> [status |-> "Available", active |-> TRUE]]
  /\ \E f \in [Vehicle -> Driver] :
       /\ \A v, w \in Vehicle : f[v] = f[w] => v = w
       /\ vehicle = [v \in Vehicle |-> [registered |-> TRUE, driver |-> f[v]]]
  /\ delivery = [l \in Delivery |-> [status |-> "Created", assignment |-> None]]
  /\ assignment = [a \in Assignment |->
                     [status |-> Absent, driver |-> None, vehicle |-> None]]
  /\ call = [r \in Request |-> Idle]

\* Bound: a create starts only while there is an id left for it to insert.
FreshIdLeft ==
  Cardinality({r \in Request : At(r, "create.deliveries")}) <
    Cardinality({a \in Assignment : assignment[a].status = Absent})

-----------------------------------------------------------------------------
(***************************************************************************)
(* AssignmentService.create: find the driver; find each delivery; insert   *)
(* the assignment; save each delivery; save the driver.                    *)
(***************************************************************************)
CreateFindDriver(r, d, ls) ==
  /\ At(r, "idle")
  /\ FreshIdLeft
  /\ ls # {} /\ Eligible(driver[d])
  /\ \E v \in Vehicle :
       /\ vehicle[v].driver = d
       /\ Goto(r, [at |-> "create.deliveries", driver |-> d, vehicle |-> v,
                   driverRec |-> driver[d], todo |-> ls, found |-> {}])
  /\ UNCHANGED vars

\* The first delivery that cannot be assigned ends the call; nothing is written yet.
CreateFindDelivery(r, l) ==
  /\ At(r, "create.deliveries")
  /\ l \in call[r].todo
  /\ IF Assignable(delivery[l])
     THEN Goto(r, [call[r] EXCEPT !.todo = @ \ {l}, !.found = @ \cup {l}])
     ELSE Return(r)
  /\ UNCHANGED vars

MutCreateLinksFirst(r, a) ==
  /\ At(r, "create.deliveries") /\ call[r].todo = {}
  /\ assignment[a].status = Absent
  /\ delivery' = [l \in Delivery |-> IF l \in call[r].found
       THEN [status |-> "Assigned", assignment |-> a] ELSE delivery[l]]
  /\ Return(r)
  /\ UNCHANGED <<driver, vehicle, assignment>>
CreateInsert(r, a) ==
  /\ At(r, "create.deliveries") /\ call[r].todo = {}
  /\ assignment[a].status = Absent
  /\ assignment' = [assignment EXCEPT ![a] =
       [status |-> "Pending", driver |-> call[r].driver, vehicle |-> call[r].vehicle]]
  /\ Goto(r, [at |-> "create.link", assignment |-> a, driver |-> call[r].driver,
              driverRec |-> call[r].driverRec, todo |-> call[r].found])
  /\ UNCHANGED <<driver, vehicle, delivery>>

\* Saved from the snapshot: a Created delivery without assignment, now Assigned.
CreateSaveDelivery(r, l) ==
  /\ At(r, "create.link")
  /\ l \in call[r].todo
  /\ delivery' = [delivery EXCEPT ![l] =
       [status |-> "Assigned", assignment |-> call[r].assignment]]
  /\ Goto(r, [call[r] EXCEPT !.todo = @ \ {l}])
  /\ UNCHANGED <<driver, vehicle, assignment>>

MutCreateSaveDriverAvailable(r) ==
  /\ At(r, "create.link") /\ call[r].todo = {}
  /\ Return(r)
  /\ UNCHANGED vars
CreateSaveDriver(r) ==
  /\ At(r, "create.link") /\ call[r].todo = {}
  /\ driver' = [driver EXCEPT ![call[r].driver] =
       [call[r].driverRec EXCEPT !.status = "On_Delivery"]]
  /\ Return(r)
  /\ UNCHANGED <<vehicle, delivery, assignment>>

Create(r) ==
  \/ \E d \in Driver, ls \in SUBSET Delivery : CreateFindDriver(r, d, ls)
  \/ \E l \in Delivery : CreateFindDelivery(r, l) \/ CreateSaveDelivery(r, l)
  \/ \E a \in Assignment : CreateInsert(r, a)
  \/ CreateSaveDriver(r)

-----------------------------------------------------------------------------
(***************************************************************************)
(* Handlers with one read and one write of the same record.                *)
(***************************************************************************)

\* DeliveryService.transition: the table is consulted on what findById returned.
TransitionFind(r, l, event) ==
  /\ At(r, "idle")
  /\ \E status \in DeliveryStatus :
       /\ <<delivery[l].status, event, status>> \in Lifecycle
       /\ Goto(r, [at |-> "transition.save", delivery |-> l,
                   rec |-> [delivery[l] EXCEPT !.status = status]])
  /\ UNCHANGED vars

\* save writes status and assignmentId together.
MutTransitionUnlinks(r) ==
  /\ At(r, "transition.save")
  /\ delivery' = [delivery EXCEPT ![call[r].delivery] =
       [status |-> "Created", assignment |-> None]]
  /\ Return(r)
  /\ UNCHANGED <<driver, vehicle, assignment>>
TransitionSave(r) ==
  /\ At(r, "transition.save")
  /\ delivery' = [delivery EXCEPT ![call[r].delivery] = call[r].rec]
  /\ Return(r)
  /\ UNCHANGED <<driver, vehicle, assignment>>

\* DriverService.setAvailability and deactivate.
DriverFind(r, d) ==
  /\ At(r, "idle")
  /\ \E rec \in {[driver[d] EXCEPT !.status = t] :
                   t \in {t \in DriverStatus : <<driver[d].status, t>> \in DriverSettable}}
               \cup {[driver[d] EXCEPT !.active = FALSE]} :
       Goto(r, [at |-> "driver.save", driver |-> d, rec |-> rec])
  /\ UNCHANGED vars

DriverSave(r) ==
  /\ At(r, "driver.save")
  /\ driver' = [driver EXCEPT ![call[r].driver] = call[r].rec]
  /\ Return(r)
  /\ UNCHANGED <<vehicle, delivery, assignment>>

\* AssignmentService.accept.
AcceptFind(r, a) ==
  /\ At(r, "idle")
  /\ assignment[a].status # Absent
  /\ Goto(r, [at |-> "accept.save", assignment |-> a,
              rec |-> [assignment[a] EXCEPT !.status = "Accepted"]])
  /\ UNCHANGED vars

AcceptSave(r) ==
  /\ At(r, "accept.save")
  /\ assignment' = [assignment EXCEPT ![call[r].assignment] = call[r].rec]
  /\ Return(r)
  /\ UNCHANGED <<driver, vehicle, delivery>>

-----------------------------------------------------------------------------
(***************************************************************************)
(* AssignmentService.reassign: find the delivery; find the target; save.   *)
(***************************************************************************)
ReassignFindDelivery(r, l, a) ==
  /\ At(r, "idle")
  /\ delivery[l].assignment \notin {None, a}
  /\ Goto(r, [at |-> "reassign.target", delivery |-> l, assignment |-> a,
              rec |-> [delivery[l] EXCEPT !.assignment = a]])
  /\ UNCHANGED vars

ReassignFindTarget(r) ==
  /\ At(r, "reassign.target")
  /\ IF Active(assignment[call[r].assignment])
     THEN Goto(r, [call[r] EXCEPT !.at = "reassign.save"])
     ELSE Return(r)
  /\ UNCHANGED vars

ReassignSave(r) ==
  /\ At(r, "reassign.save")
  /\ delivery' = [delivery EXCEPT ![call[r].delivery] = call[r].rec]
  /\ Return(r)
  /\ UNCHANGED <<driver, vehicle, assignment>>

Reassigning(r) ==
  \/ \E l \in Delivery, a \in Assignment : ReassignFindDelivery(r, l, a)
  \/ ReassignFindTarget(r)
  \/ ReassignSave(r)

-----------------------------------------------------------------------------
(***************************************************************************)
(* RouteService.completeIfAllStopsTerminal: find the assignment; list its  *)
(* deliveries; save the assignment; find the driver; save the driver.      *)
(***************************************************************************)
CompleteFind(r, a) ==
  /\ At(r, "idle")
  /\ assignment[a].status # Absent
  /\ Goto(r, [at |-> "complete.list", assignment |-> a, rec |-> assignment[a]])
  /\ UNCHANGED vars

CompleteList(r) ==
  LET stops == Linked(call[r].assignment) IN
  /\ At(r, "complete.list")
  /\ IF stops # {} /\ \A l \in stops : delivery[l].status \in Terminal
     THEN Goto(r, [call[r] EXCEPT !.at = "complete.save"])
     ELSE Return(r)
  /\ UNCHANGED vars

CompleteSave(r) ==
  /\ At(r, "complete.save")
  /\ assignment' = [assignment EXCEPT ![call[r].assignment] =
       [call[r].rec EXCEPT !.status = "Complete"]]
  /\ Goto(r, [at |-> "complete.driver", driver |-> call[r].rec.driver])
  /\ UNCHANGED <<driver, vehicle, delivery>>

CompleteFindDriver(r) ==
  LET d == call[r].driver IN
  /\ At(r, "complete.driver")
  /\ IF driver[d].status = "On_Delivery"
     THEN Goto(r, [at |-> "complete.free", driver |-> d,
                   rec |-> [driver[d] EXCEPT !.status = "Available"]])
     ELSE Return(r)
  /\ UNCHANGED vars

CompleteSaveDriver(r) ==
  /\ At(r, "complete.free")
  /\ driver' = [driver EXCEPT ![call[r].driver] = call[r].rec]
  /\ Return(r)
  /\ UNCHANGED <<vehicle, delivery, assignment>>

Completing(r) ==
  \/ \E a \in Assignment : CompleteFind(r, a)
  \/ CompleteList(r)
  \/ CompleteSave(r)
  \/ CompleteFindDriver(r)
  \/ CompleteSaveDriver(r)

-----------------------------------------------------------------------------
SingleRecord(r) ==
  \/ \E l \in Delivery, event \in DeliveryEvent : TransitionFind(r, l, event)
  \/ TransitionSave(r)
  \/ \E d \in Driver : DriverFind(r, d)
  \/ DriverSave(r)
  \/ \E a \in Assignment : AcceptFind(r, a)
  \/ AcceptSave(r)

CallNext ==
  \E r \in Request : Create(r) \/ SingleRecord(r) \/ Reassigning(r) \/ Completing(r)

CallSpec == CallInit /\ [][CallNext]_callVars

-----------------------------------------------------------------------------
(***************************************************************************)
(* Refinement: with one call at a time, the handlers split at their awaits *)
(* implement the atomic calls of Dispatch.  A call takes effect at its     *)
(* first write; the abstract state is the repositories with the writes it  *)
(* still owes already made.                                                *)
(***************************************************************************)
Linking == {r \in Request : At(r, "create.link")}

EffectiveDelivery ==
  [l \in Delivery |->
     IF \E r \in Linking : l \in call[r].todo
     THEN [status |-> "Assigned",
           assignment |-> call[CHOOSE r \in Linking : l \in call[r].todo].assignment]
     ELSE delivery[l]]

\* A driver with a call in progress that has inserted or completed an
\* assignment but not saved the driver yet.
EffectiveDriver ==
  [d \in Driver |->
     [driver[d] EXCEPT !.status =
        IF \E r \in Linking : call[r].driver = d
        THEN "On_Delivery"
        ELSE IF \E r \in Request : /\ call[r].at \in {"complete.driver", "complete.free"}
                                   /\ call[r].driver = d
        THEN IF @ = "On_Delivery" THEN "Available" ELSE @
        ELSE @]]

Atomic == INSTANCE Dispatch WITH driver <- EffectiveDriver, delivery <- EffectiveDelivery

\* One call at a time: every step is a step of Dispatch or leaves the effective
\* state unchanged, so the intermediate states of a handler are never another
\* call's business.  Statuses set by hand are no part of the calls split here,
\* so no step may pass for one.
AtomicNext  == Atomic!WorkflowNext \/ \E a \in Assignment : Atomic!RepeatedCall(a)
AtomicCalls == [][AtomicNext]_(Atomic!vars)

-----------------------------------------------------------------------------
(***************************************************************************)
(* Properties of calls that interleave.                                    *)
(***************************************************************************)

\* Types of the repositories, and a snapshot is always a whole record.
CallTypeOK ==
  /\ TypeOK
  /\ \A r \in Request :
       /\ At(r, "transition.save") \/ At(r, "reassign.save") =>
            call[r].rec.status \in DeliveryStatus
       /\ At(r, "driver.save") \/ At(r, "complete.free") =>
            call[r].rec.status \in DriverStatus

\* A delivery that has left Created never falls back to it, although stale
\* records are written over newer ones.
NeverBackToCreated ==
  [][\A l \in Delivery : delivery[l].status # "Created" =>
       delivery'[l].status # "Created"]_callVars

\* Property 23 of the design: create takes only deliveries that no assignment
\* holds.  The check is an await or more away from the save.
CreateTakesUnlinked ==
  [][\A r \in Request, l \in Delivery :
       CreateSaveDelivery(r, l) => delivery[l].assignment = None]_callVars

\* What stale snapshots do not break.
CallsKeepLinks == CallTypeOK /\ LinksAreReal
=============================================================================
