--------------------------- MODULE DispatchProofs ---------------------------
(***************************************************************************)
(* Theorems about Dispatch, for any sets of ids.  Inv is the conjunction   *)
(* of the state invariants that hold whatever the callers do; Parties is   *)
(* the strengthening that makes it inductive: a created assignment names a *)
(* driver and a vehicle.  The On_Delivery rules speak of the drivers on    *)
(* whose behalf nothing bypassed the workflow, and are proved of           *)
(* DispatchHistory, whose history variables tell who they are.             *)
(***************************************************************************)
EXTENDS DispatchConcurrent, DispatchHistory, TLAPS

Parties ==
  \A a \in Assignment : assignment[a].status # Absent =>
    assignment[a].driver \in Driver /\ assignment[a].vehicle \in Vehicle

Inv == TypeOK /\ Parties /\ LinksAreReal /\ VehicleStaysWithDriver /\ CompleteIsDone

-----------------------------------------------------------------------------
(***************************************************************************)
(* What the tables and the single calls do, stated once.                   *)
(***************************************************************************)

\* The lifecycle leaves neither an absent nor a terminal status, and never
\* enters Created.
LEMMA LifecycleSteps ==
  \A s, event, t : <<s, event, t>> \in Lifecycle =>
    /\ s \in DeliveryStatus \ Terminal
    /\ t \in DeliveryStatus \ {"Created"}
  BY DEF Lifecycle, Terminal, DeliveryStatus

\* A driver's own choice neither leaves nor enters On_Delivery.
LEMMA SettableSteps ==
  \A s, t : <<s, t>> \in DriverSettable =>
    /\ s \in DriverStatus \ {"On_Delivery"}
    /\ t \in DriverStatus \ {"On_Delivery"}
  BY DEF DriverSettable, DriverStatus

\* What any writer of a driver's status does, the driver's own choice and staff.
LEMMA SetDriverStep ==
  ASSUME TypeOK, NEW d \in Driver, driver[d].status # Absent, NEW status \in DriverStatus,
         SetDriver(d, status)
  PROVE  /\ UNCHANGED <<vehicle, delivery, assignment>>
         /\ driver' \in [Driver -> [status : DriverStatus \cup {Absent}, active : BOOLEAN]]
         /\ \A e \in Driver : driver'[e].active = driver[e].active
         /\ driver'[d].status = status
         /\ \A e \in Driver \ {d} : driver'[e].status = driver[e].status
  BY DEF SetDriver, TypeOK, DriverStatus, Absent

\* A call of DriverService by the workflow changes drivers' records and nothing
\* else; none enters or leaves On_Delivery, or activates a driver that exists.
LEMMA DriverStep ==
  ASSUME TypeOK, DriverCalls
  PROVE  /\ UNCHANGED <<vehicle, delivery, assignment>>
         /\ driver' \in [Driver -> [status : DriverStatus \cup {Absent}, active : BOOLEAN]]
         /\ \A d \in Driver :
              driver[d].status # Absent /\ ~driver[d].active => ~driver'[d].active
         /\ \A d \in Driver :
              (driver[d].status = "On_Delivery") <=> (driver'[d].status = "On_Delivery")
  <1> PICK d \in Driver :
        \/ CreateDriver(d)
        \/ Deactivate(d)
        \/ \E status \in DriverStatus : SetAvailability(d, status)
    BY DEF DriverCalls
  <1>1. CASE CreateDriver(d)
    BY <1>1 DEF CreateDriver, TypeOK, DriverStatus, Absent
  <1>2. CASE Deactivate(d)
    BY ZenonT(60), <1>2 DEF Deactivate, TypeOK, DriverStatus, Absent
  <1>3. ASSUME NEW status \in DriverStatus, SetAvailability(d, status)
        PROVE  /\ SetDriver(d, status)
               /\ driver[d].status # Absent
               /\ driver[d].status # "On_Delivery"
               /\ status # "On_Delivery"
    BY <1>3, SettableSteps DEF SetAvailability, DriverStatus, Absent
  <1> QED BY <1>1, <1>2, <1>3, SetDriverStep

\* A status set by hand is that of one driver, and changes nothing else.
LEMMA HandStep ==
  ASSUME TypeOK, NEW d \in Driver, HandCall(d)
  PROVE  /\ UNCHANGED <<vehicle, delivery, assignment>>
         /\ driver' \in [Driver -> [status : DriverStatus \cup {Absent}, active : BOOLEAN]]
         /\ \A e \in Driver : driver'[e].active = driver[e].active
         /\ \A e \in Driver \ {d} : driver'[e].status = driver[e].status
  <1>1. PICK status \in DriverStatus : SetDriver(d, status) /\ driver[d].status # Absent
    BY DEF HandCall, BeginDelivery, CompleteDelivery, UpdateDriver, DriverStatus, Absent
  <1> QED BY <1>1, SetDriverStep

\* A call of VehicleService changes vehicles only, and never takes a vehicle
\* from its driver.
LEMMA VehicleStep ==
  ASSUME TypeOK, VehicleCalls
  PROVE  /\ UNCHANGED <<driver, delivery, assignment>>
         /\ vehicle' \in [Vehicle -> [registered : BOOLEAN, driver : Driver \cup {None}]]
         /\ \A v \in Vehicle :
              vehicle[v].driver # None => vehicle'[v].driver = vehicle[v].driver
  <1> PICK v \in Vehicle : Register(v) \/ \E d \in Driver : AssociateDriver(v, d)
    BY DEF VehicleCalls
  <1>1. CASE Register(v)
    BY <1>1 DEF Register, TypeOK
  <1>2. ASSUME NEW d \in Driver, AssociateDriver(v, d)
        PROVE  /\ UNCHANGED <<driver, delivery, assignment>>
               /\ vehicle' \in [Vehicle -> [registered : BOOLEAN, driver : Driver \cup {None}]]
               /\ \A w \in Vehicle :
                    vehicle[w].driver # None => vehicle'[w].driver = vehicle[w].driver
    BY <1>2 DEF AssociateDriver, TypeOK
  <1> QED BY <1>1, <1>2

\* A call of DeliveryService changes delivery statuses only: it enters
\* Created from absent alone, and leaves no terminal status.
LEMMA DeliveryStep ==
  ASSUME TypeOK, DeliveryCalls
  PROVE  /\ UNCHANGED <<driver, vehicle, assignment>>
         /\ delivery' \in [Delivery -> [status : DeliveryStatus \cup {Absent},
                                        assignment : Assignment \cup {None}]]
         /\ \A l \in Delivery :
              /\ delivery'[l].assignment = delivery[l].assignment
              /\ delivery[l].status \in Terminal => delivery'[l].status = delivery[l].status
              /\ delivery'[l].status \in {Absent, "Created"} =>
                   delivery[l].status \in {Absent, "Created"}
  <1> USE DEF TypeOK, DeliveryStatus, Absent, Terminal
  <1> PICK l \in Delivery :
        CreateDelivery(l) \/ \E event \in DeliveryEvent : Transition(l, event)
    BY DEF DeliveryCalls
  <1>1. CASE CreateDelivery(l)
    BY <1>1 DEF CreateDelivery
  <1>2. ASSUME NEW event \in DeliveryEvent, Transition(l, event)
        PROVE  /\ UNCHANGED <<driver, vehicle, assignment>>
               /\ delivery' \in [Delivery -> [status : DeliveryStatus \cup {Absent},
                                              assignment : Assignment \cup {None}]]
               /\ \A m \in Delivery :
                    /\ delivery'[m].assignment = delivery[m].assignment
                    /\ delivery[m].status \in Terminal => delivery'[m].status = delivery[m].status
                    /\ delivery'[m].status \in {Absent, "Created"} =>
                         delivery[m].status \in {Absent, "Created"}
    <2>1. PICK status \in DeliveryStatus :
            /\ <<delivery[l].status, event, status>> \in Lifecycle
            /\ delivery' = [delivery EXCEPT ![l].status = status]
      BY <1>2 DEF Transition
    <2>2. delivery[l].status \notin Terminal /\ status # "Created"
      BY <2>1, LifecycleSteps
    <2>3. UNCHANGED <<driver, vehicle, assignment>>
      BY <1>2 DEF Transition
    <2> HIDE DEF Terminal
    <2> QED BY <2>1, <2>2, <2>3
  <1> QED BY <1>1, <1>2

\* What create has done: the new assignment is Pending, its driver was
\* Available and is On_Delivery, the deliveries it takes were unlinked.
LEMMA CreateStep ==
  ASSUME TypeOK, NEW a \in Assignment, NEW d \in Driver, NEW ls \in SUBSET Delivery,
         CreateAssignment(a, d, ls)
  PROVE  /\ TypeOK'
         /\ vehicle' = vehicle
         /\ assignment[a].status = Absent
         /\ assignment'[a].status = "Pending"
         /\ assignment'[a].driver = d
         /\ assignment'[a].vehicle \in Vehicle
         /\ vehicle[assignment'[a].vehicle].driver = d
         /\ \A b \in Assignment \ {a} : assignment'[b] = assignment[b]
         /\ driver[d].status = "Available"
         /\ driver'[d].status = "On_Delivery"
         /\ driver'[d].active = driver[d].active
         /\ \A e \in Driver \ {d} : driver'[e] = driver[e]
         /\ \A l \in ls : /\ delivery[l].status = "Created"
                          /\ delivery[l].assignment = None
                          /\ delivery'[l].status = "Assigned"
                          /\ delivery'[l].assignment = a
         /\ \A l \in Delivery \ ls : delivery'[l] = delivery[l]
  <1> USE DEF TypeOK, DriverStatus, DeliveryStatus, AssignmentStatus, Absent
  <1>1. PICK v \in Vehicle :
          /\ vehicle[v].driver = d
          /\ assignment' = [assignment EXCEPT ![a] =
                              [status |-> "Pending", driver |-> d, vehicle |-> v]]
    BY DEF CreateAssignment
  <1>2. /\ vehicle' = vehicle
        /\ assignment[a].status = Absent
        /\ driver[d].status = "Available"
        /\ driver' = [driver EXCEPT ![d].status = "On_Delivery"]
        /\ \A l \in ls : delivery[l].status = "Created" /\ delivery[l].assignment = None
        /\ delivery' = [l \in Delivery |->
             IF l \in ls THEN [status |-> "Assigned", assignment |-> a] ELSE delivery[l]]
    BY DEF CreateAssignment, Eligible, Assignable
  <1>3. /\ assignment' \in [Assignment -> [status : AssignmentStatus \cup {Absent},
                                           driver : Driver \cup {None},
                                           vehicle : Vehicle \cup {None}]]
        /\ assignment'[a].status = "Pending"
        /\ assignment'[a].driver = d
        /\ assignment'[a].vehicle = v
        /\ \A b \in Assignment \ {a} : assignment'[b] = assignment[b]
    BY <1>1
  <1>4. /\ driver' \in [Driver -> [status : DriverStatus \cup {Absent}, active : BOOLEAN]]
        /\ driver'[d].status = "On_Delivery"
        /\ driver'[d].active = driver[d].active
        /\ \A e \in Driver \ {d} : driver'[e] = driver[e]
    BY <1>2
  <1>5. /\ delivery' \in [Delivery -> [status : DeliveryStatus \cup {Absent},
                                       assignment : Assignment \cup {None}]]
        /\ \A l \in ls : delivery'[l].status = "Assigned" /\ delivery'[l].assignment = a
        /\ \A l \in Delivery \ ls : delivery'[l] = delivery[l]
    BY <1>2
  <1> QED BY <1>1, <1>2, <1>3, <1>4, <1>5

\* accept changes one assignment's status, to Accepted.
LEMMA AcceptStep ==
  ASSUME TypeOK, NEW a \in Assignment, Accept(a)
  PROVE  /\ TypeOK'
         /\ UNCHANGED <<driver, vehicle, delivery>>
         /\ assignment[a].status # Absent
         /\ assignment'[a].status = "Accepted"
         /\ \A b \in Assignment : /\ assignment'[b].driver = assignment[b].driver
                                  /\ assignment'[b].vehicle = assignment[b].vehicle
                                  /\ b # a => assignment'[b].status = assignment[b].status
  <1>1. /\ UNCHANGED <<driver, vehicle, delivery>>
        /\ assignment[a].status # Absent
        /\ assignment' = [assignment EXCEPT ![a].status = "Accepted"]
    BY DEF Accept
  <1> QED BY <1>1 DEF TypeOK, AssignmentStatus

\* reassign moves the link of one delivery that has one to an active assignment.
LEMMA ReassignStep ==
  ASSUME TypeOK, NEW l \in Delivery, NEW a \in Assignment, Reassign(l, a)
  PROVE  /\ TypeOK'
         /\ UNCHANGED <<driver, vehicle, assignment>>
         /\ delivery[l].assignment # None
         /\ Active(assignment[a])
         /\ delivery'[l].assignment = a
         /\ \A m \in Delivery : /\ delivery'[m].status = delivery[m].status
                                /\ m # l => delivery'[m].assignment = delivery[m].assignment
  BY DEF Reassign, TypeOK

\* Completion finds every linked delivery terminal, completes the assignment
\* and frees its driver.
LEMMA CompleteStep ==
  ASSUME TypeOK, Parties, NEW a \in Assignment, CompleteIfAllStopsTerminal(a)
  PROVE  /\ TypeOK'
         /\ UNCHANGED <<vehicle, delivery>>
         /\ assignment[a].status # Absent
         /\ \A l \in Linked(a) : delivery[l].status \in Terminal
         /\ assignment'[a].status = "Complete"
         /\ \A b \in Assignment : /\ assignment'[b].driver = assignment[b].driver
                                  /\ assignment'[b].vehicle = assignment[b].vehicle
                                  /\ b # a => assignment'[b].status = assignment[b].status
         /\ driver'[assignment[a].driver].status # "On_Delivery"
         /\ \A e \in Driver : /\ driver'[e].active = driver[e].active
                              /\ e # assignment[a].driver => driver'[e].status = driver[e].status
  <1> DEFINE d == assignment[a].driver
  <1>1. /\ UNCHANGED <<vehicle, delivery>>
        /\ assignment[a].status # Absent
        /\ \A l \in Linked(a) : delivery[l].status \in Terminal
        /\ assignment' = [assignment EXCEPT ![a].status = "Complete"]
    BY DEF CompleteIfAllStopsTerminal
  <1>2. d \in Driver
    BY <1>1 DEF Parties
  <1>3. driver' = [driver EXCEPT ![d].status = IF @ = "On_Delivery" THEN "Available" ELSE @]
    BY DEF CompleteIfAllStopsTerminal
  <1>4. /\ driver' \in [Driver -> [status : DriverStatus \cup {Absent}, active : BOOLEAN]]
        /\ driver'[d].status # "On_Delivery"
        /\ \A e \in Driver : /\ driver'[e].active = driver[e].active
                             /\ e # d => driver'[e].status = driver[e].status
    <2> HIDE DEF d
    <2> QED BY <1>2, <1>3 DEF TypeOK, DriverStatus, Absent
  <1>5. /\ assignment' \in [Assignment -> [status : AssignmentStatus \cup {Absent},
                                           driver : Driver \cup {None},
                                           vehicle : Vehicle \cup {None}]]
        /\ assignment'[a].status = "Complete"
        /\ \A b \in Assignment : /\ assignment'[b].driver = assignment[b].driver
                                 /\ assignment'[b].vehicle = assignment[b].vehicle
                                 /\ b # a => assignment'[b].status = assignment[b].status
    BY <1>1 DEF TypeOK, AssignmentStatus
  <1> QED BY <1>1, <1>4, <1>5 DEF TypeOK

-----------------------------------------------------------------------------
(***************************************************************************)
(* The inductive invariant.                                                *)
(***************************************************************************)

\* Nothing exists in the initial state.
LEMMA InitInv == Init => Inv
  BY DispatchAssumption
  DEF Init, Inv, TypeOK, Parties, LinksAreReal, VehicleStaysWithDriver,
      CompleteIsDone, Linked, Absent

LEMMA NextInv == Inv /\ [Next]_vars => Inv'
  <1> SUFFICES ASSUME Inv, [Next]_vars
               PROVE  Inv'
    OBVIOUS
  <1> USE DEF Inv
  <1>1. CASE DriverCalls
    <2>1. UNCHANGED <<vehicle, delivery, assignment>> /\ TypeOK'
      BY <1>1, DriverStep DEF TypeOK
    <2> QED BY <2>1 DEF Parties, LinksAreReal, VehicleStaysWithDriver, CompleteIsDone, Linked
  <1>9. ASSUME NEW d \in Driver, HandCall(d)
        PROVE  Inv'
    <2>1. UNCHANGED <<vehicle, delivery, assignment>> /\ TypeOK'
      BY <1>9, HandStep DEF TypeOK
    <2> QED BY <2>1 DEF Parties, LinksAreReal, VehicleStaysWithDriver, CompleteIsDone, Linked
  <1>2. CASE VehicleCalls
    <2>1. UNCHANGED <<driver, delivery, assignment>> /\ TypeOK'
      BY <1>2, VehicleStep DEF TypeOK
    <2>2. VehicleStaysWithDriver'
      <3> SUFFICES ASSUME NEW a \in Assignment, assignment[a].status # Absent
                   PROVE  vehicle'[assignment[a].vehicle].driver = assignment[a].driver
        BY <2>1 DEF VehicleStaysWithDriver
      <3>1. vehicle[assignment[a].vehicle].driver = assignment[a].driver
        BY DEF VehicleStaysWithDriver
      <3>2. assignment[a].driver # None /\ assignment[a].vehicle \in Vehicle
        BY DispatchAssumption DEF Parties
      <3> QED BY <1>2, <3>1, <3>2, VehicleStep
    <2> QED BY <2>1, <2>2 DEF Parties, LinksAreReal, CompleteIsDone, Linked
  <1>3. CASE DeliveryCalls
    <2>1. UNCHANGED <<driver, vehicle, assignment>> /\ TypeOK'
      BY <1>3, DeliveryStep DEF TypeOK
    <2>2. LinksAreReal'
      BY <1>3, <2>1, DeliveryStep DEF LinksAreReal
    <2>3. CompleteIsDone'
      BY <1>3, <2>1, DeliveryStep DEF CompleteIsDone, Linked
    <2> QED BY <2>1, <2>2, <2>3 DEF Parties, VehicleStaysWithDriver
  <1>4. ASSUME NEW a \in Assignment, NEW d \in Driver, NEW ls \in SUBSET Delivery,
               CreateAssignment(a, d, ls)
        PROVE  Inv'
    <2>1. Parties' /\ VehicleStaysWithDriver'
      BY <1>4, CreateStep DEF Parties, VehicleStaysWithDriver
    <2>2. LinksAreReal'
      <3> SUFFICES ASSUME NEW l \in Delivery, delivery'[l].assignment # None
                   PROVE  /\ assignment'[delivery'[l].assignment].status # Absent
                          /\ delivery'[l].status \notin {Absent, "Created"}
        BY DEF LinksAreReal
      <3>1. CASE l \in ls
        BY <1>4, <3>1, CreateStep DEF Absent
      <3>2. CASE l \notin ls
        <4>1. delivery'[l] = delivery[l] /\ delivery[l].assignment \in Assignment
          BY <1>4, <3>2, CreateStep DEF TypeOK
        <4>2. /\ assignment[delivery[l].assignment].status # Absent
              /\ delivery[l].status \notin {Absent, "Created"}
          BY <4>1 DEF LinksAreReal
        <4> QED BY <1>4, <4>1, <4>2, CreateStep DEF Absent
      <3> QED BY <3>1, <3>2
    <2>3. CompleteIsDone'
      <3> SUFFICES ASSUME NEW b \in Assignment, assignment'[b].status = "Complete",
                          NEW l \in Delivery, delivery'[l].assignment = b
                   PROVE  delivery'[l].status \in Terminal
        BY DEF CompleteIsDone, Linked
      <3>1. b # a /\ assignment[b].status = "Complete"
        BY <1>4, CreateStep
      <3>2. delivery'[l] = delivery[l]
        BY <1>4, <3>1, CreateStep
      <3> QED BY <3>1, <3>2 DEF CompleteIsDone, Linked
    <2> QED BY <1>4, <2>1, <2>2, <2>3, CreateStep
  <1>5. ASSUME NEW a \in Assignment, Accept(a)
        PROVE  Inv'
    <2>1. \A b \in Assignment : /\ assignment[b].status # Absent <=> assignment'[b].status # Absent
                                /\ assignment'[b].driver = assignment[b].driver
                                /\ assignment'[b].vehicle = assignment[b].vehicle
      BY <1>5, AcceptStep DEF Absent
    <2>2. UNCHANGED <<vehicle, delivery>> /\ TypeOK'
      BY <1>5, AcceptStep
    <2>3. Parties' /\ VehicleStaysWithDriver'
      BY <2>1, <2>2 DEF Parties, VehicleStaysWithDriver
    <2>4. LinksAreReal'
      <3>1. \A l \in Delivery : delivery[l].assignment \in Assignment \cup {None}
        BY DEF TypeOK
      <3> QED BY <2>1, <2>2, <3>1 DEF LinksAreReal
    <2>5. CompleteIsDone'
      BY <1>5, AcceptStep DEF CompleteIsDone, Linked
    <2> QED BY <2>2, <2>3, <2>4, <2>5
  <1>6. ASSUME NEW l \in Delivery, NEW a \in Assignment, Reassign(l, a)
        PROVE  Inv'
    <2>1. LinksAreReal'
      BY <1>6, ReassignStep DEF LinksAreReal, Active, AssignmentStatus, Absent
    <2>2. CompleteIsDone'
      BY <1>6, ReassignStep DEF CompleteIsDone, Linked, Active
    <2>3. Parties' /\ VehicleStaysWithDriver'
      BY <1>6, ReassignStep DEF Parties, VehicleStaysWithDriver
    <2> QED BY <1>6, <2>1, <2>2, <2>3, ReassignStep
  <1>7. ASSUME NEW a \in Assignment, CompleteIfAllStopsTerminal(a)
        PROVE  Inv'
    <2>1. \A b \in Assignment : /\ assignment[b].status # Absent <=> assignment'[b].status # Absent
                                /\ assignment'[b].driver = assignment[b].driver
                                /\ assignment'[b].vehicle = assignment[b].vehicle
      BY <1>7, CompleteStep DEF Absent
    <2>2. UNCHANGED <<vehicle, delivery>> /\ TypeOK'
      BY <1>7, CompleteStep
    <2>3. Parties' /\ VehicleStaysWithDriver'
      BY <2>1, <2>2 DEF Parties, VehicleStaysWithDriver
    <2>4. LinksAreReal'
      <3>1. \A l \in Delivery : delivery[l].assignment \in Assignment \cup {None}
        BY DEF TypeOK
      <3> QED BY <2>1, <2>2, <3>1 DEF LinksAreReal
    <2>5. CompleteIsDone'
      BY <1>7, CompleteStep DEF CompleteIsDone, Linked
    <2> QED BY <2>2, <2>3, <2>4, <2>5
  <1>8. CASE UNCHANGED vars
    BY <1>8 DEF vars, TypeOK, Parties, LinksAreReal, VehicleStaysWithDriver, CompleteIsDone, Linked
  <1> QED
    BY <1>1, <1>2, <1>3, <1>4, <1>5, <1>6, <1>7, <1>8, <1>9
    DEF Next, WorkflowNext, AssignmentCalls, RepeatedCall, Finishing

LEMMA Invariance == Spec => []Inv
  <1>1. Init => Inv
    BY InitInv
  <1>2. Inv /\ [Next]_vars => Inv'
    BY NextInv
  <1> QED BY <1>1, <1>2, PTL DEF Spec

\* The records the four repositories hold are always of their types.
THEOREM TypeCorrect == Spec => []TypeOK
  <1>1. Inv => TypeOK
    BY DEF Inv
  <1> QED BY <1>1, Invariance, PTL

\* A delivery's assignmentId always names an assignment that exists, and a
\* linked delivery has left Created.
THEOREM LinksAreRealCorrect == Spec => []LinksAreReal
  <1>1. Inv => LinksAreReal
    BY DEF Inv
  <1> QED BY <1>1, Invariance, PTL

\* The vehicle create recorded stays associated with the assignment's driver.
THEOREM VehicleStaysWithDriverCorrect == Spec => []VehicleStaysWithDriver
  <1>1. Inv => VehicleStaysWithDriver
    BY DEF Inv
  <1> QED BY <1>1, Invariance, PTL

\* A Complete assignment holds only terminal deliveries, for ever.
THEOREM CompleteIsDoneCorrect == Spec => []CompleteIsDone
  <1>1. Inv => CompleteIsDone
    BY DEF Inv
  <1> QED BY <1>1, Invariance, PTL

-----------------------------------------------------------------------------
(***************************************************************************)
(* The On_Delivery rules, with the history of the calls that bypass the    *)
(* workflow.                                                               *)
(***************************************************************************)

\* A step with history is a step of Dispatch.
LEMMA HistoryIsDispatch ==
  ASSUME [HistoryNext]_historyVars
  PROVE  [Next]_vars
  BY DEF HistoryNext, historyVars, vars, Next, Workflow, SetByHand, Repeat

\* The memory only grows, and of assignments that exist.
HistoryInv ==
  /\ repeated \subseteq Assignment
  /\ \A a \in repeated : assignment[a].status # Absent

\* No call removes an assignment or gives it another driver, so a driver who is
\* bypassed stays so.
LEMMA HistoryStep ==
  ASSUME Inv, HistoryInv, [HistoryNext]_historyVars
  PROVE  /\ HistoryInv'
         /\ \A a \in Assignment : assignment[a].status # Absent =>
              assignment'[a].status # Absent /\ assignment'[a].driver = assignment[a].driver
         /\ Bypassed \subseteq Bypassed'
  <1>1. \A a \in Assignment : assignment[a].status # Absent =>
          assignment'[a].status # Absent /\ assignment'[a].driver = assignment[a].driver
    <2> USE DEF Inv
    <2>1. CASE DriverCalls \/ VehicleCalls \/ DeliveryCalls
      BY <2>1, DriverStep, VehicleStep, DeliveryStep
    <2>2. ASSUME NEW a \in Assignment, NEW d \in Driver, NEW ls \in SUBSET Delivery,
                 CreateAssignment(a, d, ls), NEW b \in Assignment, assignment[b].status # Absent
          PROVE  assignment'[b].status # Absent /\ assignment'[b].driver = assignment[b].driver
      BY <2>2, CreateStep
    <2>3. ASSUME NEW a \in Assignment,
                 Finishing(a) \/ \E l \in Delivery : Reassign(l, a),
                 NEW b \in Assignment, assignment[b].status # Absent
          PROVE  assignment'[b].status # Absent /\ assignment'[b].driver = assignment[b].driver
      BY <2>3, AcceptStep, CompleteStep, ReassignStep DEF Finishing, Absent
    <2>4. ASSUME NEW d \in Driver, HandCall(d)
          PROVE  assignment' = assignment
      BY <2>4, HandStep
    <2>5. [Next]_vars
      BY HistoryIsDispatch
    <2>6. CASE UNCHANGED vars
      BY <2>6 DEF vars
    <2> QED BY <2>1, <2>2, <2>3, <2>4, <2>5, <2>6
            DEF Next, WorkflowNext, AssignmentCalls, RepeatedCall
  <1>2. byHand \subseteq byHand' /\ repeated \subseteq repeated'
    BY DEF HistoryNext, historyVars, Workflow, SetByHand, Repeat
  <1>3. repeated' \subseteq Assignment /\ \A a \in repeated' : assignment[a].status # Absent
    BY DEF HistoryNext, historyVars, Workflow, SetByHand, Repeat, RepeatedCall, HistoryInv, Absent
  <1> QED BY <1>1, <1>2, <1>3 DEF HistoryInv, Bypassed

\* An unfinished assignment of the driver survives what anyone else does.
LEMMA BusyStep ==
  Inv /\ BusyHasAssignment /\ [HistoryNext]_historyVars => BusyHasAssignment'
  <1> SUFFICES ASSUME Inv, BusyHasAssignment, [HistoryNext]_historyVars,
                      NEW d \in Driver, d \notin byHand', driver'[d].status = "On_Delivery"
               PROVE  \E b \in Assignment : assignment'[b].driver = d /\ Active(assignment'[b])
    BY DEF BusyHasAssignment
  <1> USE DEF Inv
  <1> DEFINE Holder(b) == assignment[b].driver = d /\ Active(assignment[b])
  <1>0. d \notin byHand
    BY DEF HistoryNext, historyVars, Workflow, SetByHand, Repeat
  <1>h. driver[d].status = "On_Delivery" => \E b \in Assignment : Holder(b)
    BY <1>0 DEF BusyHasAssignment
  <1>1. CASE DriverCalls
    BY <1>1, <1>h, DriverStep
  <1>2. CASE VehicleCalls \/ DeliveryCalls
    BY <1>2, <1>h, VehicleStep, DeliveryStep
  <1>3. ASSUME NEW a \in Assignment, NEW e \in Driver, NEW ls \in SUBSET Delivery,
               CreateAssignment(a, e, ls)
        PROVE  \E b \in Assignment : assignment'[b].driver = d /\ Active(assignment'[b])
    <2>1. CASE d = e
      BY <1>3, <2>1, CreateStep DEF Active, AssignmentStatus
    <2>2. CASE d # e
      <3>1. driver[d].status = "On_Delivery"
        BY <1>3, <2>2, CreateStep
      <3>2. PICK b \in Assignment : Holder(b)
        BY <1>h, <3>1
      <3>3. b # a
        BY <1>3, <3>2, CreateStep DEF Active, AssignmentStatus, Absent
      <3> QED BY <1>3, <3>2, <3>3, CreateStep
    <2> QED BY <2>1, <2>2
  <1>4. ASSUME NEW a \in Assignment, Accept(a)
        PROVE  \E b \in Assignment : assignment'[b].driver = d /\ Active(assignment'[b])
    <2>1. PICK b \in Assignment : Holder(b)
      BY <1>4, <1>h, AcceptStep
    <2> QED BY <1>4, <2>1, AcceptStep DEF Active, AssignmentStatus
  <1>5. ASSUME NEW l \in Delivery, NEW a \in Assignment, Reassign(l, a)
        PROVE  \E b \in Assignment : assignment'[b].driver = d /\ Active(assignment'[b])
    BY <1>5, <1>h, ReassignStep
  <1>6. ASSUME NEW a \in Assignment, CompleteIfAllStopsTerminal(a)
        PROVE  \E b \in Assignment : assignment'[b].driver = d /\ Active(assignment'[b])
    <2>1. d # assignment[a].driver
      BY <1>6, CompleteStep
    <2>2. driver[d].status = "On_Delivery"
      BY <1>6, <2>1, CompleteStep
    <2>3. PICK b \in Assignment : Holder(b)
      BY <1>h, <2>2
    <2> QED BY <1>6, <2>1, <2>3, CompleteStep DEF Active
  <1>7. ASSUME NEW e \in Driver, SetByHand(e)
        PROVE  \E b \in Assignment : assignment'[b].driver = d /\ Active(assignment'[b])
    <2>1. e # d /\ HandCall(e)
      BY <1>7 DEF SetByHand
    <2>2. driver'[d].status = driver[d].status /\ assignment' = assignment
      BY <2>1, HandStep
    <2> QED BY <1>h, <2>2
  <1>8. CASE UNCHANGED historyVars
    BY <1>8, <1>h DEF historyVars
  <1> QED
    BY <1>1, <1>2, <1>3, <1>4, <1>5, <1>6, <1>7, <1>8
    DEF HistoryNext, Workflow, WorkflowNext, AssignmentCalls, Repeat, RepeatedCall, Finishing

OnceInv == ActiveIsOnDelivery /\ OneActiveAssignment

\* For a driver who is not bypassed the two rules hold each other up: create finds an
\* Available driver, who therefore has no active assignment, and completion
\* frees a driver who has no other.
LEMMA OnceStep == Inv /\ HistoryInv /\ OnceInv /\ [HistoryNext]_historyVars => OnceInv'
  <1> SUFFICES ASSUME Inv, HistoryInv, OnceInv, [HistoryNext]_historyVars
               PROVE  OnceInv'
    OBVIOUS
  <1> USE DEF Inv, OnceInv
  <1>0. \A b \in Assignment : Active(assignment[b]) =>
          assignment[b].driver \in Driver /\ assignment[b].status # Absent
    BY DEF Parties, Active, AssignmentStatus, Absent
  <1>r. /\ \A b \in Assignment : assignment[b].status # Absent =>
             assignment'[b].driver = assignment[b].driver
        /\ Bypassed \subseteq Bypassed'
    BY HistoryStep
  <1>1. CASE DriverCalls
    <2>1. /\ assignment' = assignment
          /\ \A e \in Driver : (driver[e].status = "On_Delivery") <=> (driver'[e].status = "On_Delivery")
      BY <1>1, DriverStep
    <2> QED BY <1>0, <1>r, <2>1 DEF ActiveIsOnDelivery, OneActiveAssignment
  <1>2. CASE VehicleCalls \/ DeliveryCalls
    <2>1. UNCHANGED <<driver, assignment>>
      BY <1>2, VehicleStep, DeliveryStep
    <2> QED BY <1>0, <1>r, <2>1 DEF ActiveIsOnDelivery, OneActiveAssignment
  <1>3. ASSUME NEW a \in Assignment, NEW d \in Driver, NEW ls \in SUBSET Delivery,
               CreateAssignment(a, d, ls)
        PROVE  OnceInv'
    <2>0. /\ assignment'[a].driver = d /\ driver'[d].status = "On_Delivery"
          /\ driver[d].status # "On_Delivery"
          /\ \A e \in Driver \ {d} : driver'[e] = driver[e]
          /\ \A b \in Assignment \ {a} : assignment'[b] = assignment[b]
      BY <1>3, CreateStep
    <2>1. d \notin Bypassed => \A b \in Assignment \ {a} :
            Active(assignment[b]) => assignment[b].driver # d
      BY <2>0 DEF ActiveIsOnDelivery
    <2>2. ActiveIsOnDelivery'
      <3> SUFFICES ASSUME NEW b \in Assignment, Active(assignment'[b]),
                          assignment'[b].driver \notin Bypassed'
                   PROVE  driver'[assignment'[b].driver].status = "On_Delivery"
        BY DEF ActiveIsOnDelivery
      <3>1. CASE assignment'[b].driver = d
        BY <2>0, <3>1
      <3>2. CASE assignment'[b].driver # d
        BY <1>0, <1>r, <2>0, <3>2 DEF ActiveIsOnDelivery
      <3> QED BY <3>1, <3>2
    <2>3. OneActiveAssignment'
      <3> SUFFICES ASSUME NEW b \in Assignment, NEW c \in Assignment, b # c,
                          Active(assignment'[b]), Active(assignment'[c]),
                          assignment'[b].driver \notin Bypassed',
                          assignment'[b].driver = assignment'[c].driver
                   PROVE  FALSE
        BY DEF OneActiveAssignment
      <3>1. CASE b = a \/ c = a
        <4>1. assignment'[b].driver = d /\ d \notin Bypassed
          BY <1>r, <2>0, <3>1
        <4> QED BY <2>0, <2>1, <3>1, <4>1
      <3>2. CASE b # a /\ c # a
        BY <1>0, <1>r, <2>0, <3>2 DEF OneActiveAssignment
      <3> QED BY <3>1, <3>2
    <2> QED BY <2>2, <2>3
  <1>4. ASSUME NEW a \in Assignment, Accept(a), Active(assignment[a])
        PROVE  OnceInv'
    <2>1. \A b \in Assignment : /\ Active(assignment'[b]) => Active(assignment[b])
                                /\ assignment'[b].driver = assignment[b].driver
      BY <1>4, AcceptStep DEF Active
    <2>2. driver' = driver
      BY <1>4, AcceptStep
    <2> QED BY <1>0, <1>r, <2>1, <2>2 DEF ActiveIsOnDelivery, OneActiveAssignment
  <1>5. ASSUME NEW l \in Delivery, NEW a \in Assignment, Reassign(l, a)
        PROVE  OnceInv'
    <2>1. UNCHANGED <<driver, assignment>>
      BY <1>5, ReassignStep
    <2> QED BY <1>0, <1>r, <2>1 DEF ActiveIsOnDelivery, OneActiveAssignment
  <1>6. ASSUME NEW a \in Assignment, CompleteIfAllStopsTerminal(a), Active(assignment[a])
        PROVE  OnceInv'
    <2>1. \A b \in Assignment : /\ Active(assignment'[b]) => Active(assignment[b]) /\ b # a
                                /\ assignment'[b].driver = assignment[b].driver
      BY <1>6, CompleteStep DEF Active
    <2>2. \A e \in Driver : e # assignment[a].driver => driver'[e].status = driver[e].status
      BY <1>6, CompleteStep
    <2>3. \A b \in Assignment : Active(assignment'[b]) /\ assignment[b].driver \notin Bypassed =>
            driver'[assignment[b].driver].status = driver[assignment[b].driver].status
      BY <1>0, <1>6, <2>1, <2>2 DEF OneActiveAssignment
    <2>4. \A b \in Assignment : Active(assignment'[b]) /\ assignment'[b].driver \notin Bypassed' =>
            assignment[b].driver \notin Bypassed
      BY <1>0, <1>r, <2>1
    <2> QED BY <2>1, <2>3, <2>4 DEF ActiveIsOnDelivery, OneActiveAssignment
  <1>7. ASSUME NEW d \in Driver, SetByHand(d)
        PROVE  OnceInv'
    <2>1. HandCall(d) /\ d \in Bypassed'
      BY <1>7 DEF SetByHand, Bypassed
    <2>2. /\ assignment' = assignment
          /\ \A e \in Driver \ {d} : driver'[e].status = driver[e].status
      BY <2>1, HandStep
    <2> QED BY <1>0, <1>r, <2>1, <2>2 DEF ActiveIsOnDelivery, OneActiveAssignment
  <1>8. ASSUME NEW a \in Assignment, Repeat(a)
        PROVE  OnceInv'
    <2>1. assignment[a].status = "Complete" /\ Finishing(a) /\ a \in repeated'
      BY <1>8 DEF Repeat, RepeatedCall
    <2>2. assignment[a].driver \in Bypassed'
      BY <1>r, <2>1 DEF Bypassed, Absent
    <2>3. \A b \in Assignment : /\ assignment'[b].driver = assignment[b].driver
                                /\ b # a => assignment'[b].status = assignment[b].status
      BY <2>1, AcceptStep, CompleteStep DEF Finishing
    <2>4. \A e \in Driver : e # assignment[a].driver => driver'[e].status = driver[e].status
      BY <2>1, AcceptStep, CompleteStep DEF Finishing
    <2>5. \A b \in Assignment : Active(assignment'[b]) /\ assignment'[b].driver \notin Bypassed' =>
            /\ b # a /\ Active(assignment[b]) /\ assignment[b].driver \notin Bypassed
            /\ assignment[b].driver # assignment[a].driver
      BY <1>0, <1>r, <2>2, <2>3 DEF Active
    <2> QED BY <1>0, <2>3, <2>4, <2>5 DEF ActiveIsOnDelivery, OneActiveAssignment
  <1>9. CASE UNCHANGED historyVars
    BY <1>9 DEF historyVars, ActiveIsOnDelivery, OneActiveAssignment, Bypassed
  <1> QED
    BY <1>1, <1>2, <1>3, <1>4, <1>5, <1>6, <1>7, <1>8, <1>9
    DEF HistoryNext, Workflow, WorkflowNext, AssignmentCalls, Finishing

\* Remembering changes nothing: the behaviours with history are those of
\* Dispatch, and keep its invariant.
THEOREM HistoryRefines == HistorySpec => Spec
  <1>1. HistoryInit => Init
    BY DEF HistoryInit
  <1>2. [HistoryNext]_historyVars => [Next]_vars
    BY HistoryIsDispatch
  <1> QED BY <1>1, <1>2, PTL DEF HistorySpec, Spec

\* For every driver for whom nothing bypassed the workflow, whatever was set by
\* hand or called twice for others, status and assignments agree.
THEOREM StatusMatchesWorkCorrect == HistorySpec => []StatusMatchesWork
  <1> DEFINE Rules == HistoryInv /\ OnceInv /\ BusyHasAssignment
  <1>1. HistoryInit => Rules
    BY DEF HistoryInit, Init, HistoryInv, OnceInv, ActiveIsOnDelivery, OneActiveAssignment,
           BusyHasAssignment, Active, AssignmentStatus, Absent
  <1>2. Inv /\ Rules /\ [HistoryNext]_historyVars => Rules'
    BY HistoryStep, OnceStep, BusyStep
  <1>3. Rules => StatusMatchesWork
    BY DEF OnceInv, StatusMatchesWork
  <1> QED BY <1>1, <1>2, <1>3, HistoryRefines, Invariance, PTL DEF HistorySpec

\* Requirement 2.5 for every such driver: with an active assignment, On_Delivery.
THEOREM ActiveIsOnDeliveryCorrect == HistorySpec => []ActiveIsOnDelivery
  <1>1. StatusMatchesWork => ActiveIsOnDelivery
    BY DEF StatusMatchesWork
  <1> QED BY <1>1, StatusMatchesWorkCorrect, PTL

\* Every such driver has at most one active assignment.
THEOREM OneActiveAssignmentCorrect == HistorySpec => []OneActiveAssignment
  <1>1. StatusMatchesWork => OneActiveAssignment
    BY DEF StatusMatchesWork
  <1> QED BY <1>1, StatusMatchesWorkCorrect, PTL

\* However often accept and completion are repeated, a driver the services
\* show On_Delivery has an assignment that is not complete, unless staff set
\* that status.
THEOREM BusyHasAssignmentCorrect == HistorySpec => []BusyHasAssignment
  <1>1. StatusMatchesWork => BusyHasAssignment
    BY DEF StatusMatchesWork
  <1> QED BY <1>1, StatusMatchesWorkCorrect, PTL

-----------------------------------------------------------------------------
(***************************************************************************)
(* What a step may never do.                                               *)
(***************************************************************************)

\* Of all calls only those of DeliveryService and create write a status, and
\* neither touches a terminal one.
THEOREM TerminalIsFinalCorrect == Spec => TerminalIsFinal
  <1> DEFINE Final == \A l \in Delivery : delivery[l].status \in Terminal =>
                        delivery'[l].status = delivery[l].status
  <1>1. Inv /\ [Next]_vars => [Final]_vars
    <2> SUFFICES ASSUME Inv, Next
                 PROVE  Final
      OBVIOUS
    <2> USE DEF Inv
    <2>1. CASE DriverCalls \/ VehicleCalls
      BY <2>1, DriverStep, VehicleStep
    <2>2. CASE DeliveryCalls
      BY <2>2, DeliveryStep
    <2>3. ASSUME NEW a \in Assignment, NEW d \in Driver, NEW ls \in SUBSET Delivery,
                 CreateAssignment(a, d, ls)
          PROVE  Final
      BY <2>3, CreateStep DEF Terminal
    <2>4. ASSUME NEW a \in Assignment,
                 Accept(a) \/ CompleteIfAllStopsTerminal(a) \/ \E l \in Delivery : Reassign(l, a)
          PROVE  Final
      BY <2>4, AcceptStep, CompleteStep, ReassignStep
    <2>5. ASSUME NEW d \in Driver, HandCall(d)
          PROVE  Final
      BY <2>5, HandStep
    <2> QED BY <2>1, <2>2, <2>3, <2>4, <2>5
        DEF Next, WorkflowNext, AssignmentCalls, RepeatedCall, Finishing
  <1> QED BY <1>1, Invariance, PTL DEF Spec, TerminalIsFinal

\* No call sets the active flag of a driver that exists.
THEOREM DeactivationSticksCorrect == Spec => DeactivationSticks
  <1> DEFINE Sticks == \A d \in Driver : driver[d].status # Absent /\ ~driver[d].active =>
                         ~driver'[d].active
  <1>1. Inv /\ [Next]_vars => [Sticks]_vars
    <2> SUFFICES ASSUME Inv, Next
                 PROVE  Sticks
      OBVIOUS
    <2> USE DEF Inv
    <2>1. CASE DriverCalls
      BY <2>1, DriverStep
    <2>2. CASE VehicleCalls \/ DeliveryCalls
      BY <2>2, VehicleStep, DeliveryStep
    <2>3. ASSUME NEW a \in Assignment, NEW d \in Driver, NEW ls \in SUBSET Delivery,
                 CreateAssignment(a, d, ls)
          PROVE  Sticks
      BY <2>3, CreateStep
    <2>4. ASSUME NEW a \in Assignment,
                 Accept(a) \/ CompleteIfAllStopsTerminal(a) \/ \E l \in Delivery : Reassign(l, a)
          PROVE  Sticks
      BY <2>4, AcceptStep, CompleteStep, ReassignStep
    <2>5. ASSUME NEW d \in Driver, HandCall(d)
          PROVE  Sticks
      BY <2>5, HandStep
    <2> QED BY <2>1, <2>2, <2>3, <2>4, <2>5
        DEF Next, WorkflowNext, AssignmentCalls, RepeatedCall, Finishing
  <1> QED BY <1>1, Invariance, PTL DEF Spec, DeactivationSticks

\* create and reassign are the only calls that write a link, and both link to
\* an active assignment.
THEOREM LinkMovesToActiveCorrect == Spec => LinkMovesToActive
  <1> DEFINE Moves == \A l \in Delivery : LinkMoves(l)
  <1> USE DEF LinkMoves
  <1>1. Inv /\ [Next]_vars => [Moves]_vars
    <2> SUFFICES ASSUME Inv, Next
                 PROVE  Moves
      OBVIOUS
    <2> USE DEF Inv
    <2>1. CASE DriverCalls \/ VehicleCalls
      BY <2>1, DriverStep, VehicleStep
    <2>2. CASE DeliveryCalls
      BY <2>2, DeliveryStep
    <2>3. ASSUME NEW a \in Assignment, NEW d \in Driver, NEW ls \in SUBSET Delivery,
                 CreateAssignment(a, d, ls)
          PROVE  Moves
      BY <2>3, CreateStep, DispatchAssumption DEF Active, AssignmentStatus
    <2>4. ASSUME NEW a \in Assignment, Accept(a) \/ CompleteIfAllStopsTerminal(a)
          PROVE  Moves
      BY <2>4, AcceptStep, CompleteStep
    <2>5. ASSUME NEW a \in Assignment, NEW l \in Delivery, Reassign(l, a)
          PROVE  Moves
      BY <2>5, ReassignStep, DispatchAssumption
    <2>6. ASSUME NEW d \in Driver, HandCall(d)
          PROVE  Moves
      BY <2>6, HandStep
    <2> QED BY <2>1, <2>2, <2>3, <2>4, <2>5, <2>6
        DEF Next, WorkflowNext, AssignmentCalls, RepeatedCall, Finishing
  <1> QED BY <1>1, Invariance, PTL DEF Spec, LinkMovesToActive

-----------------------------------------------------------------------------
\* The repositories agree in every state, whatever the callers do.
THEOREM RecordsAgreeCorrect == Spec => []RecordsAgree
  BY TypeCorrect, LinksAreRealCorrect, VehicleStaysWithDriverCorrect,
     CompleteIsDoneCorrect, PTL DEF RecordsAgree

\* No operation revives a driver or a delivery or drops a link.
THEOREM NothingIsUndoneCorrect == Spec => NothingIsUndone
  BY DeactivationSticksCorrect, TerminalIsFinalCorrect, LinkMovesToActiveCorrect,
     PTL DEF NothingIsUndone

-----------------------------------------------------------------------------
(***************************************************************************)
(* DispatchConcurrent: calls that interleave at their awaits.  A snapshot  *)
(* may be stale in every way but these: it is a whole record, a delivery   *)
(* record about to be written has left Created, and the assignments it     *)
(* links to exist, because no call ever removes one.                       *)
(***************************************************************************)
DriverRecord     == [status : DriverStatus, active : BOOLEAN]
LeftCreated      == [status : DeliveryStatus \ {"Created"}, assignment : Assignment \cup {None}]
AssignmentRecord == [status : AssignmentStatus, driver : Driver, vehicle : Vehicle]

Snapshot ==
  {Idle}
  \cup [at : {"create.deliveries"}, driver : Driver, vehicle : Vehicle,
        driverRec : DriverRecord, todo : SUBSET Delivery, found : SUBSET Delivery]
  \cup [at : {"create.link"}, assignment : Assignment, driver : Driver,
        driverRec : DriverRecord, todo : SUBSET Delivery]
  \cup [at : {"transition.save"}, delivery : Delivery, rec : LeftCreated]
  \cup [at : {"driver.save", "complete.free"}, driver : Driver, rec : DriverRecord]
  \cup [at : {"accept.save", "complete.list", "complete.save"}, assignment : Assignment,
        rec : AssignmentRecord]
  \cup [at : {"reassign.target", "reassign.save"}, delivery : Delivery,
        assignment : Assignment, rec : LeftCreated]
  \cup [at : {"complete.driver"}, driver : Driver]

\* What call c still relies on: the assignments it is going to link to exist
\* among the records as.
LinksTo(c, as) ==
  /\ c.at = "create.link" => as[c.assignment].status # Absent
  /\ c.at = "transition.save" /\ c.rec.assignment # None =>
       as[c.rec.assignment].status # Absent
  /\ c.at = "reassign.target" => c.rec.assignment = c.assignment
  /\ c.at = "reassign.save" =>
       /\ c.rec.assignment = c.assignment
       /\ as[c.assignment].status # Absent

CallInv ==
  /\ TypeOK
  /\ driver \in [Driver -> DriverRecord]
  /\ Parties
  /\ LinksAreReal
  /\ call \in [Request -> Snapshot]
  /\ \A r \in Request : LinksTo(call[r], assignment)

\* No step removes an assignment.
Kept == \A a \in Assignment : assignment[a].status # Absent => assignment'[a].status # Absent

\* A step of one slot leaves what the other slots rely on, as long as the
\* assignments are kept.
LEMMA SlotStep ==
  ASSUME call \in [Request -> Snapshot], \A s \in Request : LinksTo(call[s], assignment),
         Kept, NEW r \in Request, NEW c \in Snapshot, LinksTo(c, assignment'), Goto(r, c)
  PROVE  /\ call' \in [Request -> Snapshot]
         /\ \A s \in Request : LinksTo(call'[s], assignment')
  <1>1. call' \in [Request -> Snapshot]
    BY DEF Goto
  <1>2. ASSUME NEW s \in Request, s # r
        PROVE  LinksTo(call'[s], assignment')
    <2>1. call'[s] = call[s] /\ call[s] \in Snapshot /\ LinksTo(call[s], assignment)
      BY <1>2 DEF Goto
    <2>2. ASSUME call[s].at = "create.link"
          PROVE  call[s].assignment \in Assignment
      BY <2>1, <2>2 DEF Snapshot, Idle
    <2>3. ASSUME call[s].at = "transition.save"
          PROVE  call[s].rec.assignment \in Assignment \cup {None}
      BY <2>1, <2>3 DEF Snapshot, Idle, LeftCreated
    <2>4. ASSUME call[s].at = "reassign.save"
          PROVE  call[s].assignment \in Assignment
      BY <2>1, <2>4 DEF Snapshot, Idle
    <2> QED BY <2>1, <2>2, <2>3, <2>4 DEF LinksTo, Kept
  <1>3. call'[r] = c
    BY DEF Goto
  <1> QED BY <1>1, <1>2, <1>3

LEMMA IdleHolds == Idle \in Snapshot /\ \A as : LinksTo(Idle, as)
  BY DEF Idle, Snapshot, LinksTo

\* The label of a call says which record it is.
LEMMA SnapshotKinds ==
  ASSUME NEW c \in Snapshot
  PROVE  /\ c.at = "create.deliveries" =>
              c \in [at : {"create.deliveries"}, driver : Driver, vehicle : Vehicle,
                     driverRec : DriverRecord, todo : SUBSET Delivery, found : SUBSET Delivery]
         /\ c.at = "create.link" =>
              c \in [at : {"create.link"}, assignment : Assignment, driver : Driver,
                     driverRec : DriverRecord, todo : SUBSET Delivery]
         /\ c.at = "transition.save" =>
              c \in [at : {"transition.save"}, delivery : Delivery, rec : LeftCreated]
         /\ c.at \in {"driver.save", "complete.free"} =>
              c \in [at : {"driver.save", "complete.free"}, driver : Driver, rec : DriverRecord]
         /\ c.at \in {"accept.save", "complete.list", "complete.save"} =>
              c \in [at : {"accept.save", "complete.list", "complete.save"},
                     assignment : Assignment, rec : AssignmentRecord]
         /\ c.at \in {"reassign.target", "reassign.save"} =>
              c \in [at : {"reassign.target", "reassign.save"}, delivery : Delivery,
                     assignment : Assignment, rec : LeftCreated]
         /\ c.at = "complete.driver" => c \in [at : {"complete.driver"}, driver : Driver]
  BY DEF Snapshot, Idle

-----------------------------------------------------------------------------
(***************************************************************************)
(* Every step of a call keeps CallInv.  A step that only reads has one     *)
(* thing to show: the snapshot it takes is one.                            *)
(***************************************************************************)
LEMMA ReadStep ==
  ASSUME CallInv, UNCHANGED vars, NEW r \in Request, NEW c \in Snapshot,
         LinksTo(c, assignment), Goto(r, c)
  PROVE  CallInv'
  <1>1. Kept
    BY DEF vars, Kept
  <1>2. /\ call' \in [Request -> Snapshot]
        /\ \A s \in Request : LinksTo(call'[s], assignment')
    BY <1>1, SlotStep DEF CallInv, vars
  <1> QED BY <1>2 DEF CallInv, vars, TypeOK, Parties, LinksAreReal

\* The steps of create.
LEMMA CreateKeeps == ASSUME CallInv, NEW r \in Request, Create(r) PROVE CallInv'
  <1> DEFINE c == call[r]
  <1>c. c \in Snapshot /\ LinksTo(c, assignment)
    BY DEF CallInv
  <1>1. ASSUME NEW d \in Driver, NEW ls \in SUBSET Delivery, CreateFindDriver(r, d, ls)
        PROVE  CallInv'
    <2>1. PICK v \in Vehicle :
            Goto(r, [at |-> "create.deliveries", driver |-> d, vehicle |-> v,
                     driverRec |-> driver[d], todo |-> ls, found |-> {}])
      BY <1>1 DEF CreateFindDriver
    <2> DEFINE new == [at |-> "create.deliveries", driver |-> d, vehicle |-> v,
                       driverRec |-> driver[d], todo |-> ls, found |-> {}]
    <2>2. driver[d] \in DriverRecord
      BY DEF CallInv
    <2>3. new \in Snapshot
      BY <2>2 DEF Snapshot
    <2>4. LinksTo(new, assignment)
      BY DEF LinksTo
    <2>5. UNCHANGED vars
      BY <1>1 DEF CreateFindDriver
    <2> QED BY <2>1, <2>3, <2>4, <2>5, ReadStep
  <1>2. ASSUME NEW l \in Delivery, CreateFindDelivery(r, l)
        PROVE  CallInv'
    <2> DEFINE new == [c EXCEPT !.todo = @ \ {l}, !.found = @ \cup {l}]
    <2>1. UNCHANGED vars /\ c.at = "create.deliveries" /\ (Goto(r, new) \/ Goto(r, Idle))
      BY <1>2 DEF CreateFindDelivery, Return, At
    <2>2. new \in Snapshot /\ LinksTo(new, assignment)
      <3>1. c \in [at : {"create.deliveries"}, driver : Driver, vehicle : Vehicle,
                   driverRec : DriverRecord, todo : SUBSET Delivery, found : SUBSET Delivery]
        BY <1>c, <2>1, SnapshotKinds
      <3> HIDE DEF c
      <3> QED BY <3>1 DEF Snapshot, LinksTo
    <2> QED BY <2>1, <2>2, ReadStep, IdleHolds
  <1>3. ASSUME NEW a \in Assignment, CreateInsert(r, a)
        PROVE  CallInv'
    <2> DEFINE new == [at |-> "create.link", assignment |-> a, driver |-> c.driver,
                       driverRec |-> c.driverRec, todo |-> c.found]
    <2>1. /\ c.at = "create.deliveries" /\ assignment[a].status = Absent
          /\ assignment' = [assignment EXCEPT ![a] =
               [status |-> "Pending", driver |-> c.driver, vehicle |-> c.vehicle]]
          /\ Goto(r, new)
          /\ UNCHANGED <<driver, vehicle, delivery>>
      BY <1>3 DEF CreateInsert, At
    <2>2. c \in [at : {"create.deliveries"}, driver : Driver, vehicle : Vehicle,
                 driverRec : DriverRecord, todo : SUBSET Delivery, found : SUBSET Delivery]
      BY <1>c, <2>1, SnapshotKinds
    <2> HIDE DEF c
    <2>3. /\ assignment' \in [Assignment -> [status : AssignmentStatus \cup {Absent},
                                             driver : Driver \cup {None},
                                             vehicle : Vehicle \cup {None}]]
          /\ assignment'[a] = [status |-> "Pending", driver |-> c.driver, vehicle |-> c.vehicle]
          /\ \A b \in Assignment \ {a} : assignment'[b] = assignment[b]
      BY <2>1, <2>2 DEF CallInv, TypeOK, AssignmentStatus
    <2>4. Kept /\ assignment'[a].status # Absent
      BY <2>3 DEF Kept, Absent
    <2>5. new \in Snapshot /\ LinksTo(new, assignment')
      BY <2>2, <2>4 DEF Snapshot, LinksTo
    <2>6. TypeOK' /\ Parties'
      BY <2>1, <2>2, <2>3 DEF CallInv, TypeOK, Parties
    <2>7. LinksAreReal'
      BY <2>1, <2>3, <2>4 DEF CallInv, TypeOK, LinksAreReal, Kept
    <2>8. call' \in [Request -> Snapshot] /\ \A s \in Request : LinksTo(call'[s], assignment')
      <3> HIDE DEF new
      <3> QED BY <2>1, <2>4, <2>5, SlotStep DEF CallInv
    <2> QED BY <2>1, <2>6, <2>7, <2>8 DEF CallInv
  <1>4. ASSUME NEW l \in Delivery, CreateSaveDelivery(r, l)
        PROVE  CallInv'
    <2> DEFINE new == [c EXCEPT !.todo = @ \ {l}]
    <2>1. /\ c.at = "create.link" /\ Goto(r, new)
          /\ delivery' = [delivery EXCEPT ![l] =
               [status |-> "Assigned", assignment |-> c.assignment]]
          /\ UNCHANGED <<driver, vehicle, assignment>>
      BY <1>4 DEF CreateSaveDelivery, At
    <2>2. c \in [at : {"create.link"}, assignment : Assignment, driver : Driver,
                 driverRec : DriverRecord, todo : SUBSET Delivery]
      BY <1>c, <2>1, SnapshotKinds
    <2> HIDE DEF c
    <2>3. Kept /\ assignment[c.assignment].status # Absent
      BY <1>c, <2>1 DEF Kept, LinksTo
    <2>4. new \in Snapshot /\ LinksTo(new, assignment')
      BY <2>1, <2>2, <2>3 DEF Snapshot, LinksTo
    <2>5. TypeOK' /\ Parties'
      BY <2>1, <2>2 DEF CallInv, TypeOK, Parties, DeliveryStatus
    <2>6. LinksAreReal'
      BY <2>1, <2>2, <2>3 DEF CallInv, TypeOK, LinksAreReal, Absent
    <2>7. call' \in [Request -> Snapshot] /\ \A s \in Request : LinksTo(call'[s], assignment')
      <3> HIDE DEF new
      <3> QED BY <2>1, <2>3, <2>4, SlotStep DEF CallInv
    <2> QED BY <2>1, <2>5, <2>6, <2>7 DEF CallInv
  <1>5. CASE CreateSaveDriver(r)
    <2>1. /\ c.at = "create.link" /\ Goto(r, Idle)
          /\ driver' = [driver EXCEPT ![c.driver] = [c.driverRec EXCEPT !.status = "On_Delivery"]]
          /\ UNCHANGED <<vehicle, delivery, assignment>>
      BY <1>5 DEF CreateSaveDriver, At, Return
    <2>2. c.driver \in Driver /\ c.driverRec \in DriverRecord
      BY <1>c, <2>1, SnapshotKinds
    <2> HIDE DEF c
    <2>3. /\ driver' \in [Driver -> DriverRecord]
          /\ driver' \in [Driver -> [status : DriverStatus \cup {Absent}, active : BOOLEAN]]
      BY <2>1, <2>2 DEF CallInv, DriverRecord, DriverStatus
    <2>4. Kept
      BY <2>1 DEF Kept
    <2>5. call' \in [Request -> Snapshot] /\ \A s \in Request : LinksTo(call'[s], assignment')
      BY <2>1, <2>4, IdleHolds, SlotStep DEF CallInv
    <2> QED BY <2>1, <2>3, <2>5 DEF CallInv, TypeOK, Parties, LinksAreReal
  <1> QED BY <1>1, <1>2, <1>3, <1>4, <1>5 DEF Create

\* save writes a whole record; what makes each write harmless is in the snapshot.
LEMMA DeliverySaved ==
  ASSUME CallInv, NEW r \in Request, call[r].at \in {"transition.save", "reassign.save"},
         delivery' = [delivery EXCEPT ![call[r].delivery] = call[r].rec],
         UNCHANGED <<driver, vehicle, assignment>>, Return(r)
  PROVE  CallInv'
  <1> DEFINE c == call[r]
  <1>1. c.delivery \in Delivery /\ c.rec \in LeftCreated
    BY SnapshotKinds DEF CallInv
  <1>2. c.rec.assignment # None => assignment[c.rec.assignment].status # Absent
    BY DEF CallInv, LinksTo
  <1>3. delivery' = [delivery EXCEPT ![c.delivery] = c.rec]
    OBVIOUS
  <1> HIDE DEF c
  <1>4. TypeOK' /\ Parties'
    BY <1>1, <1>3 DEF CallInv, TypeOK, Parties, LeftCreated
  <1>5. LinksAreReal'
    BY <1>1, <1>2, <1>3 DEF CallInv, TypeOK, LinksAreReal, LeftCreated, DeliveryStatus, Absent
  <1>6. Kept
    BY DEF Kept
  <1>7. call' \in [Request -> Snapshot] /\ \A s \in Request : LinksTo(call'[s], assignment')
    BY <1>6, IdleHolds, SlotStep DEF CallInv, Return
  <1> QED BY <1>4, <1>5, <1>7 DEF CallInv

LEMMA DriverSaved ==
  ASSUME CallInv, NEW r \in Request, call[r].at \in {"driver.save", "complete.free"},
         driver' = [driver EXCEPT ![call[r].driver] = call[r].rec],
         UNCHANGED <<vehicle, delivery, assignment>>, Return(r)
  PROVE  CallInv'
  <1> DEFINE c == call[r]
  <1>1. c.driver \in Driver /\ c.rec \in DriverRecord
    BY SnapshotKinds DEF CallInv
  <1>2. driver' = [driver EXCEPT ![c.driver] = c.rec]
    OBVIOUS
  <1> HIDE DEF c
  <1>3. /\ driver' \in [Driver -> DriverRecord]
        /\ driver' \in [Driver -> [status : DriverStatus \cup {Absent}, active : BOOLEAN]]
    <2>1. driver' \in [Driver -> DriverRecord]
      BY <1>1, <1>2 DEF CallInv
    <2>2. \A x \in DriverRecord : x \in [status : DriverStatus \cup {Absent}, active : BOOLEAN]
      BY DEF DriverRecord
    <2> QED BY <2>1, <2>2
  <1>4. Kept
    BY DEF Kept
  <1>5. call' \in [Request -> Snapshot] /\ \A s \in Request : LinksTo(call'[s], assignment')
    BY <1>4, IdleHolds, SlotStep DEF CallInv, Return
  <1> QED BY <1>3, <1>5 DEF CallInv, TypeOK, Parties, LinksAreReal

LEMMA AssignmentSaved ==
  ASSUME CallInv, NEW r \in Request, NEW a \in Assignment, NEW rec \in AssignmentRecord,
         assignment' = [assignment EXCEPT ![a] = rec],
         UNCHANGED <<driver, vehicle, delivery>>,
         NEW c \in Snapshot, Goto(r, c), \A as : LinksTo(c, as)
  PROVE  CallInv'
  <1>1. assignment' \in [Assignment -> [status : AssignmentStatus \cup {Absent},
                                        driver : Driver \cup {None},
                                        vehicle : Vehicle \cup {None}]]
    BY DEF CallInv, TypeOK, AssignmentRecord
  <1>2. assignment'[a] = rec /\ \A b \in Assignment \ {a} : assignment'[b] = assignment[b]
    BY DEF CallInv, TypeOK
  <1>3. Kept
    BY <1>2 DEF Kept, AssignmentRecord, AssignmentStatus, Absent
  <1>4. TypeOK' /\ Parties'
    BY <1>1, <1>2 DEF CallInv, TypeOK, Parties, AssignmentRecord
  <1>5. LinksAreReal'
    BY <1>3 DEF CallInv, TypeOK, LinksAreReal, Kept
  <1>6. call' \in [Request -> Snapshot] /\ \A s \in Request : LinksTo(call'[s], assignment')
    BY <1>3, SlotStep DEF CallInv
  <1> QED BY <1>4, <1>5, <1>6 DEF CallInv

\* The steps of the calls that read and write one record.
LEMMA SingleRecordKeeps == ASSUME CallInv, NEW r \in Request, SingleRecord(r) PROVE CallInv'
  <1>1. ASSUME NEW l \in Delivery, NEW event \in DeliveryEvent, TransitionFind(r, l, event)
        PROVE  CallInv'
    <2>1. PICK status \in DeliveryStatus :
            /\ <<delivery[l].status, event, status>> \in Lifecycle
            /\ Goto(r, [at |-> "transition.save", delivery |-> l,
                        rec |-> [delivery[l] EXCEPT !.status = status]])
      BY <1>1 DEF TransitionFind
    <2> DEFINE rec == [delivery[l] EXCEPT !.status = status]
               new == [at |-> "transition.save", delivery |-> l, rec |-> rec]
    <2>2. status # "Created"
      BY <2>1, LifecycleSteps
    <2>3. rec \in LeftCreated /\ rec.assignment = delivery[l].assignment
      BY <2>2 DEF CallInv, TypeOK, LeftCreated
    <2>4. rec.assignment # None => assignment[rec.assignment].status # Absent
      BY <2>3 DEF CallInv, LinksAreReal
    <2> HIDE DEF rec
    <2>5. new \in Snapshot /\ LinksTo(new, assignment)
      BY <2>3, <2>4 DEF Snapshot, LinksTo
    <2> HIDE DEF new
    <2>6. UNCHANGED vars /\ Goto(r, new)
      BY <1>1, <2>1 DEF TransitionFind, new, rec
    <2> QED BY <2>5, <2>6, ReadStep
  <1>2. ASSUME TransitionSave(r)
        PROVE  CallInv'
    BY <1>2, DeliverySaved DEF TransitionSave, At
  <1>3. ASSUME NEW d \in Driver, DriverFind(r, d)
        PROVE  CallInv'
    <2>1. PICK rec \in {[driver[d] EXCEPT !.status = t] :
                          t \in {t \in DriverStatus : <<driver[d].status, t>> \in DriverSettable}}
                       \cup {[driver[d] EXCEPT !.active = FALSE]} :
            Goto(r, [at |-> "driver.save", driver |-> d, rec |-> rec])
      BY <1>3 DEF DriverFind
    <2> DEFINE new == [at |-> "driver.save", driver |-> d, rec |-> rec]
    <2>2. driver[d] \in DriverRecord
      BY DEF CallInv
    <2>3. rec \in DriverRecord
      <3>1. CASE rec = [driver[d] EXCEPT !.active = FALSE]
        BY <2>2, <3>1 DEF DriverRecord
      <3>2. ASSUME NEW t \in DriverStatus, rec = [driver[d] EXCEPT !.status = t]
            PROVE  rec \in DriverRecord
        BY <2>2, <3>2 DEF DriverRecord
      <3> QED BY <3>1, <3>2
    <2>4. new \in Snapshot /\ LinksTo(new, assignment)
      BY <2>3 DEF Snapshot, LinksTo
    <2>5. UNCHANGED vars
      BY <1>3 DEF DriverFind
    <2> QED BY <2>1, <2>4, <2>5, ReadStep
  <1>4. ASSUME DriverSave(r)
        PROVE  CallInv'
    BY <1>4, DriverSaved DEF DriverSave, At
  <1>5. ASSUME NEW a \in Assignment, AcceptFind(r, a)
        PROVE  CallInv'
    <2> DEFINE rec == [assignment[a] EXCEPT !.status = "Accepted"]
               new == [at |-> "accept.save", assignment |-> a, rec |-> rec]
    <2>1. UNCHANGED vars /\ assignment[a].status # Absent /\ Goto(r, new)
      BY <1>5 DEF AcceptFind
    <2>2. rec \in AssignmentRecord
      BY <2>1 DEF CallInv, TypeOK, Parties, AssignmentRecord, AssignmentStatus
    <2> HIDE DEF rec
    <2>3. new \in Snapshot /\ LinksTo(new, assignment)
      BY <2>2 DEF Snapshot, LinksTo
    <2> HIDE DEF new
    <2> QED BY <2>1, <2>3, ReadStep
  <1>6. ASSUME AcceptSave(r)
        PROVE  CallInv'
    <2>1. call[r].assignment \in Assignment /\ call[r].rec \in AssignmentRecord
      BY <1>6, SnapshotKinds DEF CallInv, AcceptSave, At
    <2> QED BY <1>6, <2>1, AssignmentSaved, IdleHolds DEF AcceptSave, Return
  <1> QED BY <1>1, <1>2, <1>3, <1>4, <1>5, <1>6 DEF SingleRecord

\* The steps of reassign.
LEMMA ReassigningKeeps == ASSUME CallInv, NEW r \in Request, Reassigning(r) PROVE CallInv'
  <1> DEFINE c == call[r]
  <1>c. c \in Snapshot /\ LinksTo(c, assignment)
    BY DEF CallInv
  <1>1. ASSUME NEW l \in Delivery, NEW a \in Assignment, ReassignFindDelivery(r, l, a)
        PROVE  CallInv'
    <2> DEFINE rec == [delivery[l] EXCEPT !.assignment = a]
               new == [at |-> "reassign.target", delivery |-> l, assignment |-> a, rec |-> rec]
    <2>1. UNCHANGED vars /\ delivery[l].assignment # None /\ Goto(r, new)
      BY <1>1 DEF ReassignFindDelivery
    <2>2. rec \in LeftCreated /\ rec.assignment = a
      BY <2>1 DEF CallInv, TypeOK, LinksAreReal, LeftCreated
    <2> HIDE DEF rec
    <2>3. new \in Snapshot /\ LinksTo(new, assignment)
      BY <2>2 DEF Snapshot, LinksTo
    <2> HIDE DEF new
    <2> QED BY <2>1, <2>3, ReadStep
  <1>2. ASSUME ReassignFindTarget(r)
        PROVE  CallInv'
    <2> DEFINE new == [c EXCEPT !.at = "reassign.save"]
    <2>1. /\ UNCHANGED vars /\ c.at = "reassign.target"
          /\ \/ Active(assignment[c.assignment]) /\ Goto(r, new)
             \/ Goto(r, Idle)
      BY <1>2 DEF ReassignFindTarget, At, Return
    <2>2. c \in [at : {"reassign.target", "reassign.save"}, delivery : Delivery,
                 assignment : Assignment, rec : LeftCreated]
      BY <1>c, <2>1, SnapshotKinds
    <2>3. new \in Snapshot
      BY <2>2 DEF Snapshot
    <2>4. ASSUME Active(assignment[c.assignment])
          PROVE  LinksTo(new, assignment)
      <3> HIDE DEF c
      <3> QED BY <1>c, <2>1, <2>2, <2>4 DEF LinksTo, Active, AssignmentStatus, Absent
    <2> HIDE DEF new
    <2> QED BY <2>1, <2>3, <2>4, ReadStep, IdleHolds
  <1>3. ASSUME ReassignSave(r)
        PROVE  CallInv'
    BY <1>3, DeliverySaved DEF ReassignSave, At
  <1> QED BY <1>1, <1>2, <1>3 DEF Reassigning

\* The steps of completeIfAllStopsTerminal.
LEMMA CompletingKeeps == ASSUME CallInv, NEW r \in Request, Completing(r) PROVE CallInv'
  <1> DEFINE c == call[r]
  <1>c. c \in Snapshot /\ LinksTo(c, assignment)
    BY DEF CallInv
  <1>1. ASSUME NEW a \in Assignment, CompleteFind(r, a)
        PROVE  CallInv'
    <2> DEFINE new == [at |-> "complete.list", assignment |-> a, rec |-> assignment[a]]
    <2>1. UNCHANGED vars /\ assignment[a].status # Absent /\ Goto(r, new)
      BY <1>1 DEF CompleteFind
    <2>2. assignment[a] \in AssignmentRecord
      BY <2>1 DEF CallInv, TypeOK, Parties, AssignmentRecord
    <2>3. new \in Snapshot /\ LinksTo(new, assignment)
      BY <2>2 DEF Snapshot, LinksTo
    <2> HIDE DEF new
    <2> QED BY <2>1, <2>3, ReadStep
  <1>2. ASSUME CompleteList(r)
        PROVE  CallInv'
    <2> DEFINE new == [c EXCEPT !.at = "complete.save"]
    <2>1. UNCHANGED vars /\ c.at = "complete.list" /\ (Goto(r, new) \/ Goto(r, Idle))
      BY <1>2 DEF CompleteList, At, Return
    <2>2. c \in [at : {"accept.save", "complete.list", "complete.save"},
                 assignment : Assignment, rec : AssignmentRecord]
      BY <1>c, <2>1, SnapshotKinds
    <2>3. new \in Snapshot /\ LinksTo(new, assignment)
      <3> HIDE DEF c
      <3> QED BY <2>2 DEF Snapshot, LinksTo
    <2> HIDE DEF new
    <2> QED BY <2>1, <2>3, ReadStep, IdleHolds
  <1>3. ASSUME CompleteSave(r)
        PROVE  CallInv'
    <2> DEFINE rec == [c.rec EXCEPT !.status = "Complete"]
               new == [at |-> "complete.driver", driver |-> c.rec.driver]
    <2>1. /\ c.at = "complete.save" /\ Goto(r, new)
          /\ assignment' = [assignment EXCEPT ![c.assignment] = rec]
          /\ UNCHANGED <<driver, vehicle, delivery>>
      BY <1>3 DEF CompleteSave, At
    <2>2. c.assignment \in Assignment /\ c.rec \in AssignmentRecord
      BY <1>c, <2>1, SnapshotKinds
    <2> HIDE DEF c
    <2>3. rec \in AssignmentRecord /\ c.rec.driver \in Driver
      BY <2>2 DEF AssignmentRecord, AssignmentStatus
    <2>4. new \in Snapshot /\ \A as : LinksTo(new, as)
      BY <2>3 DEF Snapshot, LinksTo
    <2> HIDE DEF rec, new
    <2> QED BY <2>1, <2>2, <2>3, <2>4, AssignmentSaved
  <1>4. ASSUME CompleteFindDriver(r)
        PROVE  CallInv'
    <2> DEFINE rec == [driver[c.driver] EXCEPT !.status = "Available"]
               new == [at |-> "complete.free", driver |-> c.driver, rec |-> rec]
    <2>1. UNCHANGED vars /\ c.at = "complete.driver" /\ (Goto(r, new) \/ Goto(r, Idle))
      BY <1>4 DEF CompleteFindDriver, At, Return
    <2>2. c.driver \in Driver
      BY <1>c, <2>1, SnapshotKinds
    <2> HIDE DEF c
    <2>3. rec \in DriverRecord
      BY <2>2 DEF CallInv, DriverRecord, DriverStatus
    <2> HIDE DEF rec
    <2>4. new \in Snapshot /\ LinksTo(new, assignment)
      BY <2>2, <2>3 DEF Snapshot, LinksTo
    <2> HIDE DEF new
    <2> QED BY <2>1, <2>4, ReadStep, IdleHolds
  <1>5. ASSUME CompleteSaveDriver(r)
        PROVE  CallInv'
    BY <1>5, DriverSaved DEF CompleteSaveDriver, At
  <1> QED BY <1>1, <1>2, <1>3, <1>4, <1>5 DEF Completing

LEMMA CallInvariance == CallSpec => []CallInv
  <1>1. CallInit => CallInv
    <2> SUFFICES ASSUME CallInit PROVE CallInv
      OBVIOUS
    <2>1. TypeOK /\ driver \in [Driver -> DriverRecord]
      BY DEF CallInit, TypeOK, DriverRecord, DriverStatus, DeliveryStatus
    <2>2. Parties /\ LinksAreReal
      BY DEF CallInit, Parties, LinksAreReal
    <2>3. call \in [Request -> Snapshot] /\ \A r \in Request : LinksTo(call[r], assignment)
      BY IdleHolds DEF CallInit
    <2> QED BY <2>1, <2>2, <2>3 DEF CallInv
  <1>2. CallInv /\ [CallNext]_callVars => CallInv'
    <2>1. CASE UNCHANGED callVars
      BY <2>1 DEF callVars, CallInv, TypeOK, Parties, LinksAreReal, LinksTo
    <2>2. CASE CallNext
      BY <2>2, CreateKeeps, SingleRecordKeeps, ReassigningKeeps, CompletingKeeps DEF CallNext
    <2> QED BY <2>1, <2>2
  <1> QED BY <1>1, <1>2, PTL DEF CallSpec

\* However the calls interleave, and whichever stale record is written over
\* which newer one: the four repositories keep their types, no link dangles
\* and a linked delivery has left Created.
THEOREM CallsKeepLinksCorrect == CallSpec => []CallsKeepLinks
  <1>1. CallInv => CallsKeepLinks
    <2> SUFFICES ASSUME CallInv PROVE CallTypeOK
      BY DEF CallInv, CallsKeepLinks
    <2>1. ASSUME NEW r \in Request, At(r, "transition.save") \/ At(r, "reassign.save")
          PROVE  call[r].rec.status \in DeliveryStatus
      <3>1. call[r].rec \in LeftCreated
        BY <2>1, SnapshotKinds DEF CallInv, At
      <3> QED BY <3>1 DEF LeftCreated
    <2>2. ASSUME NEW r \in Request, At(r, "driver.save") \/ At(r, "complete.free")
          PROVE  call[r].rec.status \in DriverStatus
      <3>1. call[r].rec \in DriverRecord
        BY <2>2, SnapshotKinds DEF CallInv, At
      <3> QED BY <3>1 DEF DriverRecord
    <2> QED BY <2>1, <2>2 DEF CallInv, CallTypeOK
  <1> QED BY <1>1, CallInvariance, PTL

\* A stale delivery record is never one that was read before the delivery left
\* Created: create writes Assigned, and the two others write what a transition
\* or a link has already taken out of Created.
THEOREM NeverBackToCreatedCorrect == CallSpec => NeverBackToCreated
  <1> DEFINE Left == \A l \in Delivery : delivery[l].status # "Created" =>
                       delivery'[l].status # "Created"
  <1>1. CallInv /\ [CallNext]_callVars => [Left]_callVars
    <2> SUFFICES ASSUME CallInv, CallNext, NEW l \in Delivery, delivery[l].status # "Created"
                 PROVE  delivery'[l].status # "Created"
      OBVIOUS
    <2>1. PICK r \in Request : Create(r) \/ SingleRecord(r) \/ Reassigning(r) \/ Completing(r)
      BY DEF CallNext
    <2>2. ASSUME call[r].at \in {"transition.save", "reassign.save"},
                 delivery' = [delivery EXCEPT ![call[r].delivery] = call[r].rec]
          PROVE  delivery'[l].status # "Created"
      <3>1. call[r].rec \in LeftCreated
        BY <2>2, SnapshotKinds DEF CallInv
      <3> QED BY <2>2, <3>1 DEF CallInv, TypeOK, LeftCreated
    <2>3. CASE Create(r)
      <3>1. ASSUME NEW m \in Delivery, CreateSaveDelivery(r, m)
            PROVE  delivery'[l].status # "Created"
        BY <3>1 DEF CreateSaveDelivery, CallInv, TypeOK
      <3>2. ASSUME NEW m \in Delivery, CreateFindDelivery(r, m)
            PROVE  delivery'[l].status # "Created"
        BY <3>2 DEF CreateFindDelivery, vars
      <3>3. ASSUME NEW d \in Driver, NEW ls \in SUBSET Delivery, CreateFindDriver(r, d, ls)
            PROVE  delivery'[l].status # "Created"
        BY <3>3 DEF CreateFindDriver, vars
      <3> QED BY <2>3, <3>1, <3>2, <3>3 DEF Create, CreateInsert, CreateSaveDriver
    <2>4. CASE SingleRecord(r)
      BY <2>2, <2>4 DEF SingleRecord, TransitionFind, TransitionSave, DriverFind, DriverSave,
           AcceptFind, AcceptSave, At, vars
    <2>5. CASE Reassigning(r)
      BY <2>2, <2>5 DEF Reassigning, ReassignFindDelivery, ReassignFindTarget, ReassignSave,
           At, vars
    <2>6. CASE Completing(r)
      BY <2>6 DEF Completing, CompleteFind, CompleteList, CompleteSave, CompleteFindDriver,
           CompleteSaveDriver, vars
    <2> QED BY <2>1, <2>3, <2>4, <2>5, <2>6
  <1> QED BY <1>1, CallInvariance, PTL DEF CallSpec, NeverBackToCreated

-----------------------------------------------------------------------------
(***************************************************************************)
(* With one slot the handlers, split at their awaits, implement Dispatch.  *)
(* Alone, a call's snapshots are what the repositories hold; DriverAs and  *)
(* DeliveryAs are the repositories with the writes it still owes made.     *)
(***************************************************************************)
OneSlot == \A r, s \in Request : r = s

Exists(a) == assignment[a].status # Absent

DriverWrites(d) ==
  {[driver[d] EXCEPT !.status = t] :
     t \in {t \in DriverStatus : <<driver[d].status, t>> \in DriverSettable}}
  \cup {[driver[d] EXCEPT !.active = FALSE]}

Current(c) ==
  /\ c.at = "create.deliveries" =>
       /\ c.driverRec = driver[c.driver] /\ Eligible(driver[c.driver])
       /\ vehicle[c.vehicle].driver = c.driver
       /\ c.todo \cup c.found # {}
       /\ \A l \in c.found : Assignable(delivery[l])
  /\ c.at = "create.link" => c.driverRec = driver[c.driver]
  /\ c.at = "transition.save" =>
       \E event \in DeliveryEvent, status \in DeliveryStatus :
         /\ <<delivery[c.delivery].status, event, status>> \in Lifecycle
         /\ c.rec = [delivery[c.delivery] EXCEPT !.status = status]
  /\ c.at = "driver.save" => c.rec \in DriverWrites(c.driver)
  /\ c.at = "accept.save" =>
       /\ Exists(c.assignment)
       /\ c.rec = [assignment[c.assignment] EXCEPT !.status = "Accepted"]
  /\ c.at \in {"reassign.target", "reassign.save"} =>
       /\ delivery[c.delivery].assignment \notin {None, c.assignment}
       /\ c.rec = [delivery[c.delivery] EXCEPT !.assignment = c.assignment]
  /\ c.at = "reassign.save" => Active(assignment[c.assignment])
  /\ c.at \in {"complete.list", "complete.save"} =>
       Exists(c.assignment) /\ c.rec = assignment[c.assignment]
  /\ c.at = "complete.save" =>
       /\ Linked(c.assignment) # {}
       /\ \A l \in Linked(c.assignment) : delivery[l].status \in Terminal
  /\ c.at = "complete.free" =>
       /\ driver[c.driver].status = "On_Delivery"
       /\ c.rec = [driver[c.driver] EXCEPT !.status = "Available"]

AloneInv == \A r \in Request : Current(call[r])

\* The status call c still owes driver d, whose status is s.
Owed(c, d, s) ==
  IF c.at = "create.link" /\ c.driver = d THEN "On_Delivery"
  ELSE IF /\ c.at \in {"complete.driver", "complete.free"} /\ c.driver = d
          /\ s = "On_Delivery"
  THEN "Available" ELSE s

DriverAs(c, ds) ==
  [d \in Driver |-> [status |-> Owed(c, d, ds[d].status), active |-> ds[d].active]]

DeliveryAs(c, ls) ==
  [l \in Delivery |->
     IF c.at = "create.link" /\ l \in c.todo
     THEN [status |-> "Assigned", assignment |-> c.assignment] ELSE ls[l]]

\* With one slot the effective repositories of DispatchConcurrent are these.
LEMMA EffectiveNow ==
  ASSUME OneSlot, CallInv, NEW r \in Request
  PROVE  /\ EffectiveDriver = DriverAs(call[r], driver)
         /\ EffectiveDelivery = DeliveryAs(call[r], delivery)
  <1>0. \A s \in Request : s = r
    BY DEF OneSlot
  <1>1. ASSUME NEW d \in Driver
        PROVE  EffectiveDriver[d] = DriverAs(call[r], driver)[d]
    <2>1. driver[d] \in DriverRecord
      BY DEF CallInv
    <2>2. (\E s \in Linking : call[s].driver = d) <=>
            call[r].at = "create.link" /\ call[r].driver = d
      BY <1>0 DEF Linking, At
    <2>3. (\E s \in Request : /\ call[s].at \in {"complete.driver", "complete.free"}
                              /\ call[s].driver = d) <=>
            call[r].at \in {"complete.driver", "complete.free"} /\ call[r].driver = d
      BY <1>0
    <2> QED BY <2>1, <2>2, <2>3 DEF EffectiveDriver, DriverAs, Owed, DriverRecord
  <1>2. ASSUME NEW l \in Delivery
        PROVE  EffectiveDelivery[l] = DeliveryAs(call[r], delivery)[l]
    <2>1. (\E s \in Linking : l \in call[s].todo) <=>
            call[r].at = "create.link" /\ l \in call[r].todo
      BY <1>0 DEF Linking, At
    <2>2. ASSUME \E s \in Linking : l \in call[s].todo
          PROVE  (CHOOSE s \in Linking : l \in call[s].todo) = r
      <3>1. (CHOOSE s \in Linking : l \in call[s].todo) \in Linking
        BY <2>2
      <3> QED BY <1>0, <3>1 DEF Linking
    <2> QED BY <2>1, <2>2 DEF EffectiveDelivery, DeliveryAs
  <1>3. EffectiveDriver = DriverAs(call[r], driver)
    BY <1>1 DEF EffectiveDriver, DriverAs
  <1>4. EffectiveDelivery = DeliveryAs(call[r], delivery)
    BY <1>2 DEF EffectiveDelivery, DeliveryAs
  <1> QED BY <1>3, <1>4

\* The same in the next state.
LEMMA EffectiveNext ==
  ASSUME OneSlot, CallInv', NEW r \in Request
  PROVE  /\ EffectiveDriver' = DriverAs(call'[r], driver')
         /\ EffectiveDelivery' = DeliveryAs(call'[r], delivery')
  <1>0. \A s \in Request : s = r
    BY DEF OneSlot
  <1>1. ASSUME NEW d \in Driver
        PROVE  EffectiveDriver'[d] = DriverAs(call'[r], driver')[d]
    <2>1. driver'[d] \in DriverRecord
      BY DEF CallInv
    <2>2. (\E s \in Linking' : call'[s].driver = d) <=>
            call'[r].at = "create.link" /\ call'[r].driver = d
      BY <1>0 DEF Linking, At
    <2>3. (\E s \in Request : /\ call'[s].at \in {"complete.driver", "complete.free"}
                              /\ call'[s].driver = d) <=>
            call'[r].at \in {"complete.driver", "complete.free"} /\ call'[r].driver = d
      BY <1>0
    <2> QED BY <2>1, <2>2, <2>3 DEF EffectiveDriver, DriverAs, Owed, DriverRecord
  <1>2. ASSUME NEW l \in Delivery
        PROVE  EffectiveDelivery'[l] = DeliveryAs(call'[r], delivery')[l]
    <2>1. (\E s \in Linking' : l \in call'[s].todo) <=>
            call'[r].at = "create.link" /\ l \in call'[r].todo
      BY <1>0 DEF Linking, At
    <2>2. ASSUME \E s \in Linking' : l \in call'[s].todo
          PROVE  (CHOOSE s \in Linking' : l \in call'[s].todo) = r
      <3>1. (CHOOSE s \in Linking' : l \in call'[s].todo) \in Linking'
        BY <2>2
      <3> QED BY <1>0, <3>1 DEF Linking
    <2> QED BY <2>1, <2>2 DEF EffectiveDelivery, DeliveryAs
  <1>3. EffectiveDriver' = DriverAs(call'[r], driver')
    BY <1>1 DEF EffectiveDriver, DriverAs
  <1>4. EffectiveDelivery' = DeliveryAs(call'[r], delivery')
    BY <1>2 DEF EffectiveDelivery, DeliveryAs
  <1> QED BY <1>3, <1>4

\* A call that owes nothing leaves the repositories as they are.
LEMMA OwesNothing ==
  ASSUME NEW c, NEW ds \in [Driver -> DriverRecord],
         c.at \notin {"create.link", "complete.driver", "complete.free"}
  PROVE  DriverAs(c, ds) = ds
  <1>1. ASSUME NEW d \in Driver
        PROVE  DriverAs(c, ds)[d] = ds[d]
    <2>1. ds[d] \in DriverRecord
      OBVIOUS
    <2> QED BY <2>1 DEF DriverAs, Owed, DriverRecord
  <1> QED BY <1>1 DEF DriverAs

LEMMA OwesNoDelivery ==
  ASSUME NEW c,
         NEW ls \in [Delivery -> [status : DeliveryStatus \cup {Absent},
                                  assignment : Assignment \cup {None}]],
         c.at # "create.link"
  PROVE  DeliveryAs(c, ls) = ls
  BY DEF DeliveryAs

\* A step that leaves the effective repositories alone is a stutter of Dispatch.
LEMMA Stutters ==
  ASSUME OneSlot, CallInv, CallInv', NEW r \in Request,
         DriverAs(call'[r], driver') = DriverAs(call[r], driver),
         DeliveryAs(call'[r], delivery') = DeliveryAs(call[r], delivery),
         UNCHANGED <<vehicle, assignment>>
  PROVE  UNCHANGED Atomic!vars
  BY EffectiveNow, EffectiveNext DEF Atomic!vars

\* While neither the old nor the new call owes a write, the effective
\* repositories are the repositories.
LEMMA Plain ==
  ASSUME OneSlot, CallInv, CallInv', NEW r \in Request,
         call[r].at \notin {"create.link", "complete.driver", "complete.free"},
         call'[r].at \notin {"create.link", "complete.driver", "complete.free"}
  PROVE  /\ EffectiveDriver = driver /\ EffectiveDriver' = driver'
         /\ EffectiveDelivery = delivery /\ EffectiveDelivery' = delivery'
  <1>1. driver \in [Driver -> DriverRecord] /\ driver' \in [Driver -> DriverRecord]
    BY DEF CallInv
  <1>2. DOMAIN delivery = Delivery /\ DOMAIN delivery' = Delivery
    BY DEF CallInv, TypeOK
  <1>3. DriverAs(call[r], driver) = driver /\ DriverAs(call'[r], driver') = driver'
    BY <1>1, OwesNothing
  <1>4. DeliveryAs(call[r], delivery) = delivery /\ DeliveryAs(call'[r], delivery') = delivery'
    BY OwesNoDelivery DEF CallInv, TypeOK
  <1> QED BY <1>3, <1>4, EffectiveNow, EffectiveNext

\* accept and completion of an assignment that exists are calls of Dispatch: of
\* the workflow while it is active, repeated ones afterwards.
LEMMA Called ==
  ASSUME CallInv, NEW a \in Assignment, Exists(a), Atomic!Finishing(a)
  PROVE  AtomicNext
  <1>1. assignment[a].status \in AssignmentStatus \cup {Absent}
    BY DEF CallInv, TypeOK
  <1>2. Atomic!Active(assignment[a]) \/ assignment[a].status = "Complete"
    BY <1>1 DEF Exists, Atomic!Active, Atomic!AssignmentStatus, AssignmentStatus
  <1>3. CASE Atomic!Active(assignment[a])
    BY <1>3 DEF AtomicNext, Atomic!WorkflowNext, Atomic!AssignmentCalls
  <1>4. CASE assignment[a].status = "Complete"
    BY <1>4 DEF AtomicNext, Atomic!RepeatedCall
  <1> QED BY <1>2, <1>3, <1>4

\* Each save of a call that writes one record is one call of Dispatch.
LEMMA SingleRecordRefines ==
  ASSUME OneSlot, CallInv, CallInv', AloneInv, NEW r \in Request, SingleRecord(r)
  PROVE  Current(call[r])' /\ [AtomicNext]_(Atomic!vars)
  <1> DEFINE c == call[r]
  <1>c. c \in Snapshot /\ Current(c)
    BY DEF CallInv, AloneInv
  <1>g. ASSUME NEW new, Goto(r, new)
        PROVE  call'[r] = new
    BY <1>g DEF Goto, CallInv
  <1>i. Idle.at = "idle"
    BY DEF Idle
  <1>1. ASSUME NEW l \in Delivery, NEW event \in DeliveryEvent, TransitionFind(r, l, event)
        PROVE  Current(call[r])' /\ UNCHANGED Atomic!vars
    <2>1. PICK status \in DeliveryStatus :
            /\ <<delivery[l].status, event, status>> \in Lifecycle
            /\ Goto(r, [at |-> "transition.save", delivery |-> l,
                        rec |-> [delivery[l] EXCEPT !.status = status]])
      BY <1>1 DEF TransitionFind
    <2>2. UNCHANGED vars /\ c.at = "idle"
      BY <1>1 DEF TransitionFind, At
    <2>3. call'[r] = [at |-> "transition.save", delivery |-> l,
                      rec |-> [delivery[l] EXCEPT !.status = status]]
      BY <1>g, <2>1
    <2>4. Current(call[r])'
      BY <2>1, <2>2, <2>3 DEF Current, vars
    <2> QED BY <2>2, <2>3, <2>4, Plain DEF vars, Atomic!vars
  <1>2. ASSUME TransitionSave(r)
        PROVE  Current(call[r])' /\ AtomicNext
    <2>1. /\ c.at = "transition.save" /\ call'[r] = Idle
          /\ delivery' = [delivery EXCEPT ![c.delivery] = c.rec]
          /\ UNCHANGED <<driver, vehicle, assignment>>
      BY <1>2, <1>g DEF TransitionSave, At, Return
    <2>2. PICK event \in DeliveryEvent, status \in DeliveryStatus :
            /\ <<delivery[c.delivery].status, event, status>> \in Lifecycle
            /\ c.rec = [delivery[c.delivery] EXCEPT !.status = status]
      BY <1>c, <2>1 DEF Current
    <2>3. c.delivery \in Delivery
      BY <1>c, <2>1, SnapshotKinds
    <2>4. /\ EffectiveDriver = driver /\ EffectiveDriver' = driver'
          /\ EffectiveDelivery = delivery /\ EffectiveDelivery' = delivery'
      BY <1>i, <2>1, Plain
    <2>5. Atomic!Transition(c.delivery, event)
      BY <2>1, <2>2, <2>4 DEF Atomic!Transition, Atomic!Lifecycle, Lifecycle,
         Atomic!DeliveryStatus, DeliveryStatus
    <2>6. Current(call[r])'
      BY <1>i, <2>1 DEF Current
    <2> QED BY <2>3, <2>5, <2>6 DEF AtomicNext, Atomic!WorkflowNext, Atomic!DeliveryCalls, Atomic!DeliveryEvent,
            DeliveryEvent
  <1>3. ASSUME NEW d \in Driver, DriverFind(r, d)
        PROVE  Current(call[r])' /\ UNCHANGED Atomic!vars
    <2>1. PICK rec \in DriverWrites(d) :
            Goto(r, [at |-> "driver.save", driver |-> d, rec |-> rec])
      BY <1>3 DEF DriverFind, DriverWrites
    <2>2. UNCHANGED vars /\ c.at = "idle"
      BY <1>3 DEF DriverFind, At
    <2>3. call'[r] = [at |-> "driver.save", driver |-> d, rec |-> rec]
      BY <1>g, <2>1
    <2>4. Current(call[r])'
      BY <2>1, <2>2, <2>3 DEF Current, vars, DriverWrites
    <2> QED BY <2>2, <2>3, <2>4, Plain DEF vars, Atomic!vars
  <1>4. ASSUME DriverSave(r)
        PROVE  Current(call[r])' /\ AtomicNext
    <2> DEFINE d == c.driver
    <2>1. /\ c.at = "driver.save" /\ call'[r] = Idle
          /\ driver' = [driver EXCEPT ![d] = c.rec]
          /\ UNCHANGED <<vehicle, delivery, assignment>>
      BY <1>4, <1>g DEF DriverSave, At, Return
    <2>2. c.rec \in DriverWrites(d) /\ d \in Driver
      BY <1>c, <2>1, SnapshotKinds DEF Current
    <2>3. /\ EffectiveDriver = driver /\ EffectiveDriver' = driver'
          /\ EffectiveDelivery = delivery /\ EffectiveDelivery' = delivery'
      BY <1>i, <2>1, Plain
    <2> HIDE DEF c
    <2>4. ASSUME NEW t \in DriverStatus, <<driver[d].status, t>> \in DriverSettable,
                 c.rec = [driver[d] EXCEPT !.status = t]
          PROVE  Atomic!SetAvailability(d, t)
      BY <2>1, <2>3, <2>4 DEF Atomic!SetAvailability, Atomic!SetDriver, Atomic!DriverSettable,
         DriverSettable
    <2>5. ASSUME c.rec = [driver[d] EXCEPT !.active = FALSE]
          PROVE  Atomic!Deactivate(d)
      <3>1. driver[d].status # Absent
        BY <2>2 DEF CallInv, DriverRecord, DriverStatus, Absent
      <3> QED BY <2>1, <2>3, <2>5, <3>1 DEF Atomic!Deactivate, Atomic!Absent, Absent
    <2>6. Atomic!Deactivate(d) \/ \E t \in DriverStatus : Atomic!SetAvailability(d, t)
      BY <2>2, <2>4, <2>5 DEF DriverWrites
    <2>7. Current(call[r])'
      BY <1>i, <2>1 DEF Current
    <2> QED BY <2>2, <2>6, <2>7 DEF AtomicNext, Atomic!WorkflowNext, Atomic!DriverCalls, Atomic!DriverStatus,
            DriverStatus
  <1>5. ASSUME NEW a \in Assignment, AcceptFind(r, a)
        PROVE  Current(call[r])' /\ UNCHANGED Atomic!vars
    <2>1. /\ UNCHANGED vars /\ c.at = "idle" /\ Exists(a)
          /\ call'[r] = [at |-> "accept.save", assignment |-> a,
                         rec |-> [assignment[a] EXCEPT !.status = "Accepted"]]
      BY <1>5, <1>g DEF AcceptFind, At, Exists
    <2>2. Current(call[r])'
      BY <2>1 DEF Current, vars, Exists
    <2> QED BY <2>1, <2>2, Plain DEF vars, Atomic!vars
  <1>6. ASSUME AcceptSave(r)
        PROVE  Current(call[r])' /\ AtomicNext
    <2> DEFINE a == c.assignment
    <2>1. /\ c.at = "accept.save" /\ call'[r] = Idle
          /\ assignment' = [assignment EXCEPT ![a] = c.rec]
          /\ UNCHANGED <<driver, vehicle, delivery>>
      BY <1>6, <1>g DEF AcceptSave, At, Return
    <2>2. /\ a \in Assignment /\ Exists(a)
          /\ c.rec = [assignment[a] EXCEPT !.status = "Accepted"]
      BY <1>c, <2>1, SnapshotKinds DEF Current
    <2>3. /\ EffectiveDriver = driver /\ EffectiveDriver' = driver'
          /\ EffectiveDelivery = delivery /\ EffectiveDelivery' = delivery'
      BY <1>i, <2>1, Plain
    <2>4. Atomic!Accept(a)
      BY <2>1, <2>2, <2>3 DEF Atomic!Accept, Exists, Atomic!Active, Active, Atomic!Absent,
         Absent, Atomic!AssignmentStatus, AssignmentStatus
    <2>5. Current(call[r])'
      BY <1>i, <2>1 DEF Current
    <2>6. AtomicNext
      BY <2>2, <2>4, Called DEF Atomic!Finishing
    <2> QED BY <2>5, <2>6
  <1> QED BY <1>1, <1>2, <1>3, <1>4, <1>5, <1>6 DEF SingleRecord

\* reassign takes effect at its save.
LEMMA ReassigningRefines ==
  ASSUME OneSlot, CallInv, CallInv', AloneInv, NEW r \in Request, Reassigning(r)
  PROVE  Current(call[r])' /\ [AtomicNext]_(Atomic!vars)
  <1> DEFINE c == call[r]
  <1>c. c \in Snapshot /\ Current(c)
    BY DEF CallInv, AloneInv
  <1>g. ASSUME NEW new, Goto(r, new)
        PROVE  call'[r] = new
    BY <1>g DEF Goto, CallInv
  <1>i. Idle.at = "idle"
    BY DEF Idle
  <1>1. ASSUME NEW l \in Delivery, NEW a \in Assignment, ReassignFindDelivery(r, l, a)
        PROVE  Current(call[r])' /\ UNCHANGED Atomic!vars
    <2>1. /\ UNCHANGED vars /\ c.at = "idle"
          /\ delivery[l].assignment \notin {None, a}
          /\ call'[r] = [at |-> "reassign.target", delivery |-> l, assignment |-> a,
                         rec |-> [delivery[l] EXCEPT !.assignment = a]]
      BY <1>1, <1>g DEF ReassignFindDelivery, At
    <2>2. Current(call[r])'
      BY <2>1 DEF Current, vars
    <2> QED BY <2>1, <2>2, Plain DEF vars, Atomic!vars
  <1>2. ASSUME ReassignFindTarget(r)
        PROVE  Current(call[r])' /\ UNCHANGED Atomic!vars
    <2>1. /\ UNCHANGED vars /\ c.at = "reassign.target"
          /\ \/ /\ Active(assignment[c.assignment])
                /\ call'[r] = [c EXCEPT !.at = "reassign.save"]
             \/ call'[r] = Idle
      BY <1>2, <1>g DEF ReassignFindTarget, At, Return
    <2>2. c \in [at : {"reassign.target", "reassign.save"}, delivery : Delivery,
                 assignment : Assignment, rec : LeftCreated]
      BY <1>c, <2>1, SnapshotKinds
    <2>3. CASE call'[r] = Idle
      <3>1. Current(call[r])'
        BY <1>i, <2>3 DEF Current
      <3> QED BY <1>i, <2>1, <2>3, <3>1, Plain DEF vars, Atomic!vars
    <2>4. CASE /\ Active(assignment[c.assignment])
               /\ call'[r] = [c EXCEPT !.at = "reassign.save"]
      <3>1. /\ call'[r].at = "reassign.save" /\ call'[r].rec = c.rec
            /\ call'[r].delivery = c.delivery /\ call'[r].assignment = c.assignment
        BY <2>2, <2>4
      <3>2. Current(call[r])'
        BY <1>c, <2>1, <2>4, <3>1 DEF Current, vars
      <3> QED BY <2>1, <3>1, <3>2, Plain DEF vars, Atomic!vars
    <2> QED BY <2>1, <2>3, <2>4
  <1>3. ASSUME ReassignSave(r)
        PROVE  Current(call[r])' /\ AtomicNext
    <2> DEFINE l == c.delivery
               a == c.assignment
    <2>1. /\ c.at = "reassign.save" /\ call'[r] = Idle
          /\ delivery' = [delivery EXCEPT ![l] = c.rec]
          /\ UNCHANGED <<driver, vehicle, assignment>>
      BY <1>3, <1>g DEF ReassignSave, At, Return
    <2>2. /\ l \in Delivery /\ a \in Assignment /\ Active(assignment[a])
          /\ delivery[l].assignment \notin {None, a}
          /\ c.rec = [delivery[l] EXCEPT !.assignment = a]
      BY <1>c, <2>1, SnapshotKinds DEF Current
    <2>3. /\ EffectiveDriver = driver /\ EffectiveDriver' = driver'
          /\ EffectiveDelivery = delivery /\ EffectiveDelivery' = delivery'
      BY <1>i, <2>1, Plain
    <2>4. Atomic!Reassign(l, a)
      BY <2>1, <2>2, <2>3 DEF Atomic!Reassign, Atomic!Active, Active,
         Atomic!AssignmentStatus, AssignmentStatus
    <2>5. Current(call[r])'
      BY <1>i, <2>1 DEF Current
    <2> QED BY <2>2, <2>4, <2>5 DEF AtomicNext, Atomic!WorkflowNext, Atomic!AssignmentCalls
  <1> QED BY <1>1, <1>2, <1>3 DEF Reassigning

\* Completion takes effect where it saves the assignment; from there until it
\* has saved the driver, an On_Delivery driver counts as Available.
LEMMA CompletingRefines ==
  ASSUME OneSlot, CallInv, CallInv', AloneInv, NEW r \in Request, Completing(r)
  PROVE  Current(call[r])' /\ [AtomicNext]_(Atomic!vars)
  <1> DEFINE c == call[r]
  <1>c. c \in Snapshot /\ Current(c)
    BY DEF CallInv, AloneInv
  <1>d. driver \in [Driver -> DriverRecord]
    BY DEF CallInv
  <1>g. ASSUME NEW new, Goto(r, new)
        PROVE  call'[r] = new
    BY <1>g DEF Goto, CallInv
  <1>i. Idle.at = "idle"
    BY DEF Idle
  <1>1. ASSUME NEW a \in Assignment, CompleteFind(r, a)
        PROVE  Current(call[r])' /\ UNCHANGED Atomic!vars
    <2>1. /\ UNCHANGED vars /\ c.at = "idle" /\ Exists(a)
          /\ call'[r] = [at |-> "complete.list", assignment |-> a, rec |-> assignment[a]]
      BY <1>1, <1>g DEF CompleteFind, At, Exists
    <2>2. Current(call[r])'
      BY <2>1 DEF Current, vars, Exists
    <2> QED BY <2>1, <2>2, Plain DEF vars, Atomic!vars
  <1>2. ASSUME CompleteList(r)
        PROVE  Current(call[r])' /\ UNCHANGED Atomic!vars
    <2> DEFINE Done == /\ Linked(c.assignment) # {}
                       /\ \A l \in Linked(c.assignment) : delivery[l].status \in Terminal
    <2>1. /\ UNCHANGED vars /\ c.at = "complete.list"
          /\ \/ Done /\ call'[r] = [c EXCEPT !.at = "complete.save"]
             \/ call'[r] = Idle
      BY <1>2, <1>g DEF CompleteList, At, Return
    <2>2. c \in [at : {"accept.save", "complete.list", "complete.save"},
                 assignment : Assignment, rec : AssignmentRecord]
      BY <1>c, <2>1, SnapshotKinds
    <2>3. CASE call'[r] = Idle
      <3>1. Current(call[r])'
        BY <1>i, <2>3 DEF Current
      <3> QED BY <1>i, <2>1, <2>3, <3>1, Plain DEF vars, Atomic!vars
    <2>4. CASE Done /\ call'[r] = [c EXCEPT !.at = "complete.save"]
      <3>1. /\ call'[r].at = "complete.save" /\ call'[r].rec = c.rec
            /\ call'[r].assignment = c.assignment
        BY <2>2, <2>4
      <3>2. Current(call[r])'
        BY <1>c, <2>1, <2>4, <3>1 DEF Current, vars, Exists, Linked
      <3> QED BY <2>1, <3>1, <3>2, Plain DEF vars, Atomic!vars
    <2> QED BY <2>1, <2>3, <2>4
  <1>3. ASSUME CompleteSave(r)
        PROVE  Current(call[r])' /\ AtomicNext
    <2> DEFINE a == c.assignment
               d == assignment[a].driver
    <2>1. /\ c.at = "complete.save"
          /\ assignment' = [assignment EXCEPT ![a] = [c.rec EXCEPT !.status = "Complete"]]
          /\ call'[r] = [at |-> "complete.driver", driver |-> c.rec.driver]
          /\ UNCHANGED <<driver, vehicle, delivery>>
      BY <1>3, <1>g DEF CompleteSave, At
    <2>2. /\ a \in Assignment /\ Exists(a) /\ c.rec = assignment[a]
          /\ Linked(a) # {} /\ \A l \in Linked(a) : delivery[l].status \in Terminal
      BY <1>c, <2>1, SnapshotKinds DEF Current
    <2>3. d \in Driver
      BY <2>2 DEF CallInv, Parties, Exists
    <2>4. EffectiveDriver = driver /\ EffectiveDelivery = delivery
      <3>1. DriverAs(c, driver) = driver /\ DeliveryAs(c, delivery) = delivery
        BY <1>d, <2>1, OwesNothing, OwesNoDelivery DEF CallInv, TypeOK
      <3> QED BY <3>1, EffectiveNow
    <2>5. EffectiveDelivery' = delivery
      <3>1. DeliveryAs(call'[r], delivery) = delivery
        BY <2>1, OwesNoDelivery DEF CallInv, TypeOK
      <3> QED BY <2>1, <3>1, EffectiveNext
    <2>6. EffectiveDriver' = [driver EXCEPT ![d].status =
                                IF @ = "On_Delivery" THEN "Available" ELSE @]
      <3> DEFINE freed == [driver EXCEPT ![d].status =
                             IF @ = "On_Delivery" THEN "Available" ELSE @]
      <3>1. EffectiveDriver' = DriverAs(call'[r], driver)
        BY <2>1, EffectiveNext
      <3>2. call'[r].at = "complete.driver" /\ call'[r].driver = d
        BY <2>1, <2>2
      <3> HIDE DEF d
      <3>3. ASSUME NEW e \in Driver
            PROVE  DriverAs(call'[r], driver)[e] = freed[e]
        <4>1. driver[e] \in DriverRecord
          BY <1>d
        <4> QED BY <1>d, <3>2, <4>1 DEF DriverAs, Owed, DriverRecord
      <3> QED BY <1>d, <3>1, <3>3 DEF DriverAs
    <2>7. assignment' = [assignment EXCEPT ![a].status = "Complete"]
      BY <2>1, <2>2
    <2>8. Atomic!CompleteIfAllStopsTerminal(a)
      BY <2>1, <2>2, <2>4, <2>5, <2>6, <2>7 DEF Atomic!CompleteIfAllStopsTerminal, Exists,
         Atomic!Active, Active, Atomic!AssignmentStatus, AssignmentStatus, Atomic!Absent,
         Absent, Atomic!Linked, Linked, Atomic!Terminal, Terminal
    <2>9. Current(call[r])'
      BY <2>1 DEF Current
    <2>10. AtomicNext
      BY <2>2, <2>8, Called DEF Atomic!Finishing
    <2> QED BY <2>9, <2>10
  <1>4. ASSUME CompleteFindDriver(r)
        PROVE  Current(call[r])' /\ UNCHANGED Atomic!vars
    <2> DEFINE d == c.driver
    <2>1. UNCHANGED vars /\ c.at = "complete.driver" /\ d \in Driver
      BY <1>4, <1>c, SnapshotKinds DEF CompleteFindDriver, At
    <2>2. CASE driver[d].status = "On_Delivery"
      <3>1. call'[r] = [at |-> "complete.free", driver |-> d,
                        rec |-> [driver[d] EXCEPT !.status = "Available"]]
        BY <1>4, <1>g, <2>2 DEF CompleteFindDriver
      <3>2. Current(call[r])'
        BY <2>1, <2>2, <3>1 DEF Current, vars
      <3>3. /\ DriverAs(call'[r], driver) = DriverAs(c, driver)
            /\ DeliveryAs(call'[r], delivery) = DeliveryAs(c, delivery)
        BY <2>1, <3>1 DEF DriverAs, Owed, DeliveryAs
      <3> QED BY <2>1, <3>2, <3>3, Stutters DEF vars
    <2>3. CASE driver[d].status # "On_Delivery"
      <3>1. call'[r] = Idle
        BY <1>4, <1>g, <2>3 DEF CompleteFindDriver, Return
      <3>2. Current(call[r])'
        BY <1>i, <3>1 DEF Current
      <3>3. /\ DriverAs(call'[r], driver) = DriverAs(c, driver)
            /\ DeliveryAs(call'[r], delivery) = DeliveryAs(c, delivery)
        BY <1>i, <2>1, <2>3, <3>1 DEF DriverAs, Owed, DeliveryAs
      <3> QED BY <2>1, <3>2, <3>3, Stutters DEF vars
    <2> QED BY <2>2, <2>3
  <1>5. ASSUME CompleteSaveDriver(r)
        PROVE  Current(call[r])' /\ UNCHANGED Atomic!vars
    <2> DEFINE d == c.driver
    <2>1. /\ c.at = "complete.free" /\ call'[r] = Idle
          /\ driver' = [driver EXCEPT ![d] = c.rec]
          /\ UNCHANGED <<vehicle, delivery, assignment>>
      BY <1>5, <1>g DEF CompleteSaveDriver, At, Return
    <2>2. /\ d \in Driver /\ driver[d].status = "On_Delivery"
          /\ c.rec = [driver[d] EXCEPT !.status = "Available"]
      BY <1>c, <2>1, SnapshotKinds DEF Current
    <2>3. Current(call[r])'
      BY <1>i, <2>1 DEF Current
    <2>4. DriverAs(call'[r], driver') = DriverAs(c, driver)
      <3>1. ASSUME NEW e \in Driver
            PROVE  DriverAs(call'[r], driver')[e] = DriverAs(c, driver)[e]
        <4>1. driver[e] \in DriverRecord
          BY <1>d
        <4> HIDE DEF c
        <4> QED BY <1>d, <1>i, <2>1, <2>2, <4>1 DEF DriverAs, Owed, DriverRecord
      <3> QED BY <3>1 DEF DriverAs
    <2>5. DeliveryAs(call'[r], delivery') = DeliveryAs(c, delivery)
      BY <1>i, <2>1 DEF DeliveryAs
    <2> QED BY <2>1, <2>3, <2>4, <2>5, Stutters
  <1> QED BY <1>1, <1>2, <1>3, <1>4, <1>5 DEF Completing

\* create takes effect where it inserts the assignment; from there on the
\* deliveries still to save count as linked and the driver as On_Delivery.
LEMMA CreateRefines ==
  ASSUME OneSlot, CallInv, CallInv', AloneInv, NEW r \in Request, Create(r)
  PROVE  Current(call[r])' /\ [AtomicNext]_(Atomic!vars)
  <1> DEFINE c == call[r]
  <1>c. c \in Snapshot /\ Current(c)
    BY DEF CallInv, AloneInv
  <1>d. driver \in [Driver -> DriverRecord]
    BY DEF CallInv
  <1>g. ASSUME NEW new, Goto(r, new)
        PROVE  call'[r] = new
    BY <1>g DEF Goto, CallInv
  <1>i. Idle.at = "idle"
    BY DEF Idle
  <1>1. ASSUME NEW d \in Driver, NEW ls \in SUBSET Delivery, CreateFindDriver(r, d, ls)
        PROVE  Current(call[r])' /\ UNCHANGED Atomic!vars
    <2>1. UNCHANGED vars /\ c.at = "idle" /\ ls # {} /\ Eligible(driver[d])
      BY <1>1 DEF CreateFindDriver, At
    <2>2. PICK v \in Vehicle :
            /\ vehicle[v].driver = d
            /\ call'[r] = [at |-> "create.deliveries", driver |-> d, vehicle |-> v,
                           driverRec |-> driver[d], todo |-> ls, found |-> {}]
      BY <1>1, <1>g DEF CreateFindDriver
    <2>3. Current(call[r])'
      BY <2>1, <2>2 DEF Current, vars
    <2> QED BY <2>1, <2>2, <2>3, Plain DEF vars, Atomic!vars
  <1>2. ASSUME NEW l \in Delivery, CreateFindDelivery(r, l)
        PROVE  Current(call[r])' /\ UNCHANGED Atomic!vars
    <2>1. /\ UNCHANGED vars /\ c.at = "create.deliveries" /\ l \in c.todo
          /\ \/ /\ Assignable(delivery[l])
                /\ call'[r] = [c EXCEPT !.todo = @ \ {l}, !.found = @ \cup {l}]
             \/ call'[r] = Idle
      BY <1>2, <1>g DEF CreateFindDelivery, At, Return
    <2>2. c \in [at : {"create.deliveries"}, driver : Driver, vehicle : Vehicle,
                 driverRec : DriverRecord, todo : SUBSET Delivery, found : SUBSET Delivery]
      BY <1>c, <2>1, SnapshotKinds
    <2>3. CASE call'[r] = Idle
      <3>1. Current(call[r])'
        BY <1>i, <2>3 DEF Current
      <3> QED BY <1>i, <2>1, <2>3, <3>1, Plain DEF vars, Atomic!vars
    <2>4. CASE /\ Assignable(delivery[l])
               /\ call'[r] = [c EXCEPT !.todo = @ \ {l}, !.found = @ \cup {l}]
      <3>1. /\ call'[r].at = "create.deliveries" /\ call'[r].driver = c.driver
            /\ call'[r].vehicle = c.vehicle /\ call'[r].driverRec = c.driverRec
            /\ call'[r].todo = c.todo \ {l} /\ call'[r].found = c.found \cup {l}
        BY <2>2, <2>4
      <3>2. /\ c.driverRec = driver[c.driver] /\ Eligible(driver[c.driver])
            /\ vehicle[c.vehicle].driver = c.driver
            /\ \A m \in c.found \cup {l} : Assignable(delivery[m])
        BY <1>c, <2>1, <2>4 DEF Current
      <3>3. Current(call[r])'
        BY <2>1, <3>1, <3>2 DEF Current, vars
      <3> QED BY <2>1, <3>1, <3>3, Plain DEF vars, Atomic!vars
    <2> QED BY <2>1, <2>3, <2>4
  <1>3. ASSUME NEW a \in Assignment, CreateInsert(r, a)
        PROVE  Current(call[r])' /\ AtomicNext
    <2> DEFINE d == c.driver
               ls == c.found
    <2>1. /\ c.at = "create.deliveries" /\ c.todo = {} /\ assignment[a].status = Absent
          /\ assignment' = [assignment EXCEPT ![a] =
               [status |-> "Pending", driver |-> d, vehicle |-> c.vehicle]]
          /\ call'[r] = [at |-> "create.link", assignment |-> a, driver |-> d,
                         driverRec |-> c.driverRec, todo |-> ls]
          /\ UNCHANGED <<driver, vehicle, delivery>>
      BY <1>3, <1>g DEF CreateInsert, At
    <2>2. d \in Driver /\ c.vehicle \in Vehicle /\ ls \in SUBSET Delivery
      BY <1>c, <2>1, SnapshotKinds
    <2>3. /\ c.driverRec = driver[d] /\ Eligible(driver[d]) /\ vehicle[c.vehicle].driver = d
          /\ ls # {} /\ \A l \in ls : Assignable(delivery[l])
      BY <1>c, <2>1 DEF Current
    <2>4. EffectiveDriver = driver /\ EffectiveDelivery = delivery
      <3>1. DriverAs(c, driver) = driver /\ DeliveryAs(c, delivery) = delivery
        BY <1>d, <2>1, OwesNothing, OwesNoDelivery DEF CallInv, TypeOK
      <3> QED BY <3>1, EffectiveNow
    <2>5. EffectiveDelivery' = [l \in Delivery |->
            IF l \in ls THEN [status |-> "Assigned", assignment |-> a] ELSE delivery[l]]
      BY <2>1, EffectiveNext DEF DeliveryAs
    <2>6. EffectiveDriver' = [driver EXCEPT ![d].status = "On_Delivery"]
      <3>1. EffectiveDriver' = DriverAs(call'[r], driver)
        BY <2>1, EffectiveNext
      <3>2. call'[r].at = "create.link" /\ call'[r].driver = d
        BY <2>1
      <3> HIDE DEF d
      <3>3. ASSUME NEW e \in Driver
            PROVE  DriverAs(call'[r], driver)[e] = [driver EXCEPT ![d].status = "On_Delivery"][e]
        <4>1. driver[e] \in DriverRecord
          BY <1>d
        <4> QED BY <1>d, <3>2, <4>1 DEF DriverAs, Owed, DriverRecord
      <3> QED BY <1>d, <3>1, <3>3 DEF DriverAs
    <2>7. Atomic!CreateAssignment(a, d, ls)
      <3> HIDE DEF c
      <3> QED BY <2>1, <2>2, <2>3, <2>4, <2>5, <2>6 DEF Atomic!CreateAssignment,
              Atomic!Eligible, Eligible, Atomic!Assignable, Assignable, Atomic!Absent, Absent
    <2>8. Current(call[r])'
      BY <2>1, <2>3 DEF Current
    <2> QED BY <2>2, <2>7, <2>8 DEF AtomicNext, Atomic!WorkflowNext, Atomic!AssignmentCalls
  <1>4. ASSUME NEW l \in Delivery, CreateSaveDelivery(r, l)
        PROVE  Current(call[r])' /\ UNCHANGED Atomic!vars
    <2>1. /\ c.at = "create.link" /\ l \in c.todo
          /\ delivery' = [delivery EXCEPT ![l] =
               [status |-> "Assigned", assignment |-> c.assignment]]
          /\ call'[r] = [c EXCEPT !.todo = @ \ {l}]
          /\ UNCHANGED <<driver, vehicle, assignment>>
      BY <1>4, <1>g DEF CreateSaveDelivery, At
    <2>2. c \in [at : {"create.link"}, assignment : Assignment, driver : Driver,
                 driverRec : DriverRecord, todo : SUBSET Delivery]
      BY <1>c, <2>1, SnapshotKinds
    <2>3. /\ call'[r].at = "create.link" /\ call'[r].driver = c.driver
          /\ call'[r].driverRec = c.driverRec /\ call'[r].assignment = c.assignment
          /\ call'[r].todo = c.todo \ {l}
      BY <2>1, <2>2
    <2>4. Current(call[r])'
      BY <1>c, <2>1, <2>3 DEF Current
    <2>5. DriverAs(call'[r], driver') = DriverAs(c, driver)
      BY <2>1, <2>3 DEF DriverAs, Owed
    <2>6. DeliveryAs(call'[r], delivery') = DeliveryAs(c, delivery)
      <3>1. DOMAIN delivery = Delivery
        BY DEF CallInv, TypeOK
      <3> HIDE DEF c
      <3> QED BY <2>1, <2>3, <3>1 DEF DeliveryAs
    <2> QED BY <2>1, <2>4, <2>5, <2>6, Stutters
  <1>5. ASSUME CreateSaveDriver(r)
        PROVE  Current(call[r])' /\ UNCHANGED Atomic!vars
    <2> DEFINE d == c.driver
    <2>1. /\ c.at = "create.link" /\ c.todo = {} /\ call'[r] = Idle
          /\ driver' = [driver EXCEPT ![d] = [c.driverRec EXCEPT !.status = "On_Delivery"]]
          /\ UNCHANGED <<vehicle, delivery, assignment>>
      BY <1>5, <1>g DEF CreateSaveDriver, At, Return
    <2>2. d \in Driver /\ c.driverRec = driver[d]
      BY <1>c, <2>1, SnapshotKinds DEF Current
    <2>3. Current(call[r])'
      BY <1>i, <2>1 DEF Current
    <2>4. DriverAs(call'[r], driver') = DriverAs(c, driver)
      <3>1. ASSUME NEW e \in Driver
            PROVE  DriverAs(call'[r], driver')[e] = DriverAs(c, driver)[e]
        <4>1. driver[e] \in DriverRecord
          BY <1>d
        <4> HIDE DEF c
        <4> QED BY <1>d, <1>i, <2>1, <2>2, <4>1 DEF DriverAs, Owed, DriverRecord
      <3> QED BY <3>1 DEF DriverAs
    <2>5. DeliveryAs(call'[r], delivery') = DeliveryAs(c, delivery)
      BY <1>i, <2>1 DEF DeliveryAs
    <2> QED BY <2>1, <2>3, <2>4, <2>5, Stutters
  <1> QED BY <1>1, <1>2, <1>3, <1>4, <1>5 DEF Create

\* One call at a time: whatever a handler leaves half-written between two
\* awaits, it is as if the call had happened at once, at its first write.
THEOREM AtomicCallsCorrect ==
  ASSUME OneSlot
  PROVE  CallSpec => AtomicCalls
  <1>1. CallInit => AloneInv
    BY DEF CallInit, AloneInv, Current, Idle
  <1>2. CallInv /\ CallInv' /\ AloneInv /\ [CallNext]_callVars =>
          AloneInv' /\ [AtomicNext]_(Atomic!vars)
    <2> SUFFICES ASSUME CallInv, CallInv', AloneInv, [CallNext]_callVars
                 PROVE  AloneInv' /\ [AtomicNext]_(Atomic!vars)
      OBVIOUS
    <2>1. CASE CallNext
      <3>1. PICK r \in Request :
              Create(r) \/ SingleRecord(r) \/ Reassigning(r) \/ Completing(r)
        BY <2>1 DEF CallNext
      <3>2. Current(call[r])' /\ [AtomicNext]_(Atomic!vars)
        BY <3>1, CreateRefines, SingleRecordRefines, ReassigningRefines, CompletingRefines
      <3>3. \A s \in Request : s = r
        BY DEF OneSlot
      <3> QED BY <3>2, <3>3 DEF AloneInv
    <2>2. CASE UNCHANGED callVars
      <3>1. AloneInv'
        <4> SUFFICES ASSUME NEW r \in Request, Current(call[r])
                     PROVE  Current(call[r])'
          BY DEF AloneInv
        <4>1. \A d \in Driver : DriverWrites(d)' = DriverWrites(d)
          BY <2>2 DEF callVars, DriverWrites
        <4>2. \A a \in Assignment : Exists(a)' <=> Exists(a)
          BY <2>2 DEF callVars, Exists
        <4>3. \A a \in Assignment : Linked(a)' = Linked(a)
          BY <2>2 DEF callVars, Linked
        <4>4. call[r] \in Snapshot
          BY DEF CallInv
        <4>5. /\ call[r].at = "driver.save" => call[r].driver \in Driver
              /\ call[r].at \in {"accept.save", "complete.list", "complete.save"} =>
                   call[r].assignment \in Assignment
          BY <4>4, SnapshotKinds
        <4> QED BY <2>2, <4>1, <4>2, <4>3, <4>5 DEF callVars, Current
      <3>2. EffectiveDriver' = EffectiveDriver /\ EffectiveDelivery' = EffectiveDelivery
        BY <2>2 DEF callVars, EffectiveDriver, EffectiveDelivery, Linking, At
      <3> QED BY <2>2, <3>1, <3>2 DEF callVars, Atomic!vars
    <2> QED BY <2>1, <2>2
  <1>3. CallSpec => []AloneInv
    BY <1>1, <1>2, CallInvariance, PTL DEF CallSpec
  <1> QED BY <1>2, <1>3, CallInvariance, PTL DEF CallSpec, AtomicCalls
=============================================================================
