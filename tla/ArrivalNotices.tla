--------------------------- MODULE ArrivalNotices ---------------------------
(***************************************************************************)
(* Telling customers that their vehicle has arrived (management,           *)
(* src/notifications): an Enter event of a zone lists the deliveries bound *)
(* for it once, then looks up the assignment of each and notifies, one     *)
(* await after another, while drivers go on closing stops and dispatchers  *)
(* go on moving deliveries.                                                *)
(***************************************************************************)
EXTENDS Naturals, Sequences, FiniteSets

CONSTANTS
  Parcels,        \* how many deliveries are bound for the zone
  Load,           \* assignments
  Truck,          \* vehicles
  Handling,       \* bound: events handled
  MaxChanges,     \* bound on the changes made by others
  Unassigned

ASSUME NoticesAssumption ==
  /\ Parcels \in Nat /\ Unassigned \notin Load /\ MaxChanges \in Nat

Parcel == 1..Parcels   \* in the order they are listed

VARIABLES
  parcel,      \* each delivery: whether its status is terminal, its assignmentId
  carrier,     \* vehicleId of each assignment
  active,      \* assignments whose status is active
  handling,    \* the calls of handleZoneEvent
  changes,
  due          \* history of each call: what was due when it began, what has been
               \* ever since, and what came back: see Others

noticeVars == <<parcel, carrier, active, handling, changes, due>>

\* A delivery that is to be announced when vehicle v enters the zone.
IsDue(d, v) ==
  /\ ~parcel[d].terminal
  /\ parcel[d].load \in active /\ carrier[parcel[d].load] = v
Due(v) == {d \in Parcel : IsDue(d, v)}

NoticesInit ==
  /\ parcel \in [Parcel -> [terminal : BOOLEAN, load : Load \cup {Unassigned}]]
  /\ carrier \in [Load -> Truck]
  /\ active = Load
  /\ handling = [h \in Handling |-> [pc |-> "idle"]]
  /\ changes = 0
  /\ due = [h \in Handling |-> [start |-> {}, ever |-> {}, back |-> {}]]

-----------------------------------------------------------------------------
\* The event arrives: an Exit is ignored; an Enter takes its snapshot.
ZoneEvent(h, v, type) ==
  /\ handling[h].pc = "idle"
  /\ handling' = [handling EXCEPT ![h] =
       [pc |-> IF type = "Enter" THEN "check" ELSE "done", type |-> type, truck |-> v,
        snapshot |-> parcel, next |-> 1, told |-> <<>>]]
  /\ due' = [due EXCEPT ![h] = [start |-> Due(v), ever |-> Due(v), back |-> {}]]
  /\ UNCHANGED <<parcel, carrier, active, changes>>

Now(h)      == handling[h].snapshot[handling[h].next]
HasNext(h)  == handling[h].next \in Parcel
GoOn(h)     == [handling EXCEPT ![h].next = @ + 1]

\* isArrivalForVehicle: status and assignmentId as they were in the snapshot,
\* the assignment as it is now.
MutIsArrivalAnyTruck(h) == ~Now(h).terminal /\ Now(h).load \in active
IsArrivalForVehicle(h) ==
  /\ ~Now(h).terminal
  /\ Now(h).load \in active /\ carrier[Now(h).load] = handling[h].truck

Check(h) ==
  /\ handling[h].pc = "check" /\ HasNext(h)
  /\ handling' = IF IsArrivalForVehicle(h) THEN [handling EXCEPT ![h].pc = "notify"] ELSE GoOn(h)
  /\ UNCHANGED <<parcel, carrier, active, changes, due>>

\* notifyArrival: a rejection ends the call, and with it the deliveries after.
Notify(h) ==
  /\ handling[h].pc = "notify"
  /\ \/ handling' = [handling EXCEPT ![h].pc = "check", ![h].next = @ + 1,
                       ![h].told = Append(@, handling[h].next)]
     \/ handling' = [handling EXCEPT ![h].pc = "failed"]
  /\ UNCHANGED <<parcel, carrier, active, changes, due>>

Return(h) ==
  /\ handling[h].pc = "check" /\ ~HasNext(h)
  /\ handling' = [handling EXCEPT ![h].pc = "done"]
  /\ UNCHANGED <<parcel, carrier, active, changes, due>>

-----------------------------------------------------------------------------
\* What other services change meanwhile: a delivery ends, moves or leaves; an
\* assignment is completed, or a complete one is accepted again, which brings back
\* what the call h has on its list for the vehicle.
Comeback(h) ==
  IF handling[h].pc = "idle" THEN {}
  ELSE LET was(d) == handling[h].snapshot[d] IN
       {d \in Parcel : /\ ~was(d).terminal /\ was(d).load \in active' \ active
                       /\ carrier[was(d).load] = handling[h].truck}

Others ==
  /\ changes < MaxChanges /\ changes' = changes + 1
  /\ \/ /\ \E d \in Parcel : ~parcel[d].terminal
              /\ \/ parcel' = [parcel EXCEPT ![d].terminal = TRUE]
                 \/ \E a \in active \cup {Unassigned} : parcel' = [parcel EXCEPT ![d].load = a]
        /\ UNCHANGED active
     \/ \E a \in active : active' = active \ {a} /\ UNCHANGED parcel
     \/ \E a \in Load \ active : active' = active \cup {a} /\ UNCHANGED parcel
  /\ due' = [h \in Handling |->
       [start |-> due[h].start, back |-> due[h].back \cup Comeback(h),
        ever  |-> {d \in due[h].ever : /\ ~parcel'[d].terminal /\ parcel'[d].load = parcel[d].load
                                       /\ parcel[d].load \in active'}]]
  /\ UNCHANGED <<carrier, handling>>

NoticesNext ==
  \/ \E h \in Handling :
       \/ \E v \in Truck, type \in {"Enter", "Exit"} : ZoneEvent(h, v, type)
       \/ Check(h) \/ Notify(h) \/ Return(h)
  \/ Others

NoticesSpec == NoticesInit /\ [][NoticesNext]_noticeVars

-----------------------------------------------------------------------------
(***************************************************************************)
(* Properties.                                                             *)
(***************************************************************************)

Begun(h)  == handling[h].pc # "idle"
Told(h)   == {handling[h].told[i] : i \in DOMAIN handling[h].told}

\* Design, Property 31: nobody is told of a vehicle that was not bringing their
\* delivery when it entered, unless its complete assignment was accepted again
\* before the call came to it; an Exit tells nobody.
OnlyTheDueAreTold ==
  \A h \in Handling : Begun(h) =>
    Told(h) \subseteq IF handling[h].type = "Enter" THEN due[h].start \cup due[h].back ELSE {}

\* Nor is anyone who was due all the time left out, unless the notifier failed,
\* whatever the others change between two awaits.
TheDueAreTold ==
  \A h \in Handling :
    handling[h].pc = "done" /\ handling[h].type = "Enter" => due[h].ever \subseteq Told(h)

\* One event tells a customer once, in the order of the list.
ToldOnceInOrder ==
  \A h \in Handling : Begun(h) =>
    \A i, j \in DOMAIN handling[h].told : i < j => handling[h].told[i] < handling[h].told[j]

\* What the snapshot costs: a customer may be told of a delivery that has just
\* been handed over, or moved to another vehicle.
NoticeIsCurrent ==
  [][\A h \in Handling : Begun(h) /\ Len(handling'[h].told) > Len(handling[h].told)
        => IsDue(handling[h].next, handling[h].truck)]_noticeVars

\* What one failure costs: the customers after it are not told.
FailureIsLocal ==
  \A h \in Handling : handling[h].pc = "failed" => Cardinality(due[h].ever \ Told(h)) <= 1

\* Exactly those who should be told are told, once and in order.
NoticesSafe == OnlyTheDueAreTold /\ TheDueAreTold /\ ToldOnceInOrder
=============================================================================
