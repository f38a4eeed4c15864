----------------------------- MODULE Registers -----------------------------
(***************************************************************************)
(* The registers of drivers and vehicles in the management service: one    *)
(* record per e-mail or identifier (DriverService.create,                  *)
(* VehicleService.register and the indexes of the in-memory repositories), *)
(* and the stamp that every change of a driver moves forward               *)
(* (DriverService.nextStampFor), with the calls in progress interleaved at *)
(* their awaits and a clock that may be set back.  Dispatch has what the   *)
(* changes do to a record's status, DispatchConcurrent how they race.      *)
(***************************************************************************)
EXTENDS Integers, Sequences, FiniteSets, FiniteSetsExt

CONSTANTS
  Account, Spelling,  \* a key is an account in one of its spellings
  Canonical,          \* the spelling the index uses: trimmed, lower case
  Owner, Unowned,     \* drivers a vehicle is associated with
  Slot,               \* how many calls can be in progress at once
  MaxRecords, MaxInstant,   \* bounds on the records and on the clock,
  MaxDriverChanges          \* and on the stamps given to drivers

ASSUME RegistersAssumption ==
  /\ Canonical \in Spelling /\ Unowned \notin Owner
  /\ {MaxRecords, MaxInstant, MaxDriverChanges} \subseteq Nat

VARIABLES
  register,   \* "drivers" or "vehicles"
  records,    \* byId; the id of a record is its place
  index,      \* emailIndex, identifierIndex: the id a key leads to, or 0
  lastStamp,  \* DriverService's map of that name, -1 where it has no entry
  instant,    \* clock.now()
  calls       \* what each call in progress has read

registerVars == <<register, records, index, lastStamp, instant, calls>>

Key == Account \X Spelling
Waiting == [op |-> "none"]

RegistersInit ==
  /\ register \in {"drivers", "vehicles"}
  /\ records = <<>>
  /\ index = [k \in Key |-> 0]
  /\ lastStamp = [id \in 1..MaxRecords |-> -1]
  /\ instant = 0
  /\ calls = [s \in Slot |-> Waiting]

\* toLowerCase of an e-mail; trim and toLowerCase of an identifier.
Fold(key) == <<key[1], Canonical>>

\* The repositories' save, which also leads the key to the record again.
SaveRecord(id, record) ==
  /\ records' = [records EXCEPT ![id] = record]
  /\ index' = [index EXCEPT ![Fold(record.key)] = id]

\* How many stamps have been given.
Given == MapThenSumSet(LAMBDA id : Len(records[id].changes), DOMAIN records)

-----------------------------------------------------------------------------
\* create, register: the lookup.  A key that is found ends the call.
FindByKey(s, key) ==
  /\ calls[s] = Waiting /\ index[Fold(key)] = 0
  /\ calls' = [calls EXCEPT ![s] = [op |-> "insert", key |-> key, seen |-> DOMAIN records]]
  /\ UNCHANGED <<register, records, index, lastStamp, instant>>

\* The insert.  seen (which records there were at the lookup) and changes (the
\* stamps DriverService has given) are history.
Insert(s) ==
  /\ calls[s].op = "insert" /\ Len(records) < MaxRecords
  /\ Given < MaxDriverChanges
  /\ LET id == Len(records) + 1 IN
       /\ records' = Append(records,
            [key |-> calls[s].key, updatedAt |-> instant, owner |-> Unowned,
             seen |-> calls[s].seen, changes |-> <<instant>>])
       /\ index' = [index EXCEPT ![Fold(calls[s].key)] = id]
       /\ lastStamp' = IF register = "drivers" THEN [lastStamp EXCEPT ![id] = instant]
                       ELSE lastStamp
  /\ calls' = [calls EXCEPT ![s] = Waiting]
  /\ UNCHANGED <<register, instant>>

\* requireDriver and requireVehicle of the calls that change a record: for a
\* vehicle also the driver to associate, and the test that it has no other.
Require(s, id, owner) ==
  /\ calls[s] = Waiting /\ id \in DOMAIN records
  /\ IF register = "drivers" THEN owner = Unowned
     ELSE owner # Unowned /\ records[id].owner \in {Unowned, owner}
  /\ calls' = [calls EXCEPT ![s] =
       [op |-> "save", id |-> id, read |-> records[id].updatedAt, owner |-> owner]]
  /\ UNCHANGED <<register, records, index, lastStamp, instant>>

\* nextStampFor: later than the clock, the stamp last given and the one read.
Latest(stamps) == CHOOSE t \in stamps : \A u \in stamps : u <= t
MutNextStampFor(id, read) == Latest({instant, read + 1})
NextStampFor(id, read) == Latest({instant, lastStamp[id] + 1, read + 1})

\* update, deactivate, setAvailability, beginDelivery, completeDelivery.
ChangeDriver(s) ==
  /\ register = "drivers" /\ calls[s].op = "save" /\ Given < MaxDriverChanges
  /\ LET id == calls[s].id
         stamp == NextStampFor(id, calls[s].read) IN
       /\ lastStamp' = [lastStamp EXCEPT ![id] = stamp]
       /\ SaveRecord(id, [records[id] EXCEPT !.updatedAt = stamp,
                                             !.changes = Append(@, stamp)])
  /\ calls' = [calls EXCEPT ![s] = Waiting]
  /\ UNCHANGED <<register, instant>>

\* associateDriver writes the record it has read, of which nothing but the
\* driver ever changes.
AssociateOwner(s) ==
  /\ register = "vehicles" /\ calls[s].op = "save"
  /\ SaveRecord(calls[s].id, [records[calls[s].id] EXCEPT !.owner = calls[s].owner])
  /\ calls' = [calls EXCEPT ![s] = Waiting]
  /\ UNCHANGED <<register, lastStamp, instant>>

\* AssignmentService and RouteService save a driver with the time they began,
\* past DriverService.
SaveElsewhere(id, began) ==
  /\ register = "drivers" /\ id \in DOMAIN records
  /\ SaveRecord(id, [records[id] EXCEPT !.updatedAt = began])
  /\ UNCHANGED <<register, lastStamp, instant, calls>>

\* Time passes, or the clock of the host is corrected.  (A vehicle's stamps, of
\* which there is one for each call, are abstracted.)
SetClock(t) ==
  /\ register = "drivers" /\ instant' = t
  /\ UNCHANGED <<register, records, index, lastStamp, calls>>

RegistersNext ==
  \/ \E s \in Slot : \/ \E key \in Key : FindByKey(s, key)
                     \/ \E id \in 1..MaxRecords, owner \in Owner \cup {Unowned} :
                          Require(s, id, owner)
                     \/ Insert(s) \/ ChangeDriver(s) \/ AssociateOwner(s)
  \/ \E t \in 0..MaxInstant : SetClock(t) \/ \E id \in 1..MaxRecords : SaveElsewhere(id, t)

RegistersSpec == RegistersInit /\ [][RegistersNext]_registerVars
-----------------------------------------------------------------------------
(***************************************************************************)
(* Properties.                                                             *)
(***************************************************************************)

SameKey(q, r) == Fold(records[q].key) = Fold(records[r].key)

\* Design, Property 3, "a subsequent create with the same key is rejected": two
\* records share a key, in whatever spelling, only when their creates
\* overlapped, each looking before the other had inserted.
SubsequentIsRefused ==
  \A q, r \in DOMAIN records :
    q # r /\ records[q].key[1] = records[r].key[1] => q \notin records[r].seen

\* Once there is a record of a key, there always is one that its index leads
\* to, whichever of two was saved last.
KeyLeadsToItsRecord ==
  \A r \in DOMAIN records :
    LET id == index[Fold(records[r].key)] IN id \in DOMAIN records /\ SameKey(id, r)

\* The stamps of a driver's changes are all different and in the order of the
\* changes ("strictly advances updatedAt", driver-service.test.ts), though calls
\* overlap, the clock goes back and other services write older stamps.
ChangesAreOrdered ==
  \A r \in DOMAIN records : \A i, j \in DOMAIN records[r].changes :
    i < j => records[r].changes[i] < records[r].changes[j]

\* Not so of updatedAt itself, which the other services set back.
UpdatedAtAdvances ==
  [][\A r \in DOMAIN records : records'[r].updatedAt >= records[r].updatedAt]_registerVars

\* Nor are keys unique when creates overlap: the schema says UNIQUE, the
\* in-memory repositories do not.
KeysAreUnique == \A q, r \in DOMAIN records : SameKey(q, r) => q = r

\* A vehicle that has a driver keeps it, unless associations overlap.
OwnerStays ==
  [][\A r \in DOMAIN records : records[r].owner # Unowned =>
       records'[r].owner = records[r].owner]_registerVars

\* What the registers keep however calls overlap.
RegistersSafe == SubsequentIsRefused /\ KeyLeadsToItsRecord /\ ChangesAreOrdered
=============================================================================
