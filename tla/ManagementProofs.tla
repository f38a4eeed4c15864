-------------------------- MODULE ManagementProofs --------------------------
(***************************************************************************)
(* Proofs about the parts of the management service beside Dispatch: the   *)
(* registers of drivers and vehicles, accounts and tokens, arrival         *)
(* notices, the building of routes, reports, validation and zones.         *)
(***************************************************************************)
EXTENDS Registers, Sessions, ArrivalNotices, Routes, Reporting, Validation, Zones,
        OrderingProofs

-----------------------------------------------------------------------------
(***************************************************************************)
(* The registers, for any number of keys, spellings, records and calls in  *)
(* progress.  The invariant:                                               *)
(***************************************************************************)

Record ==
  [key : Key, updatedAt : Int, owner : Owner \cup {Unowned}, seen : SUBSET Nat,
   changes : Seq(Int)]

CallState ==
  {Waiting} \cup [op : {"insert"}, key : Key, seen : SUBSET Nat]
    \cup [op : {"save"}, id : Nat, read : Int, owner : Owner \cup {Unowned}]

RegistersTypeOK ==
  /\ register \in {"drivers", "vehicles"}
  /\ records \in Seq(Record) /\ Len(records) <= MaxRecords
  /\ index \in [Key -> Nat]
  /\ lastStamp \in [1..MaxRecords -> Int]
  /\ instant \in Int
  /\ calls \in [Slot -> CallState]

\* The index leads from a key to a record of it, and every record's key has an
\* entry.
IndexLeads ==
  /\ \A k \in Key : index[k] # 0 =>
       index[k] \in DOMAIN records /\ Fold(records[index[k]].key) = k
  /\ \A r \in DOMAIN records : index[Fold(records[r].key)] # 0

\* Nothing of the key was there when a call in progress, or the one that made a
\* record, looked.
LookedBefore ==
  /\ \A s \in Slot : calls[s].op = "insert" =>
       /\ calls[s].seen \subseteq DOMAIN records
       /\ \A q \in calls[s].seen : Fold(records[q].key) # Fold(calls[s].key)
  /\ \A r \in DOMAIN records : records[r].seen \subseteq DOMAIN records
  /\ SubsequentIsRefused

SavesExist == \A s \in Slot : calls[s].op = "save" => calls[s].id \in DOMAIN records

\* DriverService remembers a stamp that none of a driver's changes is beyond.
StampsAhead ==
  register = "drivers" =>
    \A r \in DOMAIN records : \A i \in DOMAIN records[r].changes :
      records[r].changes[i] <= lastStamp[r]

RegistersInv ==
  RegistersTypeOK /\ IndexLeads /\ LookedBefore /\ SavesExist /\ StampsAhead /\ ChangesAreOrdered

-----------------------------------------------------------------------------
(***************************************************************************)
(* Operators.                                                              *)
(***************************************************************************)

LEMMA FoldIsKey ==
  /\ \A k \in Key : Fold(k) \in Key
  /\ \A j, k \in Key : j[1] = k[1] => Fold(j) = Fold(k)
  BY RegistersAssumption DEF Fold, Key

LEMMA RecordAt ==
  ASSUME RegistersTypeOK, NEW r \in DOMAIN records
  PROVE  /\ r \in 1..Len(records) /\ r \in 1..MaxRecords /\ Len(records) \in Nat
         /\ records[r] \in Record
  BY LenProperties, ElementOfSeq, RegistersAssumption DEF RegistersTypeOK

LEMMA LatestIsLatest ==
  ASSUME NEW a \in Int, NEW b \in Int, NEW c \in Int
  PROVE  /\ Latest({a, b, c}) \in Int
         /\ a <= Latest({a, b, c}) /\ b <= Latest({a, b, c}) /\ c <= Latest({a, b, c})
<1>1. \E t \in {a, b, c} : \A u \in {a, b, c} : u <= t
  <2>1. CASE a <= c /\ b <= c
    BY <2>1
  <2>2. CASE b <= a /\ c <= a
    BY <2>2
  <2>3. CASE a <= b /\ c <= b
    BY <2>3
  <2> QED BY <2>1, <2>2, <2>3
<1> QED BY <1>1 DEF Latest

LEMMA NextStampIsLater ==
  ASSUME NEW id, NEW read \in Int, instant \in Int, lastStamp[id] \in Int
  PROVE  NextStampFor(id, read) \in Int /\ lastStamp[id] < NextStampFor(id, read)
<1> DEFINE given == lastStamp[id] + 1
<1>1. given \in Int /\ read + 1 \in Int
  OBVIOUS
<1>2. NextStampFor(id, read) = Latest({instant, given, read + 1})
  BY DEF NextStampFor
<1> HIDE DEF given
<1>3. /\ Latest({instant, given, read + 1}) \in Int
      /\ given <= Latest({instant, given, read + 1})
  BY <1>1, LatestIsLatest
<1> QED BY <1>1, <1>2, <1>3 DEF given

\* A stamp later than those of an increasing sequence.
LEMMA AppendLater ==
  ASSUME NEW old \in Seq(Int), NEW stamp \in Int,
         \A i \in DOMAIN old : old[i] < stamp,
         \A i, j \in DOMAIN old : i < j => old[i] < old[j]
  PROVE  LET all == Append(old, stamp) IN
         /\ all \in Seq(Int)
         /\ \A i \in DOMAIN all : all[i] <= stamp
         /\ \A i, j \in DOMAIN all : i < j => all[i] < all[j]
<1> DEFINE all == Append(old, stamp)
           n == Len(old)
<1>1. n \in Nat /\ DOMAIN old = 1..n
  BY LenProperties
<1>2. all \in Seq(Int) /\ Len(all) = n + 1
  BY AppendProperties
<1>3. \A i \in 1..n : all[i] = old[i]
  BY AppendProperties
<1>4. all[n + 1] = stamp
  BY AppendProperties
<1>5. DOMAIN all = 1..(n + 1)
  BY <1>2, LenProperties
<1>6. \A i \in 1..n : old[i] \in Int
  BY <1>1, ElementOfSeq
<1> HIDE DEF all, n
<1>7. \A i \in DOMAIN all : i \in 1..n \/ i = n + 1
  BY <1>1, <1>5
<1>8. ASSUME NEW i \in DOMAIN all PROVE all[i] <= stamp
  BY <1>1, <1>3, <1>4, <1>6, <1>7
<1>9. ASSUME NEW i \in DOMAIN all, NEW j \in DOMAIN all, i < j PROVE all[i] < all[j]
  <2>1. i \in 1..n
    BY <1>1, <1>5, <1>9
  <2>2. CASE j = n + 1
    BY <2>1, <2>2, <1>1, <1>3, <1>4
  <2>3. CASE j \in 1..n
    BY <2>1, <2>3, <1>1, <1>3, <1>9
  <2> QED BY <2>2, <2>3, <1>7
<1> QED BY <1>2, <1>8, <1>9 DEF all

-----------------------------------------------------------------------------
(***************************************************************************)
(* Steps.                                                                  *)
(***************************************************************************)

LEMMA RegistersInvInit == RegistersInit => RegistersInv
<1> SUFFICES ASSUME RegistersInit PROVE RegistersInv
  OBVIOUS
<1>1. records = <<>> /\ DOMAIN records = {} /\ records \in Seq(Record) /\ Len(records) = 0
  BY EmptySeq DEF RegistersInit
<1>2. RegistersTypeOK
  BY <1>1, RegistersAssumption DEF RegistersInit, RegistersTypeOK, CallState
<1>3. \A s \in Slot : calls[s].op = "none"
  BY DEF RegistersInit, Waiting
<1> QED
  BY <1>1, <1>2, <1>3 DEF RegistersInit, RegistersInv, IndexLeads, LookedBefore,
     SubsequentIsRefused, SavesExist, StampsAhead, ChangesAreOrdered

\* The look-up of create and register.
LEMMA FindByKeyStep ==
  ASSUME RegistersInv, NEW s \in Slot, NEW key \in Key, FindByKey(s, key)
  PROVE  RegistersInv'
<1> DEFINE new == [op |-> "insert", key |-> key, seen |-> DOMAIN records]
<1>1. /\ calls' = [calls EXCEPT ![s] = new] /\ index[Fold(key)] = 0
      /\ UNCHANGED <<register, records, index, lastStamp, instant>>
  BY DEF FindByKey
<1>2. new \in CallState /\ new.op = "insert" /\ new.key = key /\ new.seen = DOMAIN records
  <2>1. DOMAIN records \in SUBSET Nat
    BY LenProperties DEF RegistersInv, RegistersTypeOK
  <2> QED BY <2>1 DEF CallState
<1>3. \A q \in DOMAIN records : Fold(records[q].key) # Fold(key)
  BY <1>1 DEF RegistersInv, IndexLeads
<1> HIDE DEF new
<1>4. RegistersTypeOK'
  BY <1>1, <1>2 DEF RegistersInv, RegistersTypeOK
<1>5. \A u \in Slot : calls'[u] = IF u = s THEN new ELSE calls[u]
  BY <1>1 DEF RegistersInv, RegistersTypeOK
<1>6. LookedBefore'
  BY <1>1, <1>2, <1>3, <1>5 DEF RegistersInv, LookedBefore, SubsequentIsRefused
<1>7. SavesExist'
  BY <1>1, <1>2, <1>5 DEF RegistersInv, SavesExist
<1> QED
  BY <1>1, <1>4, <1>6, <1>7 DEF RegistersInv, IndexLeads, StampsAhead, ChangesAreOrdered

\* The reading of a record that is to be changed.
LEMMA RequireStep ==
  ASSUME RegistersInv, NEW s \in Slot, NEW id \in 1..MaxRecords,
         NEW owner \in Owner \cup {Unowned}, Require(s, id, owner)
  PROVE  RegistersInv'
<1> DEFINE new == [op |-> "save", id |-> id, read |-> records[id].updatedAt, owner |-> owner]
<1>1. /\ calls' = [calls EXCEPT ![s] = new] /\ id \in DOMAIN records
      /\ UNCHANGED <<register, records, index, lastStamp, instant>>
  BY DEF Require
<1>2. new \in CallState /\ new.op = "save" /\ new.id = id
  <2>1. id \in Nat /\ records[id].updatedAt \in Int
    BY <1>1, RecordAt DEF RegistersInv, Record
  <2> QED BY <2>1 DEF CallState
<1> HIDE DEF new
<1>3. RegistersTypeOK'
  BY <1>1, <1>2 DEF RegistersInv, RegistersTypeOK
<1>4. \A u \in Slot : calls'[u] = IF u = s THEN new ELSE calls[u]
  BY <1>1 DEF RegistersInv, RegistersTypeOK
<1>5. LookedBefore'
  BY <1>1, <1>2, <1>4 DEF RegistersInv, LookedBefore, SubsequentIsRefused
<1>6. SavesExist'
  BY <1>1, <1>2, <1>4 DEF RegistersInv, SavesExist
<1> QED
  BY <1>1, <1>3, <1>5, <1>6 DEF RegistersInv, IndexLeads, StampsAhead, ChangesAreOrdered

\* The insert.
LEMMA InsertStep ==
  ASSUME RegistersInv, NEW s \in Slot, Insert(s)
  PROVE  RegistersInv'
<1> DEFINE n == Len(records)
           key == calls[s].key
           rec == [key |-> key, updatedAt |-> instant, owner |-> Unowned,
                   seen |-> calls[s].seen, changes |-> <<instant>>]
<1>1. /\ calls[s].op = "insert" /\ n < MaxRecords /\ records' = Append(records, rec)
      /\ index' = [index EXCEPT ![Fold(key)] = n + 1]
      /\ lastStamp' = IF register = "drivers" THEN [lastStamp EXCEPT ![n + 1] = instant]
                      ELSE lastStamp
      /\ calls' = [calls EXCEPT ![s] = Waiting]
      /\ UNCHANGED <<register, instant>>
  BY DEF Insert
<1>2. /\ key \in Key /\ calls[s].seen \in SUBSET Nat /\ n \in Nat /\ DOMAIN records = 1..n
      /\ calls[s].seen \subseteq DOMAIN records
      /\ \A q \in calls[s].seen : Fold(records[q].key) # Fold(key)
  BY <1>1, LenProperties DEF RegistersInv, RegistersTypeOK, CallState, Waiting, LookedBefore
<1>3. <<instant>> \in Seq(Int) /\ Len(<<instant>>) = 1 /\ <<instant>>[1] = instant
  BY DEF RegistersInv, RegistersTypeOK
<1>4. /\ rec \in Record /\ rec.key = key /\ rec.seen = calls[s].seen
      /\ DOMAIN rec.changes = {1} /\ rec.changes[1] = instant
  BY <1>2, <1>3 DEF Record, RegistersInv, RegistersTypeOK
<1> HIDE DEF rec
<1>5. /\ records' \in Seq(Record) /\ Len(records') = n + 1 /\ DOMAIN records' = 1..(n + 1)
      /\ records'[n + 1] = rec
      /\ \A r \in DOMAIN records : records'[r] = records[r]
  <2>1. records \in Seq(Record)
    BY DEF RegistersInv, RegistersTypeOK
  <2>2. /\ Append(records, rec) \in Seq(Record) /\ Len(Append(records, rec)) = n + 1
        /\ Append(records, rec)[n + 1] = rec
        /\ \A r \in 1..n : Append(records, rec)[r] = records[r]
    BY <2>1, <1>4, AppendProperties
  <2> QED BY <1>1, <1>2, <2>2, LenProperties
<1>6. RegistersTypeOK'
  <2>1. calls' \in [Slot -> CallState]
    BY <1>1 DEF RegistersInv, RegistersTypeOK, CallState
  <2>2. lastStamp' \in [1..MaxRecords -> Int]
    BY <1>1 DEF RegistersInv, RegistersTypeOK
  <2>3. index' \in [Key -> Nat]
    <3>1. n + 1 \in Nat /\ index \in [Key -> Nat]
      BY <1>2 DEF RegistersInv, RegistersTypeOK
    <3> HIDE DEF n
    <3> QED BY <1>1, <3>1
  <2>4. Len(records') <= MaxRecords
    BY <1>1, <1>2, <1>5, RegistersAssumption
  <2> QED BY <1>1, <1>5, <2>1, <2>2, <2>3, <2>4 DEF RegistersInv, RegistersTypeOK
<1>7. /\ \A u \in Slot : calls'[u] = IF u = s THEN Waiting ELSE calls[u]
      /\ \A k \in Key : index'[k] = IF k = Fold(key) THEN n + 1 ELSE index[k]
      /\ Fold(key) \in Key /\ n + 1 # 0 /\ n + 1 \notin DOMAIN records
      /\ DOMAIN records' = DOMAIN records \cup {n + 1}
  BY <1>1, <1>2, <1>5, FoldIsKey DEF RegistersInv, RegistersTypeOK
<1>8. IndexLeads'
  <2>1. ASSUME NEW k \in Key, index'[k] # 0
        PROVE  index'[k] \in DOMAIN records' /\ Fold(records'[index'[k]].key) = k
    <3>1. CASE k = Fold(key)
      BY <3>1, <1>4, <1>5, <1>7
    <3>2. CASE k # Fold(key)
      BY <2>1, <3>2, <1>5, <1>7 DEF RegistersInv, IndexLeads
    <3> QED BY <3>1, <3>2
  <2>2. ASSUME NEW r \in DOMAIN records' PROVE index'[Fold(records'[r].key)] # 0
    <3>1. CASE r = n + 1
      BY <3>1, <1>4, <1>5, <1>7
    <3>2. CASE r \in DOMAIN records
      <4>1. Fold(records[r].key) \in Key /\ index[Fold(records[r].key)] # 0
        BY <3>2, RecordAt, FoldIsKey DEF RegistersInv, IndexLeads, Record
      <4> QED BY <3>2, <4>1, <1>5, <1>7
    <3> QED BY <3>1, <3>2, <1>7
  <2> QED BY <2>1, <2>2 DEF IndexLeads
<1>9. LookedBefore'
  <2>1. ASSUME NEW u \in Slot, calls'[u].op = "insert"
        PROVE  /\ calls'[u].seen \subseteq DOMAIN records'
               /\ \A q \in calls'[u].seen : Fold(records'[q].key) # Fold(calls'[u].key)
    <3>1. u # s /\ calls'[u] = calls[u]
      BY <2>1, <1>7 DEF Waiting
    <3> QED BY <2>1, <3>1, <1>5, <1>7 DEF RegistersInv, LookedBefore
  <2>2. ASSUME NEW r \in DOMAIN records' PROVE records'[r].seen \subseteq DOMAIN records'
    <3>1. CASE r = n + 1
      BY <3>1, <1>2, <1>4, <1>5, <1>7
    <3>2. CASE r \in DOMAIN records
      BY <3>2, <1>5, <1>7 DEF RegistersInv, LookedBefore
    <3> QED BY <3>1, <3>2, <1>7
  <2>3. ASSUME NEW q \in DOMAIN records', NEW r \in DOMAIN records', q # r,
               records'[q].key[1] = records'[r].key[1]
        PROVE  q \notin records'[r].seen
    <3>1. CASE r \in DOMAIN records /\ q \in DOMAIN records
      BY <2>3, <3>1, <1>5 DEF RegistersInv, LookedBefore, SubsequentIsRefused
    <3>2. CASE r \in DOMAIN records /\ q = n + 1
      BY <3>2, <1>5, <1>7 DEF RegistersInv, LookedBefore
    <3>3. CASE r = n + 1 /\ q \in DOMAIN records
      <4>1. records[q].key \in Key /\ records[q].key[1] = key[1]
        BY <2>3, <3>3, <1>4, <1>5, RecordAt DEF RegistersInv, Record
      <4>2. Fold(records[q].key) = Fold(key)
        BY <4>1, <1>2, FoldIsKey
      <4> QED BY <3>3, <4>2, <1>2, <1>4, <1>5
    <3> QED BY <2>3, <3>1, <3>2, <3>3, <1>7
  <2> QED BY <2>1, <2>2, <2>3 DEF LookedBefore, SubsequentIsRefused
<1>10. SavesExist'
  <2>1. ASSUME NEW u \in Slot, calls'[u].op = "save" PROVE calls'[u].id \in DOMAIN records'
    <3>1. u # s /\ calls'[u] = calls[u]
      BY <2>1, <1>7 DEF Waiting
    <3> QED BY <2>1, <3>1, <1>7 DEF RegistersInv, SavesExist
  <2> QED BY <2>1 DEF SavesExist
<1>11. StampsAhead' /\ ChangesAreOrdered'
  <2>1. ASSUME register' = "drivers", NEW r \in DOMAIN records',
               NEW i \in DOMAIN records'[r].changes
        PROVE  records'[r].changes[i] <= lastStamp'[r]
    <3>1. lastStamp' = [lastStamp EXCEPT ![n + 1] = instant]
      BY <2>1, <1>1
    <3>2. CASE r = n + 1
      <4>1. n + 1 \in 1..MaxRecords /\ instant \in Int /\ lastStamp \in [1..MaxRecords -> Int]
        BY <1>1, <1>2, RegistersAssumption DEF RegistersInv, RegistersTypeOK
      <4>2. lastStamp'[n + 1] = instant
        <5> HIDE DEF n
        <5> QED BY <3>1, <4>1
      <4> QED BY <2>1, <3>2, <4>1, <4>2, <1>4, <1>5
    <3>3. CASE r \in DOMAIN records
      <4>1. lastStamp'[r] = lastStamp[r]
        BY <3>1, <3>3, <1>7, RecordAt DEF RegistersInv, RegistersTypeOK
      <4> QED BY <2>1, <3>3, <4>1, <1>1, <1>5 DEF RegistersInv, StampsAhead
    <3> QED BY <3>2, <3>3, <1>7
  <2>2. ASSUME NEW r \in DOMAIN records', NEW i \in DOMAIN records'[r].changes,
               NEW j \in DOMAIN records'[r].changes, i < j
        PROVE  records'[r].changes[i] < records'[r].changes[j]
    <3>1. CASE r = n + 1
      BY <2>2, <3>1, <1>4, <1>5
    <3>2. CASE r \in DOMAIN records
      BY <2>2, <3>2, <1>5 DEF RegistersInv, ChangesAreOrdered
    <3> QED BY <3>1, <3>2, <1>7
  <2> QED BY <2>1, <2>2 DEF StampsAhead, ChangesAreOrdered
<1> QED BY <1>6, <1>8, <1>9, <1>10, <1>11 DEF RegistersInv

\* What a save keeps that changes neither the key nor the history of a record:
\* the calls in progress are those that were, or fewer.
LEMMA SaveKeeps ==
  ASSUME RegistersInv, NEW id \in DOMAIN records, NEW rec \in Record, SaveRecord(id, rec),
         rec.key = records[id].key, rec.seen = records[id].seen,
         calls' \in [Slot -> CallState],
         \A u \in Slot : calls'[u] \in {calls[u], Waiting}
  PROVE  /\ records' \in Seq(Record) /\ DOMAIN records' = DOMAIN records
         /\ Len(records') = Len(records)
         /\ \A r \in DOMAIN records : records'[r] = IF r = id THEN rec ELSE records[r]
         /\ index' \in [Key -> Nat]
         /\ IndexLeads' /\ LookedBefore' /\ SavesExist'
<1>1. /\ records \in Seq(Record) /\ id \in 1..Len(records) /\ id \in Nat
      /\ DOMAIN records = 1..Len(records)
      /\ records' = [records EXCEPT ![id] = rec]
      /\ index' = [index EXCEPT ![Fold(rec.key)] = id]
      /\ rec.key \in Key
  BY RecordAt, LenProperties DEF SaveRecord, RegistersInv, RegistersTypeOK, Record
<1>2. /\ records' \in Seq(Record) /\ Len(records') = Len(records)
      /\ DOMAIN records' = DOMAIN records
      /\ \A r \in DOMAIN records : records'[r] = IF r = id THEN rec ELSE records[r]
  BY <1>1, ExceptSeq, LenProperties
<1>3. /\ index' \in [Key -> Nat] /\ Fold(rec.key) \in Key /\ id # 0
      /\ \A k \in Key : index'[k] = IF k = Fold(rec.key) THEN id ELSE index[k]
  BY <1>1, FoldIsKey DEF RegistersInv, RegistersTypeOK
<1>4. \A r \in DOMAIN records : /\ records'[r].key = records[r].key
                                /\ records'[r].seen = records[r].seen
  BY <1>2
<1>5. IndexLeads'
  <2>1. ASSUME NEW k \in Key, index'[k] # 0
        PROVE  index'[k] \in DOMAIN records' /\ Fold(records'[index'[k]].key) = k
    <3>1. CASE k = Fold(rec.key)
      BY <3>1, <1>2, <1>3
    <3>2. CASE k # Fold(rec.key)
      BY <2>1, <3>2, <1>2, <1>3, <1>4 DEF RegistersInv, IndexLeads
    <3> QED BY <3>1, <3>2
  <2>2. ASSUME NEW r \in DOMAIN records' PROVE index'[Fold(records'[r].key)] # 0
    <3>1. Fold(records[r].key) \in Key /\ index[Fold(records[r].key)] # 0
      BY <1>2, RecordAt, FoldIsKey DEF RegistersInv, IndexLeads, Record
    <3> QED BY <3>1, <1>2, <1>3, <1>4
  <2> QED BY <2>1, <2>2 DEF IndexLeads
<1>6. LookedBefore'
  <2>1. ASSUME NEW u \in Slot, calls'[u].op = "insert"
        PROVE  /\ calls'[u].seen \subseteq DOMAIN records'
               /\ \A q \in calls'[u].seen : Fold(records'[q].key) # Fold(calls'[u].key)
    <3>1. calls'[u] = calls[u]
      BY <2>1 DEF Waiting
    <3> QED BY <2>1, <3>1, <1>2, <1>4 DEF RegistersInv, LookedBefore
  <2>2. \A r \in DOMAIN records' : records'[r].seen \subseteq DOMAIN records'
    BY <1>2, <1>4 DEF RegistersInv, LookedBefore
  <2>3. SubsequentIsRefused'
    BY <1>2, <1>4 DEF RegistersInv, LookedBefore, SubsequentIsRefused
  <2> QED BY <2>1, <2>2, <2>3 DEF LookedBefore
<1>7. SavesExist'
  <2>1. ASSUME NEW u \in Slot, calls'[u].op = "save" PROVE calls'[u].id \in DOMAIN records'
    <3>1. calls'[u] = calls[u]
      BY <2>1 DEF Waiting
    <3> QED BY <2>1, <3>1, <1>2 DEF RegistersInv, SavesExist
  <2> QED BY <2>1 DEF SavesExist
<1> QED BY <1>2, <1>3, <1>5, <1>6, <1>7

\* A call that has saved is over.
LEMMA CallEnds ==
  ASSUME RegistersInv, NEW s \in Slot, calls' = [calls EXCEPT ![s] = Waiting]
  PROVE  calls' \in [Slot -> CallState] /\ \A u \in Slot : calls'[u] \in {calls[u], Waiting}
  BY DEF RegistersInv, RegistersTypeOK, CallState

\* A change of a driver by DriverService: the stamp it gives is later than any
\* that the driver has been given.
LEMMA ChangeDriverStep ==
  ASSUME RegistersInv, NEW s \in Slot, ChangeDriver(s)
  PROVE  RegistersInv'
<1> DEFINE id == calls[s].id
           stamp == NextStampFor(id, calls[s].read)
           old == records[id].changes
           rec == [records[id] EXCEPT !.updatedAt = stamp, !.changes = Append(@, stamp)]
<1>1. /\ register = "drivers" /\ calls[s].op = "save"
      /\ lastStamp' = [lastStamp EXCEPT ![id] = stamp]
      /\ SaveRecord(id, rec)
      /\ calls' = [calls EXCEPT ![s] = Waiting]
      /\ UNCHANGED <<register, instant>>
  BY DEF ChangeDriver
<1>2. id \in DOMAIN records /\ calls[s].read \in Int
  BY <1>1 DEF RegistersInv, SavesExist, RegistersTypeOK, CallState, Waiting
<1>3. records[id] \in Record /\ id \in 1..MaxRecords
  BY <1>2, RecordAt DEF RegistersInv
<1>4. stamp \in Int /\ lastStamp[id] < stamp
  <2>1. lastStamp[id] \in Int /\ instant \in Int
    BY <1>3 DEF RegistersInv, RegistersTypeOK
  <2> QED BY <2>1, <1>2, NextStampIsLater
<1> HIDE DEF stamp
<1>5. /\ Append(old, stamp) \in Seq(Int)
      /\ \A i \in DOMAIN Append(old, stamp) : Append(old, stamp)[i] <= stamp
      /\ \A i, j \in DOMAIN Append(old, stamp) :
           i < j => Append(old, stamp)[i] < Append(old, stamp)[j]
  <2>1. old \in Seq(Int)
    BY <1>3 DEF Record
  <2>2. \A i \in DOMAIN old : old[i] < stamp
    <3>1. ASSUME NEW i \in DOMAIN old PROVE old[i] < stamp
      <4>1. old[i] <= lastStamp[id]
        BY <1>1, <1>2 DEF RegistersInv, StampsAhead
      <4>2. old[i] \in Int /\ lastStamp[id] \in Int
        BY <2>1, <1>3, LenProperties, ElementOfSeq DEF RegistersInv, RegistersTypeOK
      <4> QED BY <4>1, <4>2, <1>4
    <3> QED BY <3>1
  <2>3. \A i, j \in DOMAIN old : i < j => old[i] < old[j]
    BY <1>2 DEF RegistersInv, ChangesAreOrdered
  <2> HIDE DEF old
  <2> QED BY <2>1, <2>2, <2>3, <1>4, AppendLater
<1>6. /\ rec \in Record /\ rec.key = records[id].key /\ rec.seen = records[id].seen
      /\ rec.changes = Append(old, stamp)
  BY <1>3, <1>4, <1>5 DEF Record
<1> HIDE DEF rec, old
<1>7. /\ records' \in Seq(Record) /\ DOMAIN records' = DOMAIN records
      /\ Len(records') = Len(records)
      /\ \A r \in DOMAIN records : records'[r] = IF r = id THEN rec ELSE records[r]
      /\ index' \in [Key -> Nat]
      /\ IndexLeads' /\ LookedBefore' /\ SavesExist'
      /\ calls' \in [Slot -> CallState]
  BY <1>1, <1>2, <1>6, SaveKeeps, CallEnds
<1>8. /\ lastStamp' \in [1..MaxRecords -> Int]
      /\ \A r \in 1..MaxRecords : lastStamp'[r] = IF r = id THEN stamp ELSE lastStamp[r]
  <2> HIDE DEF id
  <2> QED BY <1>1, <1>3, <1>4 DEF RegistersInv, RegistersTypeOK
<1>9. RegistersTypeOK'
  BY <1>1, <1>7, <1>8 DEF RegistersInv, RegistersTypeOK
<1>10. records'[id].changes = Append(old, stamp) /\ lastStamp'[id] = stamp
  BY <1>2, <1>3, <1>6, <1>7, <1>8
<1>11. ASSUME NEW r \in DOMAIN records', NEW i \in DOMAIN records'[r].changes
       PROVE  records'[r].changes[i] <= lastStamp'[r]
  <2>1. CASE r = id
    BY <2>1, <1>5, <1>10
  <2>2. CASE r # id
    <3>1. r \in DOMAIN records /\ r \in 1..MaxRecords
      BY <1>7, RecordAt DEF RegistersInv
    <3> QED BY <2>2, <3>1, <1>1, <1>7, <1>8 DEF RegistersInv, StampsAhead
  <2> QED BY <2>1, <2>2
<1>12. ASSUME NEW r \in DOMAIN records', NEW i \in DOMAIN records'[r].changes,
              NEW j \in DOMAIN records'[r].changes, i < j
       PROVE  records'[r].changes[i] < records'[r].changes[j]
  <2>1. CASE r = id
    BY <2>1, <1>5, <1>10, <1>12
  <2>2. CASE r # id
    BY <2>2, <1>7, <1>12 DEF RegistersInv, ChangesAreOrdered
  <2> QED BY <2>1, <2>2
<1> QED
  BY <1>7, <1>9, <1>11, <1>12 DEF RegistersInv, StampsAhead, ChangesAreOrdered

\* The saves that give no stamp: of associateDriver, and of other services with
\* a time of their own.
LEMMA OtherSaveStep ==
  ASSUME RegistersInv, NEW id \in DOMAIN records, NEW rec \in Record, SaveRecord(id, rec),
         rec.key = records[id].key, rec.seen = records[id].seen,
         rec.changes = records[id].changes,
         calls' \in [Slot -> CallState],
         \A u \in Slot : calls'[u] \in {calls[u], Waiting},
         UNCHANGED <<register, lastStamp, instant>>
  PROVE  RegistersInv'
<1>1. /\ records' \in Seq(Record) /\ DOMAIN records' = DOMAIN records
      /\ Len(records') = Len(records)
      /\ \A r \in DOMAIN records : records'[r] = IF r = id THEN rec ELSE records[r]
      /\ index' \in [Key -> Nat]
      /\ IndexLeads' /\ LookedBefore' /\ SavesExist'
  BY SaveKeeps
<1>2. \A r \in DOMAIN records : records'[r].changes = records[r].changes
  BY <1>1
<1>3. RegistersTypeOK'
  BY <1>1 DEF RegistersInv, RegistersTypeOK
<1> QED BY <1>1, <1>2, <1>3 DEF RegistersInv, StampsAhead, ChangesAreOrdered

LEMMA AssociateOwnerStep ==
  ASSUME RegistersInv, NEW s \in Slot, AssociateOwner(s)
  PROVE  RegistersInv'
<1> DEFINE id == calls[s].id
           rec == [records[id] EXCEPT !.owner = calls[s].owner]
<1>1. /\ calls[s].op = "save" /\ SaveRecord(id, rec)
      /\ calls' = [calls EXCEPT ![s] = Waiting]
      /\ UNCHANGED <<register, lastStamp, instant>>
  BY DEF AssociateOwner
<1>2. id \in DOMAIN records /\ calls[s].owner \in Owner \cup {Unowned}
  BY <1>1 DEF RegistersInv, SavesExist, RegistersTypeOK, CallState, Waiting
<1>3. /\ rec \in Record /\ rec.key = records[id].key /\ rec.seen = records[id].seen
      /\ rec.changes = records[id].changes
  BY <1>2, RecordAt DEF RegistersInv, Record
<1> HIDE DEF rec
<1> QED BY <1>1, <1>2, <1>3, CallEnds, OtherSaveStep

LEMMA SaveElsewhereStep ==
  ASSUME RegistersInv, NEW id \in 1..MaxRecords, NEW t \in 0..MaxInstant, SaveElsewhere(id, t)
  PROVE  RegistersInv'
<1> DEFINE rec == [records[id] EXCEPT !.updatedAt = t]
<1>1. /\ id \in DOMAIN records /\ SaveRecord(id, rec)
      /\ UNCHANGED <<register, lastStamp, instant, calls>>
  BY DEF SaveElsewhere
<1>2. /\ rec \in Record /\ rec.key = records[id].key /\ rec.seen = records[id].seen
      /\ rec.changes = records[id].changes
  BY <1>1, RecordAt DEF RegistersInv, Record
<1>3. calls' \in [Slot -> CallState] /\ \A u \in Slot : calls'[u] \in {calls[u], Waiting}
  BY <1>1 DEF RegistersInv, RegistersTypeOK
<1> HIDE DEF rec
<1> QED BY <1>1, <1>2, <1>3, OtherSaveStep

LEMMA RegistersInvStep == RegistersInv /\ [RegistersNext]_registerVars => RegistersInv'
<1> SUFFICES ASSUME RegistersInv, [RegistersNext]_registerVars PROVE RegistersInv'
  OBVIOUS
<1>1. CASE UNCHANGED registerVars
  BY <1>1 DEF registerVars, RegistersInv, RegistersTypeOK, IndexLeads, LookedBefore,
     SubsequentIsRefused, SavesExist, StampsAhead, ChangesAreOrdered
<1>2. ASSUME NEW t \in 0..MaxInstant, SetClock(t) PROVE RegistersInv'
  BY <1>2 DEF SetClock, RegistersInv, RegistersTypeOK, IndexLeads, LookedBefore,
     SubsequentIsRefused, SavesExist, StampsAhead, ChangesAreOrdered
<1> QED
  BY <1>1, <1>2, FindByKeyStep, RequireStep, InsertStep, ChangeDriverStep,
     AssociateOwnerStep, SaveElsewhereStep DEF RegistersNext

-----------------------------------------------------------------------------
(***************************************************************************)
(* The theorems.                                                           *)
(***************************************************************************)

LEMMA RegistersInvCorrect == RegistersSpec => []RegistersInv
  BY RegistersInvInit, RegistersInvStep, PTL DEF RegistersSpec

\* Every variable of the registers keeps its type.
THEOREM RegistersTypeCorrect == RegistersSpec => []RegistersTypeOK
<1>1. RegistersInv => RegistersTypeOK
  BY DEF RegistersInv
<1> QED BY RegistersInvCorrect, <1>1, PTL

\* However calls overlap and whatever the clock does: two records share a key
\* only when neither call could see the other's, the index leads from every
\* key to a record of it, and the stamps of a driver's changes are in their
\* order (DriverService, VehicleService and their repositories).
THEOREM RegistersCorrect == RegistersSpec => []RegistersSafe
<1>1. RegistersInv => RegistersSafe
  <2> SUFFICES ASSUME RegistersInv PROVE KeyLeadsToItsRecord
    BY DEF RegistersInv, LookedBefore, RegistersSafe
  <2>1. ASSUME NEW r \in DOMAIN records
        PROVE  LET id == index[Fold(records[r].key)] IN id \in DOMAIN records /\ SameKey(id, r)
    <3>1. Fold(records[r].key) \in Key
      BY RecordAt, FoldIsKey DEF RegistersInv, Record
    <3> QED BY <3>1 DEF RegistersInv, IndexLeads, SameKey
  <2> QED BY <2>1 DEF KeyLeadsToItsRecord
<1> QED BY RegistersInvCorrect, <1>1, PTL

-----------------------------------------------------------------------------
(***************************************************************************)
(* Accounts and tokens, for any lifetimes and any number of accounts,      *)
(* tokens and refreshes.  The invariant:                                   *)
(***************************************************************************)

Token ==
  [type : {"access", "refresh"}, sub : Email, role : StaffRole, exp : Nat, born : Nat,
   login : Nat]
    \cup [type : {"tracking"}, sub : TrackedDelivery, role : {"Customer"}, exp : Nat,
          born : Nat, login : Nat]

SessionsTypeOK ==
  /\ clock \in 0..MaxClock
  /\ account \in [Email -> {NoAccount} \cup [role : StaffRole, password : Password]]
  /\ tokens \subseteq Token
  /\ lastHad \in [Email -> [StaffRole -> 0..Never]]

\* An account has its role now, and had no role later than now.
LastHadIsKept ==
  /\ \A e \in Email, r \in StaffRole : lastHad[e][r] <= clock \/ lastHad[e][r] = Never
  /\ \A e \in Email : account[e] # NoAccount => lastHad[e][account[e].role] = clock

\* Where a token comes from: its expiry from the second it was made in; an
\* access token from a login or from a refresh token of that login that had not
\* expired; its role from an account that had it at the login.
Issued(token) ==
  /\ token.exp = token.born \div Second + Ttl(token.type) /\ token.born <= clock
  /\ token.type # "tracking" =>
       /\ \/ token.born = token.login
          \/ token.type = "access" /\ token.born < token.login + RefreshTtl * Second
       /\ token.login <= lastHad[token.sub][token.role]
       /\ lastHad[token.sub][token.role] # Never

SessionsInv ==
  SessionsTypeOK /\ LastHadIsKept /\ \A token \in tokens : Issued(token)

-----------------------------------------------------------------------------
(***************************************************************************)
(* Seconds and milliseconds.                                               *)
(***************************************************************************)

LEMMA WholeSeconds ==
  ASSUME NEW n \in Nat
  PROVE  /\ n \div Second \in Nat
         /\ (n \div Second) * Second <= n
         /\ n < (n \div Second) * Second + Second
  BY SessionsAssumption

LEMMA SecondsAdd ==
  ASSUME NEW a \in Nat, NEW b \in Nat
  PROVE  (a + b) * Second = a * Second + b * Second /\ a * Second \in Nat /\ b * Second \in Nat
  BY SessionsAssumption

LEMMA TtlIsNat ==
  /\ \A type \in {"access", "refresh", "tracking"} : Ttl(type) \in Nat
  /\ Ttl("access") = AccessTtl /\ Ttl("refresh") = RefreshTtl /\ Ttl("tracking") = TrackingTtl
  BY SessionsAssumption DEF Ttl

\* A token verifies until its lifetime has passed, or less than a second less.
LEMMA LifetimeInMilliseconds ==
  ASSUME NEW token, token.born \in Nat, NEW ttl \in Nat, clock \in Nat,
         token.exp = token.born \div Second + ttl
  PROVE  /\ Verifies(token) => clock < token.born + ttl * Second
         /\ clock + Second <= token.born + ttl * Second => Verifies(token)
<1> DEFINE q == token.born \div Second
<1>1. q \in Nat /\ q * Second <= token.born /\ token.born < q * Second + Second
  BY WholeSeconds
<1>2. token.exp * Second = q * Second + ttl * Second /\ q * Second \in Nat /\ ttl * Second \in Nat
  BY <1>1, SecondsAdd
<1> HIDE DEF q
<1> QED BY <1>1, <1>2, SessionsAssumption DEF Verifies

LEMMA NowIsNat ==
  ASSUME clock \in Nat, NEW ttl \in Nat
  PROVE  NowSeconds \in Nat /\ NowSeconds = clock \div Second /\ NowSeconds + ttl \in Nat
<1>1. clock \div Second \in Nat
  BY WholeSeconds
<1> QED BY <1>1 DEF NowSeconds

-----------------------------------------------------------------------------
(***************************************************************************)
(* Steps.                                                                  *)
(***************************************************************************)

LEMMA SessionsInvInit == SessionsInit => SessionsInv
<1> SUFFICES ASSUME SessionsInit PROVE SessionsInv
  OBVIOUS
<1>1. Never \in Nat /\ \A n \in 0..MaxClock : n # Never
  BY SessionsAssumption DEF Never
<1>2. SessionsTypeOK
  BY <1>1, SessionsAssumption DEF SessionsInit, SessionsTypeOK, Never
<1> QED BY <1>2 DEF SessionsInit, SessionsInv, LastHadIsKept

\* What login, refresh and the making of a tracking link do: they add tokens.
LEMMA KeepStep ==
  ASSUME SessionsInv, NEW new \in SUBSET Token, \A token \in new : Issued(token), Keep(new)
  PROVE  SessionsInv'
<1>1. tokens' = tokens \cup new /\ UNCHANGED <<clock, account, lastHad>>
  BY DEF Keep
<1>2. \A token : Issued(token)' <=> Issued(token)
  BY <1>1 DEF Issued
<1>3. SessionsTypeOK' /\ LastHadIsKept'
  BY <1>1 DEF SessionsInv, SessionsTypeOK, LastHadIsKept
<1> QED BY <1>1, <1>2, <1>3 DEF SessionsInv

LEMMA LoginStep ==
  ASSUME SessionsInv, NEW e \in Email, NEW password \in Password, Login(e, password)
  PROVE  SessionsInv'
<1> DEFINE role == account[e].role
           made(type) == Claims(type, e, role, Ttl(type), clock)
           new == {made(type) : type \in {"access", "refresh"}}
<1>1. Keep(new) /\ account[e] # NoAccount
  BY DEF Login
<1>2. role \in StaffRole /\ clock \in 0..MaxClock /\ clock \in Nat /\ clock # Never
      /\ lastHad[e][role] = clock
  BY <1>1, SessionsAssumption DEF SessionsInv, SessionsTypeOK, LastHadIsKept, Never
<1> HIDE DEF role
<1>3. ASSUME NEW type \in {"access", "refresh"} PROVE made(type) \in Token /\ Issued(made(type))
  <2> DEFINE t == Claims(type, e, role, Ttl(type), clock)
  <2>1. Ttl(type) \in Nat
    BY TtlIsNat
  <2>2. NowSeconds \in Nat /\ NowSeconds = clock \div Second /\ NowSeconds + Ttl(type) \in Nat
    BY <1>2, <2>1, NowIsNat
  <2>3. /\ t.type = type /\ t.sub = e /\ t.role = role
        /\ t.exp = NowSeconds + Ttl(type)
        /\ t.born = clock /\ t.login = clock
    BY DEF Claims
  <2>4. t \in Token
    BY <1>2, <2>2 DEF Claims, Token
  <2> HIDE DEF t
  <2>5. t.login <= lastHad[t.sub][t.role]
    BY <1>2, <2>3
  <2>6. lastHad[t.sub][t.role] # Never
    BY <1>2, <2>3
  <2>7. t.exp = t.born \div Second + Ttl(t.type)
    BY <2>2, <2>3
  <2>8. t.type # "tracking" /\ t.born <= clock /\ t.born = t.login
    BY <1>2, <2>3
  <2>9. Issued(t)
    BY <2>5, <2>6, <2>7, <2>8 DEF Issued
  <2> QED BY <2>4, <2>9 DEF t
<1>4. new \in SUBSET Token /\ \A token \in new : Issued(token)
  BY <1>3
<1> QED BY <1>1, <1>4, KeepStep

\* An access token from a refresh token, which has not expired: it belongs to
\* the login that the refresh token belongs to.
LEMMA RefreshStep ==
  ASSUME SessionsInv, NEW token \in tokens, Refresh(token)
  PROVE  SessionsInv'
<1> DEFINE access == Claims("access", token.sub, token.role, AccessTtl, token.login)
<1>1. Keep({access}) /\ Verifies(token) /\ token.type = "refresh"
  BY DEF Refresh
<1>2. token \in Token /\ token.sub \in Email /\ token.role \in StaffRole
      /\ token.born \in Nat /\ token.login \in Nat
  BY <1>1 DEF SessionsInv, SessionsTypeOK, Token
<1>3. /\ token.exp = token.born \div Second + RefreshTtl /\ token.born = token.login
      /\ token.login <= lastHad[token.sub][token.role]
      /\ lastHad[token.sub][token.role] # Never
  BY <1>1, TtlIsNat DEF SessionsInv, Issued
<1>4. clock \in Nat /\ clock < token.login + RefreshTtl * Second
  BY <1>1, <1>2, <1>3, LifetimeInMilliseconds, SessionsAssumption DEF SessionsInv, SessionsTypeOK
<1>5. NowSeconds \in Nat /\ NowSeconds = clock \div Second /\ NowSeconds + AccessTtl \in Nat
  BY <1>4, NowIsNat, SessionsAssumption
<1>6. access \in Token
  BY <1>2, <1>4, <1>5 DEF Claims, Token
<1>7. /\ access.type = "access" /\ access.sub = token.sub /\ access.role = token.role
      /\ access.exp = NowSeconds + AccessTtl
      /\ access.born = clock /\ access.login = token.login
  BY DEF Claims
<1>8. Issued(access)
  BY <1>3, <1>4, <1>5, <1>7, TtlIsNat DEF Issued
<1>9. {access} \in SUBSET Token /\ \A t \in {access} : Issued(t)
  BY <1>6, <1>8
<1> QED BY <1>1, <1>9, KeepStep

LEMMA IssueTrackingTokenStep ==
  ASSUME SessionsInv, NEW d \in TrackedDelivery, IssueTrackingToken(d)
  PROVE  SessionsInv'
<1> DEFINE link == Claims("tracking", d, "Customer", TrackingTtl, clock)
<1>1. Keep({link})
  BY DEF IssueTrackingToken
<1>2. clock \in Nat
  BY SessionsAssumption DEF SessionsInv, SessionsTypeOK
<1>3. NowSeconds \in Nat /\ NowSeconds = clock \div Second /\ NowSeconds + TrackingTtl \in Nat
  BY <1>2, NowIsNat, SessionsAssumption
<1>4. link \in Token
  BY <1>2, <1>3 DEF Claims, Token
<1>5. link.type = "tracking" /\ link.exp = NowSeconds + TrackingTtl /\ link.born = clock
  BY DEF Claims
<1>6. Issued(link)
  BY <1>2, <1>3, <1>5, TtlIsNat DEF Issued
<1>7. {link} \in SUBSET Token /\ \A t \in {link} : Issued(t)
  BY <1>4, <1>6
<1> QED BY <1>1, <1>7, KeepStep

\* A role that is given moves the time an account last had it forward.
LEMMA RegisterStep ==
  ASSUME SessionsInv, NEW e \in Email, NEW password \in Password, NEW role \in StaffRole,
         Register(e, password, role)
  PROVE  SessionsInv'
<1>1. /\ account' = [account EXCEPT ![e] = [role |-> role, password |-> password]]
      /\ lastHad' = [lastHad EXCEPT ![e][role] = clock]
      /\ UNCHANGED <<clock, tokens>>
  BY DEF Register
<1>2. clock \in 0..MaxClock /\ clock \in 0..Never /\ clock # Never
  BY SessionsAssumption DEF SessionsInv, SessionsTypeOK, Never
<1>3. SessionsTypeOK'
  BY <1>1, <1>2 DEF SessionsInv, SessionsTypeOK
<1>4. \A f \in Email, r \in StaffRole :
        lastHad'[f][r] = IF f = e /\ r = role THEN clock ELSE lastHad[f][r]
  BY <1>1 DEF SessionsInv, SessionsTypeOK
<1>5. \A f \in Email : account'[f] = IF f = e THEN [role |-> role, password |-> password]
                                     ELSE account[f]
  BY <1>1 DEF SessionsInv, SessionsTypeOK
<1>6. LastHadIsKept'
  <2>1. \A f \in Email, r \in StaffRole : lastHad'[f][r] <= clock' \/ lastHad'[f][r] = Never
    BY <1>1, <1>2, <1>4 DEF SessionsInv, LastHadIsKept
  <2>2. ASSUME NEW f \in Email, account'[f] # NoAccount PROVE lastHad'[f][account'[f].role] = clock'
    <3>1. CASE f = e
      BY <3>1, <1>1, <1>4, <1>5
    <3>2. CASE f # e
      <4>1. account'[f] = account[f] /\ account[f].role \in StaffRole
        BY <3>2, <2>2, <1>5 DEF SessionsInv, SessionsTypeOK
      <4> QED BY <4>1, <3>2, <2>2, <1>1, <1>4 DEF SessionsInv, LastHadIsKept
    <3> QED BY <3>1, <3>2
  <2> QED BY <2>1, <2>2 DEF LastHadIsKept
<1>7. ASSUME NEW token \in tokens PROVE Issued(token)'
  <2>1. Issued(token) /\ token \in Token
    BY DEF SessionsInv, SessionsTypeOK
  <2>2. CASE token.type = "tracking"
    BY <2>1, <2>2, <1>1 DEF Issued
  <2>3. CASE token.type # "tracking"
    <3>1. /\ token.sub \in Email /\ token.role \in StaffRole
          /\ token.born \in Nat /\ token.login \in Nat
      BY <2>1, <2>3 DEF Token
    <3>2. /\ token.login <= lastHad[token.sub][token.role]
          /\ lastHad[token.sub][token.role] # Never
          /\ lastHad[token.sub][token.role] <= clock
          /\ lastHad[token.sub][token.role] \in Nat
      BY <2>1, <2>3, <3>1 DEF SessionsInv, SessionsTypeOK, LastHadIsKept, Issued
    <3>3. /\ token.login <= lastHad'[token.sub][token.role]
          /\ lastHad'[token.sub][token.role] # Never
      BY <3>1, <3>2, <1>2, <1>4
    <3> QED BY <2>1, <2>3, <3>3, <1>1 DEF Issued
  <2> QED BY <2>2, <2>3
<1> QED BY <1>1, <1>3, <1>6, <1>7 DEF SessionsInv

\* Time passes: every account still has its role.
LEMMA PassStep ==
  ASSUME SessionsInv, Pass
  PROVE  SessionsInv'
<1> DEFINE has(e, r) == account[e] # NoAccount /\ account[e].role = r
<1>1. /\ clock < MaxClock /\ clock' = clock + 1
      /\ lastHad' = [e \in Email |-> [r \in StaffRole |->
                       IF has(e, r) THEN clock' ELSE lastHad[e][r]]]
      /\ UNCHANGED <<account, tokens>>
  BY DEF Pass
<1>2. clock \in Nat /\ clock' \in 0..MaxClock /\ clock' \in 0..Never /\ clock' # Never
  BY <1>1, SessionsAssumption DEF SessionsInv, SessionsTypeOK, Never
<1>3. \A e \in Email, r \in StaffRole :
        lastHad'[e][r] = IF has(e, r) THEN clock' ELSE lastHad[e][r]
  BY <1>1
<1>4. \A e \in Email, r \in StaffRole : lastHad[e][r] \in 0..Never
  BY DEF SessionsInv, SessionsTypeOK
<1>5. SessionsTypeOK'
  <2>1. lastHad' \in [Email -> [StaffRole -> 0..Never]]
    BY <1>1, <1>2, <1>4
  <2> QED BY <2>1, <1>1, <1>2 DEF SessionsInv, SessionsTypeOK
<1>6. LastHadIsKept'
  <2>1. \A e \in Email, r \in StaffRole : lastHad'[e][r] <= clock' \/ lastHad'[e][r] = Never
    <3>1. \A e \in Email, r \in StaffRole : lastHad[e][r] <= clock \/ lastHad[e][r] = Never
      BY DEF SessionsInv, LastHadIsKept
    <3> HIDE DEF has
    <3> QED BY <3>1, <1>1, <1>2, <1>3, <1>4
  <2>2. ASSUME NEW e \in Email, account'[e] # NoAccount PROVE lastHad'[e][account'[e].role] = clock'
    <3>1. account'[e] = account[e] /\ account[e].role \in StaffRole
      BY <2>2, <1>1 DEF SessionsInv, SessionsTypeOK
    <3>2. has(e, account[e].role)
      BY <2>2, <3>1
    <3> QED BY <3>1, <3>2, <1>3
  <2> QED BY <2>1, <2>2 DEF LastHadIsKept
<1>7. ASSUME NEW token \in tokens PROVE Issued(token)'
  <2>1. Issued(token) /\ token \in Token
    BY DEF SessionsInv, SessionsTypeOK
  <2>2. token.born <= clock' /\ token.born \in Nat
    BY <2>1, <1>1, <1>2 DEF Issued, Token
  <2>3. CASE token.type = "tracking"
    BY <2>1, <2>2, <2>3 DEF Issued
  <2>4. CASE token.type # "tracking"
    <3>1. token.sub \in Email /\ token.role \in StaffRole /\ token.login \in Nat
      BY <2>1, <2>4 DEF Token
    <3>2. /\ token.login <= lastHad[token.sub][token.role]
          /\ lastHad[token.sub][token.role] # Never
          /\ lastHad[token.sub][token.role] <= clock
          /\ lastHad[token.sub][token.role] \in Nat
      BY <2>1, <2>4, <3>1 DEF SessionsInv, SessionsTypeOK, LastHadIsKept, Issued
    <3>3. /\ token.login <= lastHad'[token.sub][token.role]
          /\ lastHad'[token.sub][token.role] # Never
      <4> HIDE DEF has
      <4> QED BY <3>1, <3>2, <1>1, <1>2, <1>3
    <3> QED BY <2>1, <2>2, <2>4, <3>3 DEF Issued
  <2> QED BY <2>3, <2>4
<1> QED BY <1>1, <1>5, <1>6, <1>7 DEF SessionsInv

LEMMA SessionsInvStep == SessionsInv /\ [SessionsNext]_sessionVars => SessionsInv'
<1> SUFFICES ASSUME SessionsInv, [SessionsNext]_sessionVars PROVE SessionsInv'
  OBVIOUS
<1>1. ASSUME NEW e \in Email, NEW p \in Password, Login(e, p) PROVE SessionsInv'
  BY <1>1, LoginStep
<1>2. ASSUME NEW e \in Email, NEW p \in Password, NEW r \in StaffRole, Register(e, p, r)
      PROVE  SessionsInv'
  BY <1>2, RegisterStep
<1>3. ASSUME NEW token \in tokens, Refresh(token) PROVE SessionsInv'
  BY <1>3, RefreshStep
<1>4. ASSUME NEW token \in tokens, Discard(token) PROVE SessionsInv'
  BY <1>4 DEF Discard, SessionsInv, SessionsTypeOK, LastHadIsKept, Issued
<1>5. ASSUME NEW d \in TrackedDelivery, IssueTrackingToken(d) PROVE SessionsInv'
  BY <1>5, IssueTrackingTokenStep
<1>6. CASE Pass
  BY <1>6, PassStep
<1>7. CASE UNCHANGED sessionVars
  BY <1>7 DEF sessionVars, SessionsInv, SessionsTypeOK, LastHadIsKept, Issued
<1> QED BY <1>1, <1>2, <1>3, <1>4, <1>5, <1>6, <1>7 DEF SessionsNext

-----------------------------------------------------------------------------
(***************************************************************************)
(* What the invariant implies.                                             *)
(***************************************************************************)

\* The second in which a token was made, its lifetime and a login's two
\* lifetimes bound what verifies.
LEMMA TokenBounds ==
  ASSUME SessionsInv, NEW token \in tokens
  PROVE  /\ Verifies(token) => clock < token.born + Ttl(token.type) * Second
         /\ clock + Second <= token.born + Ttl(token.type) * Second => Verifies(token)
         /\ token.type # "tracking" /\ Verifies(token) =>
              clock < token.login + (RefreshTtl + AccessTtl) * Second
<1>1. token \in Token /\ Issued(token) /\ clock \in Nat
  BY SessionsAssumption DEF SessionsInv, SessionsTypeOK
<1>2. token.born \in Nat /\ token.login \in Nat /\ token.type \in {"access", "refresh", "tracking"}
  BY <1>1 DEF Token
<1>3. /\ Verifies(token) => clock < token.born + Ttl(token.type) * Second
      /\ clock + Second <= token.born + Ttl(token.type) * Second => Verifies(token)
  <2>1. Ttl(token.type) \in Nat /\ token.exp = token.born \div Second + Ttl(token.type)
    BY <1>1, <1>2, TtlIsNat DEF Issued
  <2> QED BY <1>1, <1>2, <2>1, LifetimeInMilliseconds
<1>4. ASSUME token.type # "tracking", Verifies(token)
      PROVE  clock < token.login + (RefreshTtl + AccessTtl) * Second
  <2>1. /\ (RefreshTtl + AccessTtl) * Second = RefreshTtl * Second + AccessTtl * Second
        /\ RefreshTtl * Second \in Nat /\ AccessTtl * Second \in Nat
    BY SecondsAdd, SessionsAssumption
  <2>2. CASE token.type = "access"
    <3>1. clock < token.born + AccessTtl * Second
      BY <1>3, <1>4, <2>2, TtlIsNat
    <3>2. token.born = token.login \/ token.born < token.login + RefreshTtl * Second
      BY <1>1, <2>2 DEF Issued
    <3> QED BY <1>1, <1>2, <2>1, <3>1, <3>2
  <2>3. CASE token.type = "refresh"
    <3>1. clock < token.born + RefreshTtl * Second
      BY <1>3, <1>4, <2>3, TtlIsNat
    <3>2. token.born = token.login
      BY <1>1, <2>3 DEF Issued
    <3> QED BY <1>1, <1>2, <2>1, <3>1, <3>2
  <2> QED BY <1>2, <1>4, <2>2, <2>3
<1> QED BY <1>3, <1>4

LEMMA InvLifetimes == SessionsInv => LivesItsLifetime /\ SessionEnds
<1> SUFFICES ASSUME SessionsInv, NEW token \in tokens
             PROVE  LET age == clock - token.born IN
                    /\ Verifies(token) => age < Ttl(token.type) * Second
                    /\ age + Second <= Ttl(token.type) * Second => Verifies(token)
                    /\ token.type # "tracking" /\ Verifies(token) =>
                         clock < token.login + (RefreshTtl + AccessTtl) * Second
  BY DEF LivesItsLifetime, SessionEnds
<1>1. clock \in Nat /\ token.born \in Nat /\ token.type \in {"access", "refresh", "tracking"}
  BY SessionsAssumption DEF SessionsInv, SessionsTypeOK, Token
<1>2. Ttl(token.type) \in Nat
  BY <1>1, TtlIsNat
<1>3. Ttl(token.type) * Second \in Nat
  BY <1>2, SecondsAdd
<1> QED BY <1>1, <1>3, TokenBounds, SessionsAssumption

\* A role that has gone from an account was there at the login.
LEMMA InvRole == SessionsInv => RoleTakenAwayExpires
<1> SUFFICES ASSUME SessionsInv, NEW token \in tokens, token.type # "tracking", Verifies(token)
             PROVE  /\ lastHad[token.sub][token.role] # Never
                    /\ clock < lastHad[token.sub][token.role] + (RefreshTtl + AccessTtl) * Second
  BY DEF RoleTakenAwayExpires
<1>1. token \in Token /\ Issued(token) /\ clock \in Nat
  BY SessionsAssumption DEF SessionsInv, SessionsTypeOK
<1>2. token.sub \in Email /\ token.role \in StaffRole /\ token.login \in Nat
  BY <1>1 DEF Token
<1>3. lastHad[token.sub][token.role] \in Nat
  BY <1>2 DEF SessionsInv, SessionsTypeOK
<1>4. /\ lastHad[token.sub][token.role] # Never
      /\ token.login <= lastHad[token.sub][token.role]
  BY <1>1 DEF Issued
<1>5. clock < token.login + (RefreshTtl + AccessTtl) * Second
  BY TokenBounds
<1>6. (RefreshTtl + AccessTtl) * Second \in Nat
  <2>1. RefreshTtl + AccessTtl \in Nat
    BY SessionsAssumption
  <2> QED BY <2>1, SecondsAdd
<1> QED BY <1>1, <1>2, <1>3, <1>4, <1>5, <1>6

\* What is handled is what the role allows.
LEMMA InvScope == SessionsInv => ScopeIsKept
<1> SUFFICES ASSUME SessionsInv, NEW token \in tokens, NEW action \in Action,
                    NEW resource \in Resource, Respond(token, action, resource) = "handled"
             PROVE  /\ token.type # "tracking" =>
                         clock < token.login + (RefreshTtl + AccessTtl) * Second
                    /\ token.type = "tracking" =>
                         /\ clock < token.born + TrackingTtl * Second
                         /\ action = "read" /\ resource.type = "Delivery"
                         /\ resource.delivery = token.sub
                    /\ token.role = "Driver" => action = "read" /\ resource.owner = token.sub
  BY DEF ScopeIsKept
<1>1. Verifies(token) /\ Authorize(token, action, resource)
  BY DEF Respond
<1>2. token \in Token
  BY DEF SessionsInv, SessionsTypeOK
<1>3. token.type # "tracking" => clock < token.login + (RefreshTtl + AccessTtl) * Second
  BY <1>1, TokenBounds
<1>4. token.role = "Driver" => action = "read" /\ resource.owner = token.sub
  BY <1>1 DEF Authorize, AuthorizeDriver
<1>5. ASSUME token.type = "tracking"
      PROVE  /\ clock < token.born + TrackingTtl * Second
             /\ action = "read" /\ resource.type = "Delivery" /\ resource.delivery = token.sub
  <2>1. token.role = "Customer"
    BY <1>2, <1>5 DEF Token
  <2>2. AuthorizeCustomer({token.sub}, action, resource)
    BY <1>1, <1>5, <2>1 DEF Authorize, ResolveTrackingToken
  <2>3. clock < token.born + TrackingTtl * Second
    BY <1>1, <1>5, TokenBounds, TtlIsNat
  <2> QED BY <2>2, <2>3 DEF AuthorizeCustomer
<1> QED BY <1>3, <1>4, <1>5

-----------------------------------------------------------------------------
(***************************************************************************)
(* Theorems.                                                               *)
(***************************************************************************)

\* Accounts and tokens keep their types.
THEOREM SessionsTypeCorrect == SessionsSpec => []SessionsTypeOK
<1>1. SessionsInv => SessionsTypeOK
  BY DEF SessionsInv
<1> QED BY <1>1, SessionsInvInit, SessionsInvStep, PTL DEF SessionsSpec

\* However logins, refreshes, changes of role and the clock interleave: a token
\* lasts its lifetime and opens what it should (rbac.ts), a session ends within
\* its two lifetimes, and a role that was taken away expires with it.
THEOREM SessionsCorrect == SessionsSpec => []SessionsSafe
<1>1. SessionsInv => SessionsSafe
  BY InvLifetimes, InvRole, InvScope DEF SessionsSafe
<1> QED BY <1>1, SessionsInvInit, SessionsInvStep, PTL DEF SessionsSpec

-----------------------------------------------------------------------------
(***************************************************************************)
(* Arrival notices, for any number of deliveries, events and changes by    *)
(* others.  A call goes through the list with what it read at the start;   *)
(* what others do meanwhile takes deliveries away from the due, or brings  *)
(* back those whose complete assignment is accepted again.                 *)
(***************************************************************************)

NoticeCall ==
  [pc : {"check", "notify", "done", "failed"}, type : {"Enter", "Exit"}, truck : Truck,
   snapshot : [Parcel -> [terminal : BOOLEAN, load : Load \cup {Unassigned}]],
   next : 1..(Parcels + 1), told : Seq(Parcel)]

NoticesTypeOK ==
  /\ parcel \in [Parcel -> [terminal : BOOLEAN, load : Load \cup {Unassigned}]]
  /\ carrier \in [Load -> Truck] /\ active \subseteq Load
  /\ due \in [Handling -> [start : SUBSET Parcel, ever : SUBSET Parcel, back : SUBSET Parcel]]
  /\ handling \in [Handling -> {[pc |-> "idle"]} \cup NoticeCall]

\* A delivery as the call c sees it now: the record as it was, the assignment
\* as it is.
SeenDue(c, d) ==
  /\ ~c.snapshot[d].terminal
  /\ c.snapshot[d].load \in active /\ carrier[c.snapshot[d].load] = c.truck

\* What is seen to be due was due when the event came, and what has been due
\* ever since is as it was and is seen to be due.
SnapshotHolds ==
  \A h \in Handling : Begun(h) => \A d \in Parcel :
    /\ SeenDue(handling[h], d) => d \in due[h].start \cup due[h].back
    /\ d \in due[h].ever => parcel[d] = handling[h].snapshot[d] /\ SeenDue(handling[h], d)

\* The deliveries the loop has passed: only due ones are told, in order, and
\* those that have been due ever since all are.
ToldSoFar(h) ==
  LET c == handling[h] IN
  /\ c.pc = "notify" => c.next \in due[h].start \cup due[h].back
  /\ c.pc = "done" => c.next = Parcels + 1
  /\ \A i \in DOMAIN c.told : c.told[i] < c.next /\ c.told[i] \in due[h].start \cup due[h].back
  /\ \A i, j \in DOMAIN c.told : i < j => c.told[i] < c.told[j]
  /\ \A d \in due[h].ever : d < c.next => d \in Told(h)

LoopIsRight ==
  \A h \in Handling : Begun(h) =>
    IF handling[h].type = "Enter" THEN ToldSoFar(h)
    ELSE handling[h].pc = "done" /\ handling[h].told = <<>>

NoticesInv == NoticesTypeOK /\ SnapshotHolds /\ LoopIsRight

LEMMA NoticesInvInit == NoticesInit => NoticesInv
  BY DEF NoticesInit, NoticesInv, NoticesTypeOK, SnapshotHolds, LoopIsRight, Begun

LEMMA BegunIsCall ==
  ASSUME NoticesTypeOK, NEW h \in Handling, Begun(h)
  PROVE  handling[h] \in NoticeCall
  BY DEF NoticesTypeOK, NoticeCall, Begun

LEMMA ZoneEventStep ==
  ASSUME NoticesInv, NEW g \in Handling, NEW v \in Truck, NEW type \in {"Enter", "Exit"},
         ZoneEvent(g, v, type)
  PROVE  NoticesInv'
<1> USE NoticesAssumption DEF NoticesInv
<1>1. NoticesTypeOK'
  <2>1. handling'[g].told \in Seq(Parcel) /\ handling'[g].told = <<>>
    BY DEF ZoneEvent, NoticesTypeOK, NoticeCall
  <2>2. Due(v) \in SUBSET Parcel
    BY DEF Due
  <2>3. 1 \in 1..(Parcels + 1)
    OBVIOUS
  <2> QED BY <2>1, <2>2, <2>3 DEF ZoneEvent, NoticesTypeOK, NoticeCall
<1>2. SnapshotHolds'
  BY DEF ZoneEvent, NoticesTypeOK, NoticeCall, SnapshotHolds, SeenDue, Begun, Due, IsDue
<1>3. LoopIsRight'
  <2> SUFFICES ASSUME NEW h \in Handling, Begun(h)'
               PROVE  IF handling'[h].type = "Enter" THEN ToldSoFar(h)'
                      ELSE handling'[h].pc = "done" /\ handling'[h].told = <<>>
    BY DEF LoopIsRight
  <2>1. CASE h # g
    BY <2>1 DEF ZoneEvent, NoticesTypeOK, NoticeCall, LoopIsRight, ToldSoFar, Begun, Told
  <2>2. CASE h = g
    <3>1. \A d \in due'[h].ever : ~(d < 1)
      BY <2>2 DEF ZoneEvent, NoticesTypeOK, NoticeCall, Due, Parcel
    <3> QED BY <2>2, <3>1 DEF ZoneEvent, NoticesTypeOK, NoticeCall, ToldSoFar
  <2> QED BY <2>1, <2>2
<1> QED BY <1>1, <1>2, <1>3

\* A step of the call g that changes nothing but where it is.
LEMMA LoopStep ==
  ASSUME NoticesInv, NEW g \in Handling, Begun(g),
         UNCHANGED <<parcel, carrier, active, due>>,
         NEW c, handling' = [handling EXCEPT ![g] = c],
         c \in NoticeCall,
         c.snapshot = handling[g].snapshot, c.truck = handling[g].truck,
         c.type = "Enter", ToldSoFar(g)'
  PROVE  NoticesInv'
<1> USE DEF NoticesInv
<1>1. NoticesTypeOK'
  BY DEF NoticesTypeOK
<1>2. SnapshotHolds'
  BY DEF NoticesTypeOK, NoticeCall, SnapshotHolds, SeenDue, Begun
<1>3. LoopIsRight'
  <2> SUFFICES ASSUME NEW h \in Handling, Begun(h)'
               PROVE  IF handling'[h].type = "Enter" THEN ToldSoFar(h)'
                      ELSE handling'[h].pc = "done" /\ handling'[h].told = <<>>
    BY DEF LoopIsRight
  <2>1. CASE h # g
    BY <2>1 DEF NoticesTypeOK, LoopIsRight, ToldSoFar, Begun, Told
  <2>2. CASE h = g
    BY <2>2 DEF NoticesTypeOK
  <2> QED BY <2>1, <2>2
<1> QED BY <1>1, <1>2, <1>3

LEMMA CheckStep ==
  ASSUME NoticesInv, NEW g \in Handling, Check(g)
  PROVE  NoticesInv'
<1> USE NoticesAssumption DEF NoticesInv
<1> DEFINE old == handling[g]
<1>1. Begun(g) /\ old.type = "Enter" /\ ToldSoFar(g) /\ old.next \in Parcel
  BY DEF Check, Begun, LoopIsRight, HasNext
<1>2. CASE IsArrivalForVehicle(g)
  <2> DEFINE c == [old EXCEPT !.pc = "notify"]
  <2>1. old.next \in due[g].start \cup due[g].back
    BY <1>1, <1>2 DEF SnapshotHolds, SeenDue, IsArrivalForVehicle, Now
  <2>2. handling' = [handling EXCEPT ![g] = c]
    BY <1>2 DEF Check
  <2>3. UNCHANGED <<parcel, carrier, active, due>>
    BY DEF Check
  <2>4. ToldSoFar(g)'
    BY <1>1, <2>1, <2>2, <2>3 DEF ToldSoFar, Told, NoticesTypeOK, NoticeCall
  <2> QED
    <3> HIDE DEF c
    <3>1. /\ c \in NoticeCall
          /\ c.snapshot = old.snapshot /\ c.truck = old.truck /\ c.type = "Enter"
      BY <1>1, BegunIsCall DEF c, NoticeCall
    <3> QED BY <1>1, <2>2, <2>3, <2>4, <3>1, LoopStep
<1>3. CASE ~IsArrivalForVehicle(g)
  <2> DEFINE c == [old EXCEPT !.next = @ + 1]
  <2>1. old.next \notin due[g].ever
    BY <1>1, <1>3 DEF SnapshotHolds, SeenDue, IsArrivalForVehicle, Now
  <2>2. handling' = [handling EXCEPT ![g] = c]
    BY <1>3 DEF Check, GoOn
  <2>3. UNCHANGED <<parcel, carrier, active, due>>
    BY DEF Check
  <2>4. old.next \in 1..Parcels /\ old.pc = "check" /\ due[g].ever \subseteq Parcel
    BY <1>1 DEF Parcel, Check, NoticesTypeOK, NoticeCall
  <2>5. handling'[g] = c /\ c.next = old.next + 1 /\ c.told = old.told /\ c.pc = "check"
    BY <2>2, <2>4, <1>1 DEF NoticesTypeOK, NoticeCall, Begun
  <2>6. old.told \in Seq(Parcel)
    BY <1>1 DEF NoticesTypeOK, NoticeCall, Begun
  <2>7. ToldSoFar(g)'
    <3>1. \A d \in due[g].ever : d < old.next + 1 => d < old.next
      BY <2>1, <2>4 DEF Parcel
    <3>2. \A i \in DOMAIN old.told : old.told[i] < old.next + 1
      BY <1>1, <2>4, <2>6 DEF ToldSoFar, Parcel
    <3>3. /\ \A i \in DOMAIN old.told : old.told[i] \in due[g].start \cup due[g].back
          /\ \A i, j \in DOMAIN old.told : i < j => old.told[i] < old.told[j]
      BY <1>1 DEF ToldSoFar
    <3>4. Told(g)' = Told(g)
      BY <2>5 DEF Told
    <3>5. \A d \in due[g].ever : d < old.next + 1 => d \in Told(g)
      BY <1>1, <3>1 DEF ToldSoFar
    <3>6. due'[g] = due[g] /\ handling'[g].next = old.next + 1 /\ handling'[g].told = old.told
          /\ handling'[g].pc = "check"
      BY <2>3, <2>5
    <3> HIDE DEF c, old
    <3> QED BY <3>2, <3>3, <3>4, <3>5, <3>6 DEF ToldSoFar
  <2> QED
    <3> HIDE DEF c
    <3>1. /\ c \in NoticeCall
          /\ c.snapshot = old.snapshot /\ c.truck = old.truck /\ c.type = "Enter"
      BY <1>1, <2>4, BegunIsCall DEF c, NoticeCall
    <3> QED BY <1>1, <2>2, <2>3, <2>7, <3>1, LoopStep
<1> QED BY <1>2, <1>3

LEMMA NotifyStep ==
  ASSUME NoticesInv, NEW g \in Handling, Notify(g)
  PROVE  NoticesInv'
<1> USE NoticesAssumption DEF NoticesInv
<1> DEFINE old == handling[g]
<1>1. /\ Begun(g) /\ old.type = "Enter" /\ ToldSoFar(g) /\ old.pc = "notify"
      /\ UNCHANGED <<parcel, carrier, active, due>>
  BY DEF Notify, Begun, LoopIsRight
<1>2. old.next \in due[g].start \cup due[g].back /\ old.next \in 1..Parcels
  BY <1>1 DEF ToldSoFar, NoticesTypeOK, NoticeCall, Parcel
<1>3. old.told \in Seq(Parcel) /\ due[g].ever \subseteq Parcel
  BY <1>1 DEF NoticesTypeOK, NoticeCall, Begun
<1>4. ASSUME handling' = [handling EXCEPT ![g].pc = "failed"]
      PROVE  NoticesInv'
  <2> DEFINE c == [old EXCEPT !.pc = "failed"]
  <2>1. handling' = [handling EXCEPT ![g] = c]
    BY <1>4
  <2>2. ToldSoFar(g)'
    BY <1>1, <2>1 DEF ToldSoFar, Told, NoticesTypeOK, NoticeCall
  <2> HIDE DEF c
  <2>3. /\ c \in NoticeCall
        /\ c.snapshot = old.snapshot /\ c.truck = old.truck /\ c.type = "Enter"
    BY <1>1, BegunIsCall DEF c, NoticeCall
  <2> QED BY <1>1, <2>1, <2>2, <2>3, LoopStep
<1>5. ASSUME handling' = [handling EXCEPT ![g].pc = "check", ![g].next = @ + 1,
                            ![g].told = Append(@, handling[g].next)]
      PROVE  NoticesInv'
  <2> DEFINE told == Append(old.told, old.next)
             c == [old EXCEPT !.pc = "check", !.next = @ + 1, !.told = told]
  <2>1. handling' = [handling EXCEPT ![g] = c]
    BY <1>5
  <2>2. /\ told \in Seq(Parcel) /\ DOMAIN told = 1..(Len(old.told) + 1)
        /\ \A i \in DOMAIN old.told : i \in DOMAIN told /\ told[i] = old.told[i]
        /\ told[Len(old.told) + 1] = old.next /\ DOMAIN old.told = 1..Len(old.told)
        /\ Len(old.told) \in Nat
    BY <1>2, <1>3, AppendProperties, LenProperties DEF Parcel
  <2>3. /\ c.pc = "check" /\ c.next = old.next + 1 /\ c.told = told /\ c.snapshot = old.snapshot
        /\ c.truck = old.truck /\ c.type = "Enter"
    BY <1>1 DEF NoticesTypeOK, NoticeCall, Begun
  <2>4. c \in NoticeCall
    <3>1. old \in NoticeCall /\ old.next + 1 \in 1..(Parcels + 1)
      BY <1>1, <1>2, BegunIsCall
    <3> HIDE DEF told, old
    <3> QED BY <2>2, <3>1 DEF NoticeCall
  <2>5. handling'[g] = c
    BY <2>1 DEF NoticesTypeOK
  <2> HIDE DEF c, told
  <2>6. ToldSoFar(g)'
    <3> HIDE DEF old
    <3>0. /\ \A i \in DOMAIN old.told : /\ old.told[i] < old.next
                                        /\ old.told[i] \in due[g].start \cup due[g].back
          /\ \A i, j \in DOMAIN old.told : i < j => old.told[i] < old.told[j]
          /\ \A d \in due[g].ever : d < old.next => \E i \in DOMAIN old.told : old.told[i] = d
      BY <1>1 DEF ToldSoFar, Told, old
    <3>1. \A i \in DOMAIN told : /\ told[i] < old.next + 1
                                /\ told[i] \in due[g].start \cup due[g].back
      <4>1. \A i \in DOMAIN old.told : old.told[i] \in Nat
        BY <1>3 DEF Parcel, old
      <4> QED BY <3>0, <1>2, <2>2, <4>1
    <3>2. \A i, j \in DOMAIN told : i < j => told[i] < told[j]
      <4> SUFFICES ASSUME NEW i \in DOMAIN told, NEW j \in DOMAIN told, i < j
                   PROVE  told[i] < told[j]
        OBVIOUS
      <4>1. /\ i \in DOMAIN old.told /\ told[i] = old.told[i]
            /\ j \in DOMAIN old.told \/ j = Len(old.told) + 1
        BY <2>2
      <4>2. CASE j \in DOMAIN old.told
        <5>1. told[j] = old.told[j]
          BY <2>2, <4>2
        <5> QED BY ONLY <3>0, <4>1, <4>2, <5>1, i < j
      <4>3. CASE j = Len(old.told) + 1
        <5>1. told[j] = old.next /\ old.told[i] < old.next
          BY <2>2, <3>0, <4>1, <4>3
        <5> QED BY ONLY <4>1, <5>1
      <4> QED BY <4>1, <4>2, <4>3
    <3>3. \A d \in due[g].ever : d < old.next + 1 => \E i \in DOMAIN told : told[i] = d
      <4> SUFFICES ASSUME NEW d \in due[g].ever, d < old.next + 1
                   PROVE  \E i \in DOMAIN told : told[i] = d
        OBVIOUS
      <4>1. d \in Nat /\ (d < old.next \/ d = old.next)
        BY <1>2, <1>3 DEF Parcel
      <4> QED BY <3>0, <2>2, <4>1
    <3> QED BY <1>1, <2>3, <2>5, <3>1, <3>2, <3>3 DEF ToldSoFar, Told
  <2> QED BY <1>1, <2>1, <2>3, <2>4, <2>6, LoopStep
<1> QED BY <1>4, <1>5 DEF Notify

LEMMA ReturnStep ==
  ASSUME NoticesInv, NEW g \in Handling, Return(g)
  PROVE  NoticesInv'
<1> USE NoticesAssumption DEF NoticesInv
<1> DEFINE c == [handling[g] EXCEPT !.pc = "done"]
<1>1. /\ Begun(g) /\ handling[g].type = "Enter" /\ ToldSoFar(g)
      /\ UNCHANGED <<parcel, carrier, active, due>> /\ handling' = [handling EXCEPT ![g] = c]
  BY DEF Return, Begun, LoopIsRight
<1>2. handling[g].next = Parcels + 1
  BY <1>1, BegunIsCall DEF Return, HasNext, NoticeCall, Parcel
<1>3. ToldSoFar(g)'
  BY <1>1, <1>2, BegunIsCall DEF ToldSoFar, Told, NoticesTypeOK, NoticeCall
<1> HIDE DEF c
<1>4. /\ c \in NoticeCall /\ c.type = "Enter"
      /\ c.snapshot = handling[g].snapshot /\ c.truck = handling[g].truck
  BY <1>1, BegunIsCall DEF c, NoticeCall
<1> QED BY <1>1, <1>3, <1>4, LoopStep

LEMMA OthersStep ==
  ASSUME NoticesInv, Others
  PROVE  NoticesInv'
<1> USE NoticesAssumption DEF NoticesInv
<1>1. /\ UNCHANGED <<carrier, handling>> /\ active' \subseteq Load
      /\ parcel' \in [Parcel -> [terminal : BOOLEAN, load : Load \cup {Unassigned}]]
      /\ due' = [h \in Handling |->
           [start |-> due[h].start, back |-> due[h].back \cup Comeback(h),
            ever |-> {d \in due[h].ever :
                        /\ ~parcel'[d].terminal /\ parcel'[d].load = parcel[d].load
                        /\ parcel[d].load \in active'}]]
  <2>1. CASE UNCHANGED active /\ \E d \in Parcel :
               \/ parcel' = [parcel EXCEPT ![d].terminal = TRUE]
               \/ \E a \in active \cup {Unassigned} : parcel' = [parcel EXCEPT ![d].load = a]
    <3>1. parcel' \in [Parcel -> [terminal : BOOLEAN, load : Load \cup {Unassigned}]]
      <4>1. PICK d \in Parcel : \/ parcel' = [parcel EXCEPT ![d].terminal = TRUE]
                               \/ \E a \in active \cup {Unassigned} :
                                    parcel' = [parcel EXCEPT ![d].load = a]
        BY <2>1
      <4>2. parcel \in [Parcel -> [terminal : BOOLEAN, load : Load \cup {Unassigned}]]
        BY DEF NoticesTypeOK
      <4>3. CASE parcel' = [parcel EXCEPT ![d].terminal = TRUE]
        BY <4>2, <4>3
      <4>4. ASSUME NEW a \in Load \cup {Unassigned}, parcel' = [parcel EXCEPT ![d].load = a]
            PROVE  parcel' \in [Parcel -> [terminal : BOOLEAN, load : Load \cup {Unassigned}]]
        BY <4>2, <4>4
      <4> QED BY <4>1, <4>3, <4>4 DEF NoticesTypeOK
    <3> QED BY <2>1, <3>1 DEF Others, NoticesTypeOK
  <2>2. CASE UNCHANGED parcel /\ \/ \E a \in active : active' = active \ {a}
                                 \/ \E a \in Load \ active : active' = active \cup {a}
    <3>1. active' \subseteq Load
      BY <2>2 DEF NoticesTypeOK
    <3>2. parcel' \in [Parcel -> [terminal : BOOLEAN, load : Load \cup {Unassigned}]]
      BY <2>2 DEF NoticesTypeOK
    <3> QED BY <3>1, <3>2 DEF Others
  <2> QED BY <2>1, <2>2 DEF Others
<1>2. \A h \in Handling :
        /\ due'[h].start = due[h].start /\ due'[h].back = due[h].back \cup Comeback(h)
        /\ due'[h].ever \subseteq due[h].ever
        /\ \A d \in due'[h].ever : ~parcel'[d].terminal /\ parcel'[d].load = parcel[d].load
                                     /\ parcel[d].load \in active'
  BY <1>1
<1>3. NoticesTypeOK'
  <2>1. \A h \in Handling : Comeback(h) \subseteq Parcel
    BY DEF Comeback
  <2>2. due' \in [Handling -> [start : SUBSET Parcel, ever : SUBSET Parcel, back : SUBSET Parcel]]
    BY <1>1, <2>1 DEF NoticesTypeOK
  <2> QED BY <1>1, <2>2 DEF NoticesTypeOK
<1>4. SnapshotHolds'
  <2> SUFFICES ASSUME NEW h \in Handling, Begun(h), NEW d \in Parcel
               PROVE  /\ SeenDue(handling[h], d)' => d \in due'[h].start \cup due'[h].back
                      /\ d \in due'[h].ever =>
                           parcel'[d] = handling[h].snapshot[d] /\ SeenDue(handling[h], d)'
    BY <1>1 DEF SnapshotHolds, Begun
  <2>1. SeenDue(handling[h], d)' => SeenDue(handling[h], d) \/ d \in Comeback(h)
    BY <1>1 DEF SeenDue, Comeback, Begun
  <2>2. ASSUME d \in due'[h].ever
        PROVE  parcel'[d] = handling[h].snapshot[d] /\ SeenDue(handling[h], d)'
    <3>1. parcel[d] = handling[h].snapshot[d] /\ SeenDue(handling[h], d)
      BY <1>2, <2>2 DEF SnapshotHolds
    <3>2. parcel'[d].terminal = parcel[d].terminal /\ parcel'[d].load = parcel[d].load
      BY <1>1, <1>2, <2>2, <3>1 DEF SeenDue, NoticesTypeOK
    <3>3. parcel'[d] = parcel[d]
      BY <1>1, <3>2 DEF NoticesTypeOK
    <3> QED BY <1>1, <1>2, <2>2, <3>1, <3>3 DEF SeenDue
  <2>3. SeenDue(handling[h], d)' => d \in due'[h].start \cup due'[h].back
    BY <1>2, <2>1 DEF SnapshotHolds
  <2> QED BY <2>2, <2>3
<1>5. LoopIsRight'
  <2> SUFFICES ASSUME NEW h \in Handling, Begun(h), handling[h].type = "Enter"
               PROVE  ToldSoFar(h)'
    BY <1>1 DEF LoopIsRight, Begun
  <2>1. ToldSoFar(h)
    BY DEF LoopIsRight
  <2>2. /\ due[h].start \cup due[h].back \subseteq due'[h].start \cup due'[h].back
        /\ due'[h].ever \subseteq due[h].ever
    BY <1>2
  <2> QED BY <1>1, <2>1, <2>2 DEF ToldSoFar, Told
<1> QED BY <1>3, <1>4, <1>5

LEMMA NoticesInvStep == NoticesInv /\ [NoticesNext]_noticeVars => NoticesInv'
<1> SUFFICES ASSUME NoticesInv, [NoticesNext]_noticeVars PROVE NoticesInv'
  OBVIOUS
<1>1. CASE UNCHANGED noticeVars
  BY <1>1 DEF noticeVars, NoticesInv, NoticesTypeOK, SnapshotHolds, SeenDue, LoopIsRight,
              ToldSoFar, Begun, Told
<1>2. CASE NoticesNext
  BY <1>2, ZoneEventStep, CheckStep, NotifyStep, ReturnStep, OthersStep DEF NoticesNext
<1> QED BY <1>1, <1>2

\* Whatever others change while a zone event is handled: only those whose
\* delivery was due when it came, or came back to the vehicle since, are told, in
\* order and once, and none of those who have been due ever since is left out
\* unless the notifier failed.
THEOREM NoticesCorrect == NoticesSpec => []NoticesSafe
<1>1. NoticesInv => NoticesSafe
  <2> SUFFICES ASSUME NoticesInv PROVE NoticesSafe
    OBVIOUS
  <2>1. OnlyTheDueAreTold
    BY DEF NoticesInv, LoopIsRight, OnlyTheDueAreTold, ToldSoFar, Told
  <2>2. TheDueAreTold
    <3> SUFFICES ASSUME NEW h \in Handling, handling[h].pc = "done",
                        handling[h].type = "Enter", NEW d \in due[h].ever
                 PROVE  d \in Told(h)
      BY DEF TheDueAreTold
    <3>1. Begun(h) /\ ToldSoFar(h) /\ d \in 1..Parcels
      BY DEF Begun, NoticesInv, LoopIsRight, NoticesTypeOK, Parcel
    <3> QED BY <3>1, NoticesAssumption DEF ToldSoFar
  <2>3. ToldOnceInOrder
    BY DEF NoticesInv, LoopIsRight, ToldOnceInOrder, ToldSoFar
  <2> QED BY <2>1, <2>2, <2>3 DEF NoticesSafe
<1>2. NoticesSpec => []NoticesInv
  BY NoticesInvInit, NoticesInvStep, PTL DEF NoticesSpec
<1> QED BY <1>1, <1>2, PTL

-----------------------------------------------------------------------------
(***************************************************************************)
(* Routes, for any number of deliveries, assignments and builds and for    *)
(* whatever the optimizer answers.  First the stops: those of the assigned *)
(* order, and those made of an answer that is accepted.                    *)
(***************************************************************************)

\* stops visit each delivery of ids at exactly one of them.
VisitsOnce(stops, ids) ==
  /\ stops \in Seq(SUBSET Nat)
  /\ \A d \in Range(ids) : \E i \in DOMAIN stops : d \in stops[i]
  /\ \A i, j \in DOMAIN stops : i # j => stops[i] \cap stops[j] = {}
  /\ \A i \in DOMAIN stops : stops[i] # {} /\ stops[i] \subseteq Range(ids)

LEMMA ListingIsASeq ==
  ASSUME NEW a
  PROVE  Listing(a) \in Seq(Nat) /\ IsInjective(Listing(a))
<1> DEFINE S == {d \in RDelivery : linkedTo[d] = a}
           n == Cardinality(S)
<1>1. S \in SUBSET Nat /\ IsFiniteSet(S)
  BY RoutesAssumption, FS_Subset
<1>2. /\ n \in Nat /\ InOrder(S) \in [1..n -> S]
      /\ \A i, j \in 1..n : i < j => InOrder(S)[i] < InOrder(S)[j]
  <2>1. S \in SUBSET Int
    BY <1>1
  <2> HIDE DEF S
  <2> QED BY <1>1, <2>1, InOrderIsNumbering
<1>3. Listing(a) = InOrder(S)
  BY DEF Listing
<1> HIDE DEF S, n
<1>4. Listing(a) \in Seq(Nat)
  <2>1. Listing(a) \in [1..n -> Nat]
    BY <1>1, <1>2, <1>3
  <2> QED BY <1>2, <2>1, SeqDef
<1>5. IsInjective(Listing(a))
  <2> SUFFICES ASSUME NEW i \in 1..n, NEW j \in 1..n, Listing(a)[i] = Listing(a)[j], i # j
               PROVE  FALSE
    BY <1>2, <1>3 DEF IsInjective
  <2>1. Listing(a)[i] \in Nat
    BY <1>1, <1>2, <1>3
  <2>2. i < j \/ j < i
    BY <1>2
  <2> QED BY <1>2, <1>3, <2>1, <2>2
<1> QED BY <1>4, <1>5

LEMMA AssignedOrderVisitsOnce ==
  ASSUME NEW ids \in Seq(Nat), IsInjective(ids)
  PROVE  VisitsOnce(AssignedOrderStops(ids), ids)
<1> DEFINE stops == AssignedOrderStops(ids)
<1>1. DOMAIN stops = 1..Len(ids) /\ \A i \in 1..Len(ids) : stops[i] = {ids[i]}
  BY DEF AssignedOrderStops
<1>2. stops \in Seq(SUBSET Nat)
  <2>1. stops \in [1..Len(ids) -> SUBSET Nat]
    BY DEF AssignedOrderStops
  <2> HIDE DEF stops
  <2> QED BY <2>1, SeqDef, LenProperties
<1>3. DOMAIN ids = 1..Len(ids) /\ Range(ids) = {ids[i] : i \in 1..Len(ids)}
  BY LenProperties DEF Range
<1> HIDE DEF stops
<1>4. \A d \in Range(ids) : \E i \in DOMAIN stops : d \in stops[i]
  BY <1>1, <1>3
<1>5. \A i, j \in DOMAIN stops : i # j => stops[i] \cap stops[j] = {}
  BY <1>1, <1>3 DEF IsInjective
<1>6. \A i \in DOMAIN stops : stops[i] # {} /\ stops[i] \subseteq Range(ids)
  BY <1>1, <1>3
<1>7. VisitsOnce(stops, ids)
  BY <1>2, <1>4, <1>5, <1>6 DEF VisitsOnce
<1> QED BY <1>7 DEF stops

\* An accepted sequence visits all.
LEMMA ExactCoverIsAll ==
  ASSUME NEW ids \in Seq(Nat), IsInjective(ids), NEW sequence \in Seq(Nat),
         IsExactCover(sequence, ids)
  PROVE  Range(sequence) = Range(ids)
<1> DEFINE n == Len(ids)
<1>1. /\ n \in Nat /\ DOMAIN ids = 1..n /\ DOMAIN sequence = 1..n
      /\ ids \in [1..n -> Nat] /\ sequence \in [1..n -> Nat]
      /\ IsInjective(sequence) /\ Range(sequence) \subseteq Range(ids)
  BY LenProperties DEF IsExactCover
<1> HIDE DEF n
<1>2. IsFiniteSet(1..n) /\ Cardinality(1..n) = n
  BY <1>1, FS_Interval
<1>3. ids \in Surjection(1..n, Range(ids)) /\ ids \in Injection(1..n, Range(ids))
  <2>1. ids \in [1..n -> Range(ids)]
    BY <1>1 DEF Range
  <2> QED BY <1>1, <2>1 DEF Surjection, Injection, Range, IsInjective
<1>4. IsFiniteSet(Range(ids)) /\ Cardinality(Range(ids)) = Cardinality(1..n)
  BY <1>2, <1>3, FS_Surjection
<1>5. sequence \in Injection(1..n, Range(ids))
  <2>1. sequence \in [1..n -> Range(ids)]
    BY <1>1 DEF Range
  <2> QED BY <1>1, <2>1 DEF Injection, IsInjective
<1>6. sequence \in Surjection(1..n, Range(ids))
  BY <1>2, <1>4, <1>5, FS_Injection
<1> QED BY <1>1, <1>6 DEF Surjection, Range

\* The stops of an accepted answer, whatever its groups are: two keys never
\* share a delivery, and the first visit of each key makes the stop.
LEMMA OptimizedVisitsOnce ==
  ASSUME NEW ids \in Seq(Nat), IsInjective(ids), NEW sequence \in Seq(Nat),
         IsExactCover(sequence, ids), NEW groups
  PROVE  VisitsOnce(OptimizedStops(sequence, groups, ids), ids)
<1> DEFINE visits  == {i \in DOMAIN sequence : sequence[i] \in Range(ids)}
           key(i)  == GroupKeyOf(sequence[i], groups, ids)
           first   == {i \in visits : \A j \in visits : key(j) = key(i) => i <= j}
           stop(i) == {sequence[j] : j \in {k \in visits : key(k) = key(i)}}
           order   == InOrder(first)
           stops   == OptimizedStops(sequence, groups, ids)
           count   == Cardinality(first)
<1>1. stops = [n \in DOMAIN order |-> stop(order[n])]
  BY DEF OptimizedStops
<1>2. /\ DOMAIN sequence = 1..Len(sequence) /\ Len(sequence) \in Nat
      /\ sequence \in [1..Len(sequence) -> Nat]
  BY LenProperties
<1>3. visits \in SUBSET (1..Len(sequence)) /\ visits \in SUBSET Nat
  BY <1>2
<1>4. first \in SUBSET visits /\ first \in SUBSET Nat /\ IsFiniteSet(first)
  <2>1. first \in SUBSET visits
    <3> HIDE DEF visits, key
    <3> QED OBVIOUS
  <2> HIDE DEF first, visits
  <2>2. IsFiniteSet(1..Len(sequence))
    BY <1>2, FS_Interval
  <2>3. first \in SUBSET (1..Len(sequence)) /\ first \in SUBSET Nat
    BY <1>3, <2>1
  <2>4. IsFiniteSet(first)
    BY <2>2, <2>3, FS_Subset
  <2> QED BY <2>1, <2>3, <2>4
<1>5. /\ count \in Nat /\ order \in [1..count -> first]
      /\ \A i, j \in 1..count : i < j => order[i] < order[j]
      /\ \A x \in first : \E i \in 1..count : order[i] = x
  <2> HIDE DEF first
  <2> QED BY <1>4, InOrderIsNumbering
<1>6. \A i, j \in visits : sequence[i] = sequence[j] => i = j
  BY DEF IsExactCover, IsInjective
<1>7. Range(sequence) = Range(ids)
  BY ExactCoverIsAll
<1>8. \A i \in first : sequence[i] \in stop(i) /\ stop(i) \subseteq Range(ids)
  OBVIOUS
<1>9. ASSUME NEW i \in visits
      PROVE  \E m \in first : sequence[i] \in stop(m)
  <2> DEFINE C == {j \in visits : key(j) = key(i)}
  <2> HIDE DEF key
  <2>1. PICK m \in C : \A x \in C : m <= x
    <3>1. C \in SUBSET Nat /\ C # {}
      BY <1>3
    <3> HIDE DEF C
    <3> QED BY <3>1, LeastExists
  <2>2. m \in first /\ sequence[i] \in stop(m)
    BY <2>1
  <2> QED BY <2>2
<1>10. ASSUME NEW a \in first, NEW b \in first, a # b
       PROVE  stop(a) \cap stop(b) = {}
  <2> HIDE DEF key
  <2>1. key(a) # key(b)
    <3>1. ASSUME key(a) = key(b) PROVE FALSE
      <4>1. a <= b /\ b <= a /\ a \in Nat /\ b \in Nat
        BY <1>4, <3>1
      <4> QED BY <4>1, <1>10
    <3> QED BY <3>1
  <2>2. ASSUME NEW x \in stop(a), x \in stop(b) PROVE FALSE
    <3>1. PICK j \in visits : key(j) = key(a) /\ sequence[j] = x
      OBVIOUS
    <3>2. PICK k \in visits : key(k) = key(b) /\ sequence[k] = x
      BY <2>2
    <3> QED BY <1>6, <2>1, <3>1, <3>2
  <2> QED BY <2>2
<1>11. \A i \in first : stop(i) \in SUBSET Nat
  BY <1>2
<1> HIDE DEF visits, first, stop, order, stops, count, key
<1>12. /\ DOMAIN stops = 1..count
       /\ \A i \in 1..count : stops[i] = stop(order[i]) /\ order[i] \in first
  BY <1>1, <1>5
<1>13. stops \in Seq(SUBSET Nat)
  <2>1. stops \in [1..count -> SUBSET Nat]
    BY <1>1, <1>5, <1>11, <1>12
  <2> QED BY <1>5, <2>1, SeqDef
<1>14. \A d \in Range(ids) : \E i \in DOMAIN stops : d \in stops[i]
  <2> SUFFICES ASSUME NEW d \in Range(ids) PROVE \E i \in DOMAIN stops : d \in stops[i]
    OBVIOUS
  <2>1. PICK j \in visits : sequence[j] = d
    BY <1>7 DEF Range, visits
  <2>2. PICK m \in first : d \in stop(m)
    BY <1>9, <2>1
  <2>3. PICK i \in 1..count : order[i] = m
    BY <1>5
  <2> QED BY <1>12, <2>2, <2>3
<1>15. \A i, j \in DOMAIN stops : i # j => stops[i] \cap stops[j] = {}
  <2> SUFFICES ASSUME NEW i \in 1..count, NEW j \in 1..count, i # j
               PROVE  stops[i] \cap stops[j] = {}
    BY <1>12
  <2>1. order[i] # order[j]
    <3>1. i < j \/ j < i
      BY <1>5
    <3>2. order[i] \in Nat /\ order[j] \in Nat
      BY <1>4, <1>12
    <3>3. order[i] < order[j] \/ order[j] < order[i]
      BY <1>5, <3>1
    <3> QED BY <3>2, <3>3
  <2> QED BY <1>10, <1>12, <2>1
<1>16. \A i \in DOMAIN stops : stops[i] # {} /\ stops[i] \subseteq Range(ids)
  BY <1>8, <1>12
<1>17. VisitsOnce(stops, ids)
  BY <1>13, <1>14, <1>15, <1>16 DEF VisitsOnce
<1> QED BY <1>17 DEF stops

-----------------------------------------------------------------------------
(***************************************************************************)
(* The inductive invariant of the builds: every build holds a plan of the  *)
(* deliveries it listed, and while the builds of an assignment do not      *)
(* overlap the one that runs is ahead of what is stored.                   *)
(***************************************************************************)

StopList == [stops : Seq(SUBSET Nat), optimized : BOOLEAN]
RunningBuild ==
  [pc : {"locate", "optimize", "read", "upsert", "publish"}, assignment : RAssignment,
   ids : Seq(Nat), number : Nat, id : Nat, built : StopList, overLimit : BOOLEAN]
SavedRoute ==
  [id : Nat, stops : Seq(SUBSET Nat), optimized : BOOLEAN, of : Seq(Nat), listing : Nat,
   overLimit : BOOLEAN]

RoutesTypeOK ==
  /\ routes \in [RAssignment -> {NoRouteYet} \cup SavedRoute]
  /\ shownRoute \in [RAssignment -> {NoRouteYet} \cup SavedRoute]
  /\ builds \in [Build -> {Idle} \cup RunningBuild]
  /\ started \in Nat /\ clean \in [RAssignment -> BOOLEAN]

\* The stops are a plan of the deliveries of ids.
IsPlan(list, ids, overLimit) ==
  /\ VisitsOnce(list.stops, ids)
  /\ ~list.optimized => list.stops = AssignedOrderStops(ids)
  /\ overLimit => ~list.optimized

BuildHasPlan(b) ==
  /\ IsInjective(b.ids) /\ IsPlan(b.built, b.ids, b.overLimit)
  /\ b.overLimit <=> Len(b.ids) > MaxStops
  /\ b.pc \in {"locate", "optimize"} => ~b.overLimit

BuildsHavePlans ==
  \A c \in Build : builds[c].pc # "idle" =>
    BuildHasPlan(builds[c]) /\ builds[c].number <= started
RoutesArePlans ==
  \A a \in RAssignment : routes[a] # NoRouteYet =>
    IsPlan(routes[a], routes[a].of, routes[a].overLimit) /\ routes[a].listing <= started

\* The build b of an assignment is the only one, and is ahead of what is stored.
RunsAhead(a, b) ==
  /\ b.pc # "publish" =>
       /\ shownRoute[a] = routes[a]
       /\ routes[a] # NoRouteYet => b.number > routes[a].listing
  /\ b.pc = "upsert" /\ routes[a] # NoRouteYet => b.id = routes[a].id
  /\ b.pc = "publish" => routes[a] = Saved(b)
CleanBuilds ==
  \A a \in RAssignment : clean[a] =>
    /\ Running(a) = {} => shownRoute[a] = routes[a]
    /\ \A c \in Running(a) : (\A e \in Running(a) : e = c) /\ RunsAhead(a, builds[c])

RoutesInv == RoutesTypeOK /\ BuildsHavePlans /\ RoutesArePlans /\ CleanBuilds

LEMMA UnoptimizedIsPlan ==
  ASSUME NEW ids \in Seq(Nat), IsInjective(ids)
  PROVE  Unoptimized(ids) \in StopList /\ IsPlan(Unoptimized(ids), ids, Len(ids) > MaxStops)
<1>1. Len(ids) > MaxStops => ~(Len(ids) < MinStops)
  BY RoutesAssumption, LenProperties
<1>2. VisitsOnce(AssignedOrderStops(ids), ids)
  BY AssignedOrderVisitsOnce
<1>3. AssignedOrderStops(ids) \in Seq(SUBSET Nat)
  BY <1>2 DEF VisitsOnce
<1>4. Unoptimized(ids) = [stops |-> AssignedOrderStops(ids), optimized |-> Len(ids) < MinStops]
  BY DEF Unoptimized
<1>5. (Len(ids) < MinStops) \in BOOLEAN
  OBVIOUS
<1>6. Unoptimized(ids) \in StopList
  BY <1>3, <1>4, <1>5 DEF StopList
<1>7. /\ Unoptimized(ids).stops = AssignedOrderStops(ids)
      /\ Unoptimized(ids).optimized = (Len(ids) < MinStops)
  BY <1>4
<1> QED BY <1>1, <1>2, <1>6, <1>7 DEF IsPlan

\* Whatever the optimizer answers to a build within its limit, what is made of
\* it is a plan.
LEMMA AnswerGivesPlan ==
  ASSUME NEW ids \in Seq(Nat), IsInjective(ids), NEW given \in Answer,
         ~(Len(ids) > MaxStops)
  PROVE  FromAnswer(given, ids) \in StopList /\ IsPlan(FromAnswer(given, ids), ids, FALSE)
<1>1. CASE IsExactCover(given.sequence, ids)
  <2>1. VisitsOnce(OptimizedStops(given.sequence, given.groups, ids), ids)
    BY <1>1, RoutesAssumption, OptimizedVisitsOnce
  <2> QED BY <1>1, <2>1 DEF FromAnswer, StopList, IsPlan, VisitsOnce
<1>2. CASE ~IsExactCover(given.sequence, ids)
  BY <1>2, UnoptimizedIsPlan DEF FromAnswer, IsPlan
<1> QED BY <1>1, <1>2

\* A step of the build c on its way to the upsert.
LEMMA BuildGoesOn ==
  ASSUME RoutesInv, NEW c \in Build, builds[c].pc \in {"locate", "optimize", "read"},
         NEW b \in RunningBuild, b.pc \in {"optimize", "read", "upsert"},
         b.assignment = builds[c].assignment, b.number = builds[c].number, BuildHasPlan(b),
         b.pc = "upsert" /\ routes[b.assignment] # NoRouteYet => b.id = routes[b.assignment].id,
         builds' = [builds EXCEPT ![c] = b],
         UNCHANGED <<routes, shownRoute, started, clean>>
  PROVE  RoutesInv'
<1> USE DEF RoutesInv
<1>1. builds'[c] = b /\ \A e \in Build : e # c => builds'[e] = builds[e]
  BY DEF RoutesTypeOK
<1>2. b.pc # "idle" /\ builds[c].pc # "idle"
  OBVIOUS
<1>3. RoutesTypeOK'
  BY DEF RoutesTypeOK
<1>4. BuildsHavePlans'
  BY <1>1 DEF BuildsHavePlans, BuildHasPlan
<1>5. RoutesArePlans'
  BY DEF RoutesArePlans
<1>6. \A a \in RAssignment : Running(a)' = Running(a)
  BY <1>1, <1>2 DEF Running
<1>7. \A a \in RAssignment : clean[a] /\ c \in Running(a) => RunsAhead(a, builds[c])
  BY DEF CleanBuilds
<1>8. \A a \in RAssignment : clean[a] /\ c \in Running(a) => RunsAhead(a, b)
  BY <1>7 DEF RunsAhead, Running
<1>9. CleanBuilds'
  <2> SUFFICES ASSUME NEW a \in RAssignment, clean[a]
               PROVE  /\ Running(a) = {} => shownRoute[a] = routes[a]
                      /\ \A e \in Running(a) : (\A k \in Running(a) : k = e)
                                                 /\ RunsAhead(a, builds[e])'
    BY <1>6 DEF CleanBuilds
  <2>1. /\ Running(a) = {} => shownRoute[a] = routes[a]
        /\ \A e \in Running(a) : (\A k \in Running(a) : k = e) /\ RunsAhead(a, builds[e])
    BY DEF CleanBuilds
  <2>2. ASSUME NEW e \in Running(a) PROVE RunsAhead(a, builds[e])'
    <3>1. e \in Build
      BY DEF Running
    <3>2. RunsAhead(a, builds'[e])
      BY <1>1, <1>8, <2>1, <3>1
    <3> HIDE DEF RoutesInv
    <3> QED BY <3>2 DEF RunsAhead, Saved
  <2> QED BY <2>1, <2>2
<1> QED BY <1>3, <1>4, <1>5, <1>9

LEMMA BuildIsRunning ==
  ASSUME RoutesInv, NEW c \in Build, builds[c].pc # "idle"
  PROVE  /\ builds[c] \in RunningBuild /\ BuildHasPlan(builds[c])
         /\ builds[c].number <= started
         /\ builds[c].assignment \in RAssignment /\ c \in Running(builds[c].assignment)
<1>1. builds[c] \in RunningBuild
  BY DEF RoutesInv, RoutesTypeOK, Idle
<1> QED BY <1>1 DEF RoutesInv, BuildsHavePlans, Running, RunningBuild

LEMMA LocateStep == ASSUME RoutesInv, NEW c \in Build, Locate(c) PROVE RoutesInv'
<1>1. PICK p \in {"optimize", "read"} : builds' = [builds EXCEPT ![c].pc = p]
  BY DEF Locate
<1> DEFINE b == [builds[c] EXCEPT !.pc = p]
<1>2. builds[c].pc = "locate" /\ builds[c] \in RunningBuild /\ BuildHasPlan(builds[c])
  BY BuildIsRunning DEF Locate
<1>3. b \in RunningBuild /\ b.pc = p /\ b.assignment = builds[c].assignment
      /\ b.number = builds[c].number /\ b.ids = builds[c].ids /\ b.built = builds[c].built
      /\ b.overLimit = builds[c].overLimit
  BY <1>2 DEF RunningBuild
<1>4. BuildHasPlan(b)
  BY <1>2, <1>3 DEF BuildHasPlan
<1>5. builds' = [builds EXCEPT ![c] = b]
  BY <1>1
<1> QED BY <1>2, <1>3, <1>4, <1>5, BuildGoesOn DEF Locate

LEMMA AnsweredStep == ASSUME RoutesInv, NEW c \in Build, Answered(c) PROVE RoutesInv'
<1>1. PICK given \in Answer :
        builds' = [builds EXCEPT ![c].pc = "read",
                                 ![c].built = FromAnswer(given, builds[c].ids)]
  BY DEF Answered
<1> DEFINE b == [builds[c] EXCEPT !.pc = "read", !.built = FromAnswer(given, builds[c].ids)]
<1>2. builds[c].pc = "optimize" /\ builds[c] \in RunningBuild /\ BuildHasPlan(builds[c])
  BY BuildIsRunning DEF Answered
<1>3. builds[c].ids \in Seq(Nat) /\ IsInjective(builds[c].ids) /\ ~builds[c].overLimit
  BY <1>2 DEF BuildHasPlan, RunningBuild
<1>4. /\ FromAnswer(given, builds[c].ids) \in StopList
      /\ IsPlan(FromAnswer(given, builds[c].ids), builds[c].ids, FALSE)
  BY <1>2, <1>3, AnswerGivesPlan DEF BuildHasPlan
<1>5. /\ b \in RunningBuild /\ b.pc = "read" /\ b.assignment = builds[c].assignment
      /\ b.number = builds[c].number /\ b.ids = builds[c].ids
      /\ b.built = FromAnswer(given, builds[c].ids) /\ b.overLimit = builds[c].overLimit
  BY <1>2, <1>4 DEF RunningBuild
<1>6. BuildHasPlan(b)
  BY <1>2, <1>3, <1>4, <1>5 DEF BuildHasPlan, IsPlan
<1>7. builds' = [builds EXCEPT ![c] = b]
  BY <1>1
<1> QED BY <1>2, <1>5, <1>6, <1>7, BuildGoesOn DEF Answered

LEMMA FailedStep == ASSUME RoutesInv, NEW c \in Build, FailedOrTimedOut(c) PROVE RoutesInv'
<1> DEFINE b == [builds[c] EXCEPT !.pc = "read"]
<1>1. builds[c].pc = "optimize" /\ builds[c] \in RunningBuild /\ BuildHasPlan(builds[c])
  BY BuildIsRunning DEF FailedOrTimedOut
<1>2. /\ b \in RunningBuild /\ b.pc = "read" /\ b.assignment = builds[c].assignment
      /\ b.number = builds[c].number /\ b.ids = builds[c].ids /\ b.built = builds[c].built
      /\ b.overLimit = builds[c].overLimit
  BY <1>1 DEF RunningBuild
<1>3. BuildHasPlan(b)
  BY <1>1, <1>2 DEF BuildHasPlan
<1> QED BY <1>1, <1>2, <1>3, BuildGoesOn DEF FailedOrTimedOut

LEMMA ReadStep == ASSUME RoutesInv, NEW c \in Build, Read(c) PROVE RoutesInv'
<1> DEFINE old == routes[builds[c].assignment]
           b   == [builds[c] EXCEPT !.pc = "upsert", !.id = IF old = NoRouteYet THEN @ ELSE old.id]
<1>1. /\ builds[c].pc = "read" /\ builds[c] \in RunningBuild /\ BuildHasPlan(builds[c])
      /\ builds[c].assignment \in RAssignment
  BY BuildIsRunning DEF Read
<1>2. old \in {NoRouteYet} \cup SavedRoute
  BY <1>1 DEF RoutesInv, RoutesTypeOK
<1>3. old # NoRouteYet => old.id \in Nat
  BY <1>2 DEF SavedRoute
<1>4. /\ b \in RunningBuild /\ b.pc = "upsert" /\ b.assignment = builds[c].assignment
      /\ b.number = builds[c].number /\ b.ids = builds[c].ids /\ b.built = builds[c].built
      /\ b.overLimit = builds[c].overLimit
      /\ old # NoRouteYet => b.id = old.id
  BY <1>1, <1>3 DEF RunningBuild
<1>5. BuildHasPlan(b)
  BY <1>1, <1>4 DEF BuildHasPlan
<1>6. builds' = [builds EXCEPT ![c] = b]
  BY DEF Read
<1>7. UNCHANGED <<routes, shownRoute, started, clean>>
  BY DEF Read
<1>8. b.pc = "upsert" /\ routes[b.assignment] # NoRouteYet => b.id = routes[b.assignment].id
  BY <1>4
<1> HIDE DEF b
<1> QED BY <1>1, <1>4, <1>5, <1>6, <1>7, <1>8, BuildGoesOn

LEMMA StartStep ==
  ASSUME RoutesInv, NEW c \in Build, NEW a \in RAssignment, Start(c, a)
  PROVE  RoutesInv'
<1> DEFINE ids == Listing(a)
           b   == builds'[c]
<1>1. ids \in Seq(Nat) /\ IsInjective(ids)
  BY ListingIsASeq
<1>2. Unoptimized(ids) \in StopList /\ IsPlan(Unoptimized(ids), ids, Len(ids) > MaxStops)
  BY <1>1, UnoptimizedIsPlan
<1>3. /\ b = [pc |-> IF Len(ids) \in MinStops..MaxStops THEN "locate" ELSE "read",
              assignment |-> a, ids |-> ids, number |-> started', id |-> started',
              built |-> Unoptimized(ids), overLimit |-> Len(ids) > MaxStops]
      /\ \A e \in Build : e # c => builds'[e] = builds[e]
  BY DEF Start, RoutesInv, RoutesTypeOK
<1>4. /\ started' = started + 1 /\ started \in Nat /\ UNCHANGED <<routes, shownRoute>>
      /\ clean' = [clean EXCEPT ![a] = @ /\ Running(a) = {}] /\ builds[c].pc = "idle"
      /\ clean \in [RAssignment -> BOOLEAN] /\ Len(ids) \in Nat
  BY <1>1, LenProperties DEF Start, RoutesInv, RoutesTypeOK
<1> HIDE DEF ids
<1>5. /\ b.pc \in {"locate", "read"} /\ b.assignment = a /\ b.ids = ids /\ b.number = started + 1
      /\ b.id = started + 1 /\ b.built = Unoptimized(ids) /\ b.overLimit = (Len(ids) > MaxStops)
      /\ b \in RunningBuild /\ (b.pc = "locate" => ~b.overLimit)
  <2> DEFINE stage == IF Len(ids) \in MinStops..MaxStops THEN "locate" ELSE "read"
             over  == Len(ids) > MaxStops
  <2>1. stage \in {"locate", "read"} /\ over \in BOOLEAN /\ (stage = "locate" => ~over)
    BY <1>4, RoutesAssumption
  <2>2. b = [pc |-> stage, assignment |-> a, ids |-> ids, number |-> started + 1,
             id |-> started + 1, built |-> Unoptimized(ids), overLimit |-> over]
    BY <1>3, <1>4
  <2> HIDE DEF stage, over, b
  <2>3. b \in RunningBuild
    BY <1>1, <1>2, <1>4, <2>1, <2>2 DEF RunningBuild
  <2>4. /\ b.pc = stage /\ b.assignment = a /\ b.ids = ids /\ b.number = started + 1
        /\ b.id = started + 1 /\ b.built = Unoptimized(ids) /\ b.overLimit = over
    BY <2>2
  <2> QED BY <2>1, <2>3, <2>4 DEF over
<1>6. BuildHasPlan(b)
  BY <1>1, <1>2, <1>4, <1>5 DEF BuildHasPlan
<1>7. builds' \in [Build -> {Idle} \cup RunningBuild]
  BY <1>5 DEF Start, RoutesInv, RoutesTypeOK
<1>8. RoutesTypeOK'
  BY <1>4, <1>7 DEF RoutesTypeOK, RoutesInv
<1>9. BuildsHavePlans'
  <2> SUFFICES ASSUME NEW e \in Build, builds'[e].pc # "idle"
               PROVE  BuildHasPlan(builds'[e]) /\ builds'[e].number <= started'
    BY DEF BuildsHavePlans, BuildHasPlan
  <2>1. CASE e # c
    <3>1. builds[e] \in RunningBuild /\ BuildHasPlan(builds[e]) /\ builds[e].number <= started
      BY <1>3, <2>1, BuildIsRunning
    <3>2. builds[e].number \in Nat
      BY <3>1 DEF RunningBuild
    <3> QED BY <1>3, <1>4, <2>1, <3>1, <3>2
  <2> QED BY <1>4, <1>5, <1>6, <2>1
<1>10. \A x \in RAssignment : routes[x] # NoRouteYet => routes[x].listing \in 0..started
  BY DEF RoutesInv, RoutesTypeOK, RoutesArePlans, SavedRoute
<1>11. RoutesArePlans'
  BY <1>4, <1>10 DEF RoutesArePlans, RoutesInv
<1>12. CleanBuilds'
  <2> SUFFICES ASSUME NEW x \in RAssignment, clean'[x]
               PROVE  /\ Running(x)' = {} => shownRoute[x] = routes[x]
                      /\ \A e \in Running(x)' : (\A k \in Running(x)' : k = e)
                                                  /\ RunsAhead(x, builds[e])'
    BY <1>4 DEF CleanBuilds
  <2>1. CASE x # a
    <3>1. clean[x] /\ Running(x)' = Running(x) /\ c \notin Running(x)
      BY <1>3, <1>4, <1>5, <2>1 DEF Running
    <3>2. Running(x) \subseteq Build
      BY DEF Running
    <3> QED BY <1>3, <1>4, <3>1, <3>2 DEF CleanBuilds, RoutesInv, RunsAhead, Saved
  <2>2. CASE x = a
    <3>0. clean[x] /\ Running(x) = {}
      BY <1>4, <2>2
    <3>1. clean[x] /\ Running(x) = {} /\ Running(x)' = {c}
      <4>1. c \in Running(x)'
        BY <1>5, <2>2 DEF Running
      <4>2. ASSUME NEW e \in Running(x)', e # c PROVE FALSE
        <5>1. e \in Build /\ builds'[e] = builds[e]
          BY <1>3, <4>2 DEF Running
        <5> QED BY <3>0, <5>1 DEF Running
      <4> QED BY <3>0, <4>1, <4>2
    <3>2. shownRoute[x] = routes[x]
      BY <3>1 DEF CleanBuilds, RoutesInv
    <3> QED BY <1>4, <1>5, <1>10, <3>1, <3>2 DEF RunsAhead
  <2> QED BY <2>1, <2>2
<1> QED BY <1>8, <1>9, <1>11, <1>12 DEF RoutesInv

LEMMA UpsertStep == ASSUME RoutesInv, NEW c \in Build, Upsert(c) PROVE RoutesInv'
<1> DEFINE a == builds[c].assignment
           b == builds'[c]
<1>1. /\ builds[c].pc = "upsert" /\ builds[c] \in RunningBuild /\ BuildHasPlan(builds[c])
      /\ a \in RAssignment /\ c \in Running(a) /\ builds[c].number <= started
  BY BuildIsRunning DEF Upsert
<1>2. /\ b = [builds[c] EXCEPT !.pc = "publish"]
      /\ \A e \in Build : e # c => builds'[e] = builds[e]
  BY DEF Upsert, RoutesInv, RoutesTypeOK
<1>3. /\ b \in RunningBuild /\ b.pc = "publish" /\ b.assignment = a /\ BuildHasPlan(b)
      /\ Saved(b) = Saved(builds[c]) /\ b.number = builds[c].number /\ b.number <= started
  BY <1>1, <1>2 DEF RunningBuild, BuildHasPlan, Saved
<1>4. UNCHANGED <<shownRoute, started, clean>>
  BY DEF Upsert
<1>5. Saved(b) \in SavedRoute
  BY <1>3 DEF Saved, SavedRoute, RunningBuild, StopList
<1>6. /\ routes'[a] = Saved(b)
      /\ \A x \in RAssignment : x # a => routes'[x] = routes[x]
  BY <1>1, <1>3 DEF Upsert, RoutesInv, RoutesTypeOK
<1>7. RoutesTypeOK'
  BY <1>1, <1>3, <1>4, <1>5 DEF Upsert, RoutesInv, RoutesTypeOK
<1> HIDE DEF a, b
<1>8. BuildsHavePlans'
  <2> SUFFICES ASSUME NEW e \in Build, builds'[e].pc # "idle"
               PROVE  BuildHasPlan(builds'[e]) /\ builds'[e].number <= started
    BY <1>4 DEF BuildsHavePlans, BuildHasPlan
  <2> QED BY <1>2, <1>3 DEF RoutesInv, BuildsHavePlans, b
<1>9. RoutesArePlans'
  <2>1. IsPlan(Saved(b), Saved(b).of, Saved(b).overLimit) /\ Saved(b).listing <= started
    BY <1>3 DEF BuildHasPlan, IsPlan, Saved
  <2> SUFFICES ASSUME NEW x \in RAssignment, routes'[x] # NoRouteYet
               PROVE  /\ IsPlan(routes'[x], routes'[x].of, routes'[x].overLimit)
                      /\ routes'[x].listing <= started
    BY <1>4 DEF RoutesArePlans, IsPlan
  <2>2. CASE x = a
    BY <1>6, <2>1, <2>2
  <2>3. CASE x # a
    BY <1>6, <2>3 DEF RoutesInv, RoutesArePlans
  <2> QED BY <2>2, <2>3
<1>10. \A x \in RAssignment : Running(x)' = Running(x)
  <2> SUFFICES ASSUME NEW x \in RAssignment, NEW e \in Build
               PROVE  builds'[e].pc # "idle" /\ builds'[e].assignment = x
                        <=> builds[e].pc # "idle" /\ builds[e].assignment = x
    BY DEF Running
  <2>1. CASE e = c
    BY <1>1, <1>3, <2>1 DEF a, b
  <2>2. CASE e # c
    BY <1>2, <2>2
  <2> QED BY <2>1, <2>2
<1>11. CleanBuilds'
  <2> SUFFICES ASSUME NEW x \in RAssignment, clean[x]
               PROVE  /\ Running(x) = {} => shownRoute[x] = routes'[x]
                      /\ \A e \in Running(x) : (\A k \in Running(x) : k = e)
                                                 /\ RunsAhead(x, builds[e])'
    BY <1>4, <1>10 DEF CleanBuilds
  <2>1. CASE x # a
    <3>1. c \notin Running(x) /\ Running(x) \subseteq Build
      BY <2>1 DEF Running, a
    <3> QED BY <1>2, <1>4, <1>6, <2>1, <3>1 DEF CleanBuilds, RoutesInv, RunsAhead, Saved
  <2>2. CASE x = a
    <3>1. \A e \in Running(x) : e = c
      BY <1>1, <2>2 DEF CleanBuilds, RoutesInv, a
    <3> QED BY <1>1, <1>3, <1>6, <2>2, <3>1 DEF CleanBuilds, RoutesInv, RunsAhead, a, b
  <2> QED BY <2>1, <2>2
<1> QED BY <1>7, <1>8, <1>9, <1>11 DEF RoutesInv

LEMMA PublishStep == ASSUME RoutesInv, NEW c \in Build, Publish(c) PROVE RoutesInv'
<1> DEFINE a == builds[c].assignment
<1>1. /\ builds[c].pc = "publish" /\ builds[c] \in RunningBuild /\ a \in RAssignment
      /\ c \in Running(a)
  BY BuildIsRunning DEF Publish
<1>2. /\ builds'[c] = Idle /\ \A e \in Build : e # c => builds'[e] = builds[e]
      /\ builds' \in [Build -> {Idle} \cup RunningBuild]
  BY DEF Publish, RoutesInv, RoutesTypeOK
<1>3. /\ UNCHANGED <<routes, started>>
      /\ \/ shownRoute' = [shownRoute EXCEPT ![a] = Saved(builds[c])] /\ clean' = clean
         \/ clean' = [clean EXCEPT ![a] = FALSE] /\ shownRoute' = shownRoute
  BY DEF Publish
<1>4. Saved(builds[c]) \in SavedRoute
  BY <1>1 DEF Saved, SavedRoute, RunningBuild, StopList
<1>5. RoutesTypeOK'
  BY <1>1, <1>2, <1>3, <1>4 DEF RoutesInv, RoutesTypeOK
<1>6. BuildsHavePlans'
  BY <1>2, <1>3 DEF RoutesInv, BuildsHavePlans, BuildHasPlan, Idle
<1>7. RoutesArePlans'
  BY <1>3 DEF RoutesInv, RoutesArePlans
<1>8. CleanBuilds'
  <2> SUFFICES ASSUME NEW x \in RAssignment, clean'[x]
               PROVE  /\ Running(x)' = {} => shownRoute'[x] = routes[x]
                      /\ \A e \in Running(x)' : (\A k \in Running(x)' : k = e)
                                                  /\ RunsAhead(x, builds[e])'
    BY <1>3 DEF CleanBuilds
  <2> HIDE DEF a
  <2>1. CASE x # a
    <3>1. clean[x] /\ shownRoute'[x] = shownRoute[x]
      BY <1>1, <1>3, <2>1 DEF RoutesInv, RoutesTypeOK
    <3>2. Running(x)' = Running(x) /\ c \notin Running(x) /\ Running(x) \subseteq Build
      BY <1>2, <2>1 DEF Running, Idle, a
    <3> QED BY <1>2, <1>3, <3>1, <3>2 DEF CleanBuilds, RoutesInv, RunsAhead, Saved
  <2>2. CASE x = a
    <3>1. clean[x] /\ shownRoute'[x] = Saved(builds[c])
      BY <1>1, <1>3, <2>2 DEF RoutesInv, RoutesTypeOK
    <3>2. (\A e \in Running(x) : e = c) /\ routes[x] = Saved(builds[c])
      BY <1>1, <2>2, <3>1 DEF RoutesInv, CleanBuilds, RunsAhead
    <3>3. Running(x)' = {}
      BY <1>2, <3>2 DEF Running, Idle
    <3> QED BY <3>1, <3>2, <3>3
  <2> QED BY <2>1, <2>2
<1> QED BY <1>5, <1>6, <1>7, <1>8 DEF RoutesInv

LEMMA RoutesInvInit == RoutesInit => RoutesInv
BY DEF RoutesInit, RoutesInv, RoutesTypeOK, BuildsHavePlans, RoutesArePlans, CleanBuilds, Running,
       Idle

LEMMA RoutesInvStep == RoutesInv /\ [RoutesNext]_routeVars => RoutesInv'
<1> SUFFICES ASSUME RoutesInv, [RoutesNext]_routeVars PROVE RoutesInv'
  OBVIOUS
<1>1. CASE UNCHANGED <<routes, builds, shownRoute, started, clean>>
  BY <1>1 DEF RoutesInv, RoutesTypeOK, BuildsHavePlans, BuildHasPlan, RoutesArePlans, CleanBuilds,
              Running, RunsAhead
<1>2. ASSUME NEW c \in Build,
             \/ \E a \in RAssignment : Start(c, a)
             \/ Locate(c) \/ Answered(c) \/ FailedOrTimedOut(c)
             \/ Read(c) \/ Upsert(c) \/ Publish(c)
      PROVE  RoutesInv'
  BY <1>2, StartStep, LocateStep, AnsweredStep, FailedStep, ReadStep, UpsertStep, PublishStep
<1> QED BY <1>1, <1>2 DEF RoutesNext, Relink, routeVars

\* Whatever the optimizer answers and however builds overlap, a stored route
\* visits each delivery it was made of once; and while the builds of an
\* assignment neither overlap nor fail to publish, the driver has what is stored.
THEOREM RoutesCorrect == RoutesSpec => []RoutesSafe
<1>1. RoutesInv => RoutesSafe
  <2> SUFFICES ASSUME RoutesInv PROVE RoutesSafe
    OBVIOUS
  <2>1. RouteIsAPlan
    BY DEF RoutesInv, RoutesArePlans, IsPlan, VisitsOnce, RouteIsAPlan
  <2>2. DriverHasStoredRoute
    BY DEF RoutesInv, CleanBuilds, DriverHasStoredRoute
  <2> QED BY <2>1, <2>2 DEF RoutesSafe
<1>2. RoutesSpec => []RoutesInv
  BY RoutesInvInit, RoutesInvStep, PTL DEF RoutesSpec
<1> QED BY <1>1, <1>2, PTL

\* Then too, a rebuilt route keeps its id and is never replaced by one that was
\* made from an older list: only the upsert changes a route, and its build is
\* ahead of what is stored.
THEOREM RebuildsAdvanceCorrect == RoutesSpec => RebuildsAdvance
<1>1. RoutesInv /\ [RoutesNext]_routeVars =>
        [\A a \in RAssignment :
           clean[a] /\ routes[a] # NoRouteYet /\ routes'[a] # routes[a] =>
             /\ routes'[a].id = routes[a].id
             /\ routes'[a].listing > routes[a].listing]_routeVars
  <2> SUFFICES ASSUME RoutesInv, RoutesNext, NEW a \in RAssignment,
                      clean[a], routes[a] # NoRouteYet, routes'[a] # routes[a]
               PROVE  routes'[a].id = routes[a].id /\ routes'[a].listing > routes[a].listing
    OBVIOUS
  <2>1. PICK c \in Build : Upsert(c)
    <3>1. routes' # routes
      OBVIOUS
    <3>2. ASSUME NEW c \in Build,
                 \/ \E x \in RAssignment : Start(c, x)
                 \/ Locate(c) \/ Answered(c) \/ FailedOrTimedOut(c) \/ Read(c) \/ Publish(c)
          PROVE  routes' = routes
      BY <3>2 DEF Start, Locate, Answered, FailedOrTimedOut, Read, Publish
    <3>3. ASSUME NEW d \in RDelivery, NEW x \in RAssignment \cup {Elsewhere}, Relink(d, x)
          PROVE  routes' = routes
      BY <3>3 DEF Relink
    <3> QED BY <3>1, <3>2, <3>3 DEF RoutesNext
  <2>2. a = builds[c].assignment /\ routes'[a] = Saved(builds[c])
    BY <2>1 DEF Upsert, RoutesInv, RoutesTypeOK
  <2>3. c \in Running(a) /\ builds[c].pc = "upsert"
    BY <2>1, <2>2, BuildIsRunning DEF Upsert
  <2>4. RunsAhead(a, builds[c])
    BY <2>3 DEF RoutesInv, CleanBuilds
  <2> QED BY <2>2, <2>3, <2>4 DEF RunsAhead, Saved
<1>2. RoutesSpec => []RoutesInv
  BY RoutesInvInit, RoutesInvStep, PTL DEF RoutesSpec
<1> QED BY <1>1, <1>2, PTL DEF RoutesSpec, RebuildsAdvance

-----------------------------------------------------------------------------
(***************************************************************************)
(* The reports, for any records, in any order of their times.              *)
(***************************************************************************)

\* The order of stableSortByTime is total.
LEMMA TimeOrders ==
  ASSUME NEW log, DOMAIN log \subseteq Nat, \A i \in DOMAIN log : log[i].at \in Nat
  PROVE  TotalOrder(DOMAIN log, {p \in (DOMAIN log) \X (DOMAIN log) :
                      \/ log[p[1]].at < log[p[2]].at
                      \/ log[p[1]].at = log[p[2]].at /\ p[1] < p[2]})
<1> DEFINE R == {p \in (DOMAIN log) \X (DOMAIN log) :
                      \/ log[p[1]].at < log[p[2]].at
                      \/ log[p[1]].at = log[p[2]].at /\ p[1] < p[2]}
<1>1. \A i, j \in DOMAIN log : <<i, j>> \in R <=>
        (log[i].at < log[j].at \/ (log[i].at = log[j].at /\ i < j))
  OBVIOUS
<1> HIDE DEF R
<1> QED BY <1>1 DEF TotalOrder

\* What a query returns is the log at the positions pos: each position selected
\* once, by time and then by position.
LEMMA SortedSelection ==
  ASSUME NEW T, NEW log \in Seq(T), \A i \in DOMAIN log : log[i].at \in Nat,
         NEW I \in SUBSET DOMAIN log
  PROVE  /\ IsFiniteSet(I) /\ Cardinality(I) \in Nat
         /\ DOMAIN StableSortByTime(SelectAt(log, I)) = 1..Cardinality(I)
         /\ \E pos \in [1..Cardinality(I) -> I] :
              /\ \A n \in 1..Cardinality(I) :
                   StableSortByTime(SelectAt(log, I))[n] = log[pos[n]]
              /\ \A x \in I : \E n \in 1..Cardinality(I) : pos[n] = x
              /\ \A m, n \in 1..Cardinality(I) : pos[m] = pos[n] => m = n
              /\ \A m, n \in 1..Cardinality(I) : m < n =>
                   \/ log[pos[m]].at < log[pos[n]].at
                   \/ log[pos[m]].at = log[pos[n]].at /\ pos[m] < pos[n]
<1> DEFINE c  == Cardinality(I)
           at == InOrder(I)
           s  == SelectAt(log, I)
           R  == {p \in (DOMAIN s) \X (DOMAIN s) :
                    \/ s[p[1]].at < s[p[2]].at
                    \/ s[p[1]].at = s[p[2]].at /\ p[1] < p[2]}
           order == OrderedBy(DOMAIN s, R)
           pos == [n \in 1..c |-> at[order[n]]]
           q == [n \in DOMAIN s |-> s[order[n]]]
<1>1. /\ IsFiniteSet(I) /\ c \in Nat /\ DOMAIN s = 1..c
      /\ at \in [1..c -> I]
      /\ \A i, j \in 1..c : i < j => at[i] < at[j]
      /\ \A x \in I : \E i \in 1..c : at[i] = x
      /\ \A i, j \in 1..c : at[i] = at[j] => i = j
      /\ \A i \in 1..c : s[i] = log[at[i]]
  BY SelectAtIsSelection
<1>2. q = StableSortByTime(SelectAt(log, I))
  BY DEF StableSortByTime
<1>3. TotalOrder(DOMAIN s, R)
  <2>1. DOMAIN s \subseteq Nat /\ \A i \in DOMAIN s : s[i].at \in Nat
    <3> HIDE DEF s, at, c
    <3> QED BY <1>1
  <2> HIDE DEF s
  <2> QED BY <2>1, TimeOrders
<1>4. \A i, j \in DOMAIN s : <<i, j>> \in R <=>
        (s[i].at < s[j].at \/ (s[i].at = s[j].at /\ i < j))
  OBVIOUS
<1> HIDE DEF R, s, at
<1>5. IsFiniteSet(DOMAIN s) /\ Cardinality(DOMAIN s) = c
  BY <1>1, FS_Interval
<1>6. /\ order \in [1..c -> DOMAIN s]
      /\ \A i, j \in 1..c : i < j => <<order[i], order[j]>> \in R
      /\ \A x \in DOMAIN s : \E i \in 1..c : order[i] = x
      /\ \A i, j \in 1..c : order[i] = order[j] => i = j
  <2> HIDE DEF c
  <2> QED BY <1>3, <1>5, OrderedByIsNumbering
<1> HIDE DEF order, c
<1>7. pos \in [1..c -> I] /\ \A n \in 1..c : pos[n] = at[order[n]] /\ order[n] \in 1..c
  BY <1>1, <1>6
<1>8. \A n \in 1..c : q[n] = log[pos[n]] /\ s[order[n]] = log[pos[n]]
  BY <1>1, <1>7
<1>9. DOMAIN q = 1..c
  BY <1>1
<1> HIDE DEF pos, q
<1>10. ASSUME NEW x \in I PROVE \E n \in 1..c : pos[n] = x
  <2>1. PICK i \in 1..c : at[i] = x
    BY <1>1
  <2>2. PICK n \in 1..c : order[n] = i
    BY <1>1, <1>6, <2>1
  <2> QED BY <1>7, <2>1, <2>2
<1>11. \A m, n \in 1..c : pos[m] = pos[n] => m = n
  BY <1>1, <1>6, <1>7
<1>12. ASSUME NEW m \in 1..c, NEW n \in 1..c, m < n
       PROVE  \/ log[pos[m]].at < log[pos[n]].at
              \/ log[pos[m]].at = log[pos[n]].at /\ pos[m] < pos[n]
  <2>1. <<order[m], order[n]>> \in R
    BY <1>6, <1>12
  <2>2. \/ s[order[m]].at < s[order[n]].at
        \/ s[order[m]].at = s[order[n]].at /\ order[m] < order[n]
    BY <1>1, <1>4, <1>7, <2>1
  <2>3. ASSUME order[m] < order[n] PROVE pos[m] < pos[n]
    <3>1. order[m] \in 1..c /\ order[n] \in 1..c
      BY <1>7
    <3>2. at[order[m]] < at[order[n]]
      BY <1>1, <2>3, <3>1
    <3> QED BY <1>7, <3>2
  <2> QED BY <1>8, <2>2, <2>3
<1> QED BY <1>1, <1>2, <1>7, <1>8, <1>9, <1>10, <1>11, <1>12 DEF c

\* stableSortByTime of the rows a query selects has each of them once, by time
\* and rows of one instant in the order they were written.
LEMMA QueryIsExact ==
  ASSUME NEW T, NEW log \in Seq(T), \A i \in DOMAIN log : log[i].at \in Nat,
         NEW I \in SUBSET DOMAIN log
  PROVE  LET q == StableSortByTime(SelectAt(log, I)) IN
         /\ ByTime(q)
         /\ \A x : TimesOf(q, x) = Cardinality({i \in I : log[i] = x})
         /\ \A t : SelectAt(q, {n \in DOMAIN q : q[n].at = t})
                     = SelectAt(log, {i \in I : log[i].at = t})
<1> DEFINE q == StableSortByTime(SelectAt(log, I))
           c == Cardinality(I)
<1>1. /\ IsFiniteSet(I) /\ c \in Nat /\ DOMAIN q = 1..c
      /\ DOMAIN log \subseteq Int
      /\ \E pos \in [1..c -> I] :
           /\ \A n \in 1..c : q[n] = log[pos[n]]
           /\ \A x \in I : \E n \in 1..c : pos[n] = x
           /\ \A m, n \in 1..c : pos[m] = pos[n] => m = n
           /\ \A m, n \in 1..c : m < n =>
                \/ log[pos[m]].at < log[pos[n]].at
                \/ log[pos[m]].at = log[pos[n]].at /\ pos[m] < pos[n]
  <2>1. DOMAIN log \subseteq Int
    BY LenProperties
  <2> QED BY <2>1, SortedSelection
<1> HIDE DEF q, c
<1>2. PICK pos \in [1..c -> I] :
           /\ \A n \in 1..c : q[n] = log[pos[n]]
           /\ \A x \in I : \E n \in 1..c : pos[n] = x
           /\ \A m, n \in 1..c : pos[m] = pos[n] => m = n
           /\ \A m, n \in 1..c : m < n =>
                \/ log[pos[m]].at < log[pos[n]].at
                \/ log[pos[m]].at = log[pos[n]].at /\ pos[m] < pos[n]
  BY <1>1
<1>3. ByTime(q)
  <2> SUFFICES ASSUME NEW m \in 1..c, NEW n \in 1..c, m < n PROVE q[m].at <= q[n].at
    BY <1>1 DEF ByTime
  <2>1. /\ log[pos[m]].at < log[pos[n]].at \/ log[pos[m]].at = log[pos[n]].at
        /\ q[m] = log[pos[m]] /\ q[n] = log[pos[n]]
    BY <1>2
  <2>2. log[pos[m]].at \in Nat /\ log[pos[n]].at \in Nat
    BY <1>2
  <2> QED BY <2>1, <2>2
<1>4. ASSUME NEW x PROVE TimesOf(q, x) = Cardinality({i \in I : log[i] = x})
  <2> DEFINE N == {n \in DOMAIN q : q[n] = x}
             J == {i \in I : log[i] = x}
             f == [n \in N |-> pos[n]]
  <2>1. N \subseteq 1..c /\ IsFiniteSet(N)
    <3>1. IsFiniteSet(1..c)
      BY <1>1, FS_Interval
    <3>2. N \subseteq 1..c
      BY <1>1
    <3> QED BY <3>1, <3>2, FS_Subset
  <2>2. \A n \in 1..c : n \in N <=> pos[n] \in J
    BY <1>1, <1>2
  <2>3. TimesOf(q, x) = Cardinality(N)
    BY DEF TimesOf
  <2>4. J \subseteq I
    OBVIOUS
  <2> HIDE DEF N, J
  <2>5. f \in [N -> J] /\ \A n \in N : f[n] = pos[n]
    BY <2>1, <2>2
  <2> HIDE DEF f
  <2>6. \A z \in J : \E n \in N : f[n] = z
    BY <1>2, <2>2, <2>4, <2>5
  <2>7. \A m, n \in N : f[m] = f[n] => m = n
    BY <1>2, <2>1, <2>5
  <2>8. Cardinality(J) = Cardinality(N)
    BY <2>1, <2>5, <2>6, <2>7, SameCount
  <2> QED BY <2>3, <2>8 DEF J
<1>5. ASSUME NEW t
      PROVE  SelectAt(q, {n \in DOMAIN q : q[n].at = t})
               = SelectAt(log, {i \in I : log[i].at = t})
  <2> DEFINE N == {n \in DOMAIN q : q[n].at = t}
             J == {i \in I : log[i].at = t}
             m == Cardinality(N)
             at == InOrder(N)
             f == [k \in 1..m |-> pos[at[k]]]
             g == InOrder(J)
  <2>1. N \subseteq 1..c /\ IsFiniteSet(N) /\ N \in SUBSET Int
    <3>1. IsFiniteSet(1..c) /\ 1..c \subseteq Int
      BY <1>1, FS_Interval
    <3>2. N \subseteq 1..c
      BY <1>1
    <3> QED BY <3>1, <3>2, FS_Subset
  <2>2. \A n \in 1..c : n \in N <=> pos[n] \in J
    BY <1>1, <1>2
  <2>3. J \subseteq I /\ \A i \in J : log[i].at = t
    OBVIOUS
  <2>4. J \in SUBSET Int /\ IsFiniteSet(J)
    BY <1>1, <2>3, FS_Subset
  <2> HIDE DEF N, J
  <2>5. /\ m \in Nat /\ at \in [1..m -> N]
        /\ \A i, j \in 1..m : i < j => at[i] < at[j]
        /\ \A x \in N : \E i \in 1..m : at[i] = x
    BY <2>1, InOrderIsNumbering
  <2> HIDE DEF at, m
  <2>6. f \in [1..m -> J] /\ \A k \in 1..m : f[k] = pos[at[k]]
    BY <2>1, <2>2, <2>5
  <2> HIDE DEF f
  <2>7. \A x \in J : \E k \in 1..m : f[k] = x
    <3> TAKE x \in J
    <3>1. PICK n \in 1..c : pos[n] = x
      BY <1>2, <2>3
    <3>2. PICK k \in 1..m : at[k] = n
      BY <2>2, <2>5, <3>1
    <3> QED BY <2>6, <3>1, <3>2
  <2>8. \A i, j \in 1..m : i < j => f[i] < f[j]
    <3> SUFFICES ASSUME NEW i \in 1..m, NEW j \in 1..m, i < j PROVE f[i] < f[j]
      OBVIOUS
    <3>1. at[i] \in 1..c /\ at[j] \in 1..c /\ at[i] < at[j]
      BY <2>1, <2>5
    <3>2. log[f[i]].at = t /\ log[f[j]].at = t /\ t \in Nat
      <4>1. f[i] \in J /\ f[j] \in J
        BY <2>6
      <4>2. log[f[i]].at = t /\ log[f[j]].at = t /\ f[i] \in DOMAIN log
        BY <2>3, <4>1
      <4> QED BY <4>2
    <3>3. \/ log[pos[at[i]]].at < log[pos[at[j]]].at
          \/ pos[at[i]] < pos[at[j]]
      BY <1>2, <3>1
    <3> QED BY <2>6, <3>2, <3>3
  <2>9. m = Cardinality(J) /\ f = g
    BY <2>4, <2>5, <2>6, <2>7, <2>8, InOrderIsUnique
  <2> HIDE DEF g
  <2>10. DOMAIN at = 1..m /\ DOMAIN g = 1..m /\ \A k \in 1..m : q[at[k]] = log[g[k]]
    <3>1. DOMAIN at = 1..m /\ DOMAIN g = 1..m
      BY <2>5, <2>6, <2>9
    <3>2. ASSUME NEW k \in 1..m PROVE q[at[k]] = log[g[k]]
      <4>1. at[k] \in 1..c
        BY <2>1, <2>5
      <4>2. q[at[k]] = log[pos[at[k]]]
        BY <1>2, <4>1
      <4> QED BY <2>6, <2>9, <4>2
    <3> QED BY <3>1, <3>2
  <2>11. SelectAt(q, N) = [k \in 1..m |-> q[at[k]]]
    BY <2>10 DEF SelectAt, at
  <2>12. SelectAt(log, J) = [k \in 1..m |-> log[g[k]]]
    BY <2>10 DEF SelectAt, g
  <2>13. SelectAt(q, N) = SelectAt(log, J)
    BY <2>10, <2>11, <2>12
  <2> QED BY <2>13 DEF N, J
<1> QED BY <1>3, <1>4, <1>5 DEF q

Entry == [of : Subject, status : ToStatus, at : Instant]
Ping  == [of : Subject, at : Instant]
ReportTypeOK == entries \in Seq(Entry) /\ pings \in Seq(Ping)

\* The two logs hold what InsertEntry and InsertPing append.
LEMMA ReportTypeCorrect == ReportSpec => []ReportTypeOK
<1>1. ReportInit => ReportTypeOK
  BY EmptySeq DEF ReportInit, ReportTypeOK
<1>2. ReportTypeOK /\ [ReportNext]_reportVars => ReportTypeOK'
  <2> SUFFICES ASSUME ReportTypeOK, [ReportNext]_reportVars PROVE ReportTypeOK'
    OBVIOUS
  <2> USE DEF ReportTypeOK
  <2>1. ASSUME NEW d \in Subject, NEW status \in ToStatus, NEW t \in Instant,
               InsertEntry(d, status, t)
        PROVE  ReportTypeOK'
    <3>1. [of |-> d, status |-> status, at |-> t] \in Entry
      BY DEF Entry
    <3> QED BY <2>1, <3>1, AppendProperties DEF InsertEntry
  <2>2. ASSUME NEW v \in Subject, NEW t \in Instant, InsertPing(v, t) PROVE ReportTypeOK'
    <3>1. [of |-> v, at |-> t] \in Ping
      BY DEF Ping
    <3> QED BY <2>2, <3>1, AppendProperties DEF InsertPing
  <2>3. CASE UNCHANGED reportVars
    BY <2>3 DEF reportVars
  <2> QED BY <2>1, <2>2, <2>3 DEF ReportNext
<1> QED BY <1>1, <1>2, PTL DEF ReportSpec

\* Every answer of the reports has exactly the rows asked for, in order.
LEMMA QueriesInv == ReportTypeOK => QueriesAreExact
<1> SUFFICES ASSUME ReportTypeOK, NEW s \in Subject
    PROVE  LET history == DeliveryHistory(s) IN
    /\ ByTime(history)
    /\ \A e \in ToSet(entries) :
         TimesOf(history, e) = IF e.of = s THEN TimesOf(entries, e) ELSE 0
    /\ \A t \in Instant :
         SelectAt(history, {i \in DOMAIN history : history[i].at = t})
           = SelectAt(entries, {i \in DOMAIN entries : entries[i].of = s /\ entries[i].at = t})
    /\ \A from, to \in Instant :
         LET track == VehicleTrack(s, from, to) IN
         /\ ByTime(track)
         /\ \A p \in ToSet(pings) :
              TimesOf(track, p)
                = IF p.of = s /\ from <= p.at /\ p.at <= to THEN TimesOf(pings, p) ELSE 0
  BY DEF QueriesAreExact
<1>1. /\ entries \in Seq(Entry) /\ pings \in Seq(Ping)
      /\ \A i \in DOMAIN entries : entries[i].at \in Nat
      /\ \A i \in DOMAIN pings : pings[i].at \in Nat
  <2>1. \A i \in DOMAIN entries : entries[i] \in Entry
    BY LenProperties DEF ReportTypeOK
  <2>2. \A i \in DOMAIN pings : pings[i] \in Ping
    BY LenProperties DEF ReportTypeOK
  <2> QED BY <2>1, <2>2, ReportingAssumption DEF ReportTypeOK, Entry, Ping
<1> DEFINE I == {i \in DOMAIN entries : entries[i].of = s}
           history == StableSortByTime(SelectAt(entries, I))
<1>2. history = DeliveryHistory(s)
  BY DEF DeliveryHistory
<1>3. I \in SUBSET DOMAIN entries /\ \A i \in DOMAIN entries : i \in I <=> entries[i].of = s
  OBVIOUS
<1> HIDE DEF I
<1>4. /\ ByTime(history)
      /\ \A x : TimesOf(history, x) = Cardinality({i \in I : entries[i] = x})
      /\ \A t : SelectAt(history, {n \in DOMAIN history : history[n].at = t})
                  = SelectAt(entries, {i \in I : entries[i].at = t})
  BY <1>1, <1>3, QueryIsExact
<1> HIDE DEF history
<1>5. ASSUME NEW e \in ToSet(entries)
      PROVE  TimesOf(history, e) = IF e.of = s THEN TimesOf(entries, e) ELSE 0
  <2> DEFINE J == {i \in I : entries[i] = e}
  <2>1. CASE e.of = s
    <3>1. J = {i \in DOMAIN entries : entries[i] = e}
      BY <1>3, <2>1
    <3> QED BY <1>4, <2>1, <3>1 DEF TimesOf
  <2>2. CASE e.of # s
    <3>1. J = {}
      BY <1>3, <2>2
    <3> QED BY <1>4, <2>2, <3>1, FS_EmptySet
  <2> QED BY <2>1, <2>2
<1>6. ASSUME NEW t \in Instant
      PROVE  SelectAt(history, {i \in DOMAIN history : history[i].at = t})
           = SelectAt(entries, {i \in DOMAIN entries : entries[i].of = s /\ entries[i].at = t})
  <2>1. {i \in I : entries[i].at = t}
          = {i \in DOMAIN entries : entries[i].of = s /\ entries[i].at = t}
    BY <1>3
  <2> QED BY <1>4, <2>1
<1>7. ASSUME NEW from \in Instant, NEW to \in Instant
      PROVE  LET track == VehicleTrack(s, from, to) IN
         /\ ByTime(track)
         /\ \A p \in ToSet(pings) :
              TimesOf(track, p)
                = IF p.of = s /\ from <= p.at /\ p.at <= to THEN TimesOf(pings, p) ELSE 0
  <2> DEFINE P == {i \in DOMAIN pings : pings[i].of = s /\ InRange(pings[i], from, to)}
             track == StableSortByTime(SelectAt(pings, P))
  <2>1. track = VehicleTrack(s, from, to)
    BY DEF VehicleTrack
  <2>2. P \in SUBSET DOMAIN pings
    OBVIOUS
  <2>3. \A i \in DOMAIN pings : i \in P <=>
          pings[i].of = s /\ from <= pings[i].at /\ pings[i].at <= to
    <3> TAKE i \in DOMAIN pings
    <3>1. from \in Nat /\ to \in Nat /\ pings[i].at \in Nat
      BY <1>1, ReportingAssumption
    <3>2. pings[i].at \in from..to <=> from <= pings[i].at /\ pings[i].at <= to
      BY <3>1
    <3> QED BY <3>2 DEF InRange
  <2> HIDE DEF P
  <2>4. ByTime(track) /\ \A x : TimesOf(track, x) = Cardinality({i \in P : pings[i] = x})
    BY <1>1, <2>2, QueryIsExact
  <2> HIDE DEF track
  <2>5. ASSUME NEW p \in ToSet(pings)
        PROVE  TimesOf(track, p)
                 = IF p.of = s /\ from <= p.at /\ p.at <= to THEN TimesOf(pings, p) ELSE 0
    <3> DEFINE J == {i \in P : pings[i] = p}
    <3>1. CASE p.of = s /\ from <= p.at /\ p.at <= to
      <4>1. J = {i \in DOMAIN pings : pings[i] = p}
        BY <2>2, <2>3, <3>1
      <4> QED BY <2>4, <3>1, <4>1 DEF TimesOf
    <3>2. CASE ~(p.of = s /\ from <= p.at /\ p.at <= to)
      <4>1. J = {}
        BY <2>2, <2>3, <3>2
      <4> QED BY <2>4, <3>2, <4>1, FS_EmptySet
    <3> QED BY <3>1, <3>2
  <2> QED BY <2>1, <2>4, <2>5
<1> QED BY <1>2, <1>4, <1>5, <1>6, <1>7

\* The counts of two adjoining periods add up to the count of the whole.
LEMMA SummariesInv == ReportTypeOK => SummariesAddUp
<1> SUFFICES ASSUME ReportTypeOK, NEW from \in Instant, NEW to \in Instant,
                    NEW mid \in from..to - 1, NEW status \in Terminal
    PROVE  DeliverySummary(from, to)[status]
             = DeliverySummary(from, mid)[status] + DeliverySummary(mid + 1, to)[status]
  BY DEF SummariesAddUp
<1> DEFINE W(a, b) == {i \in DOMAIN entries :
                         entries[i].status = status /\ InRange(entries[i], a, b)}
<1>1. \A a, b : DeliverySummary(a, b)[status] = Cardinality(W(a, b))
  BY DEF DeliverySummary
<1>2. IsFiniteSet(DOMAIN entries) /\ \A i \in DOMAIN entries : entries[i].at \in Nat
  <2>1. Len(entries) \in Nat /\ DOMAIN entries = 1..Len(entries)
        /\ \A i \in DOMAIN entries : entries[i] \in Entry
    BY LenProperties DEF ReportTypeOK
  <2>2. IsFiniteSet(DOMAIN entries)
    BY <2>1, FS_Interval
  <2> QED BY <2>1, <2>2, ReportingAssumption DEF Entry
<1>3. \A a, b : IsFiniteSet(W(a, b))
  BY <1>2, FS_Subset
<1>4. W(from, to) = W(from, mid) \cup W(mid + 1, to) /\ W(from, mid) \cap W(mid + 1, to) = {}
  <2>1. from \in Nat /\ to \in Nat /\ mid \in Nat /\ from <= mid /\ mid < to
    BY ReportingAssumption
  <2>2. \A x \in Nat : /\ x \in from..to <=> x \in from..mid \/ x \in mid + 1..to
                       /\ ~(x \in from..mid /\ x \in mid + 1..to)
    BY <2>1
  <2> QED BY <1>2, <2>2 DEF InRange
<1> DEFINE A == W(from, mid)
           B == W(mid + 1, to)
<1>5. Cardinality(A \cup B) = Cardinality(A) + Cardinality(B) - Cardinality(A \cap B)
  <2>1. IsFiniteSet(A) /\ IsFiniteSet(B)
    BY <1>3
  <2> HIDE DEF A, B
  <2> QED BY <2>1, FS_Union
<1>6. Cardinality(A) \in Nat /\ Cardinality(B) \in Nat /\ Cardinality({}) = 0
  BY <1>3, FS_CardinalityType, FS_EmptySet
<1>7. Cardinality(A \cup B) = Cardinality(A) + Cardinality(B)
  <2>1. A \cap B = {}
    BY <1>4
  <2>2. Cardinality(A \cap B) = 0
    BY <1>6, <2>1
  <2> HIDE DEF A, B
  <2> QED BY <1>5, <1>6, <2>2
<1> QED BY <1>1, <1>4, <1>7

\* The reporting service, for every log: delivery history, trail and daily
\* summary return exactly the rows of their subject and period in time order, and
\* no row at a boundary is counted twice or lost (reporting-service.ts).
THEOREM ReportsCorrect == ReportSpec => []ReportsSafe
<1>1. ReportTypeOK => ReportsSafe
  BY QueriesInv, SummariesInv DEF ReportsSafe
<1> QED BY <1>1, ReportTypeCorrect, PTL

-----------------------------------------------------------------------------
(***************************************************************************)
(* The validators.                                                         *)
(***************************************************************************)

\* What FieldCollector keeps of its reports: all of them, once.
LEMMA CollectIsSet ==
  ASSUME NEW F, NEW r \in Seq(F)
  PROVE  IsInjective(Collect(r)) /\ ToSet(Collect(r)) = ToSet(r)
<1> DEFINE I == {i \in DOMAIN r : \A j \in 1..i - 1 : r[j] # r[i]}
           at == InOrder(I)
           c == Cardinality(I)
           q == SelectAt(r, I)
<1>1. /\ c \in Nat /\ DOMAIN q = 1..c
      /\ at \in [1..c -> I]
      /\ \A x \in I : \E i \in 1..c : at[i] = x
      /\ \A i, j \in 1..c : at[i] = at[j] => i = j
      /\ \A i \in 1..c : q[i] = r[at[i]]
  <2>1. I \in SUBSET DOMAIN r
    OBVIOUS
  <2> HIDE DEF I
  <2> QED BY <2>1, SelectAtIsSelection
<1>2. \A i \in I : i \in DOMAIN r /\ \A j \in 1..i - 1 : r[j] # r[i]
  OBVIOUS
<1>3. Len(r) \in Nat /\ DOMAIN r = 1..Len(r)
  BY LenProperties
<1>4. ASSUME NEW i \in DOMAIN r PROVE \E k \in I : r[k] = r[i]
  <2> DEFINE S == {j \in DOMAIN r : r[j] = r[i]}
  <2>1. S \in SUBSET Nat /\ S # {}
    BY <1>3
  <2>2. PICK k \in S : \A j \in S : k <= j
    BY <2>1, LeastExists
  <2>3. \A j \in 1..k - 1 : j \in DOMAIN r /\ ~(k <= j)
    BY <1>3, <2>1
  <2>4. \A j \in 1..k - 1 : r[j] # r[k]
    BY <2>2, <2>3
  <2> QED BY <2>2, <2>4
<1>5. \A i, j \in I : r[i] = r[j] => i = j
  <2> SUFFICES ASSUME NEW i \in I, NEW j \in I, r[i] = r[j], i < j PROVE FALSE
    BY <1>2, <1>3
  <2>1. i \in 1..j - 1
    BY <1>2, <1>3
  <2> QED BY <1>2, <2>1
<1>6. q = Collect(r)
  BY DEF Collect
<1> HIDE DEF I, at, c, q
<1>7. \A i, j \in 1..c : q[i] = q[j] => i = j
  BY <1>1, <1>5
<1>8. \A x : (\E i \in 1..c : q[i] = x) <=> (\E i \in DOMAIN r : r[i] = x)
  <2> TAKE x
  <2>1. ASSUME NEW i \in 1..c, q[i] = x PROVE \E k \in DOMAIN r : r[k] = x
    BY <1>1, <1>2, <2>1
  <2>2. ASSUME NEW i \in DOMAIN r, r[i] = x PROVE \E n \in 1..c : q[n] = x
    <3>1. PICK k \in I : r[k] = r[i]
      BY <1>4
    <3>2. PICK n \in 1..c : at[n] = k
      BY <1>1
    <3> QED BY <1>1, <2>2, <3>1, <3>2
  <2> QED BY <2>1, <2>2
<1>9. IsInjective(q)
  BY <1>1, <1>7 DEF IsInjective
<1>10. ToSet(q) = ToSet(r)
  <2>1. \A x : x \in ToSet(q) <=> \E i \in 1..c : q[i] = x
    BY <1>1 DEF ToSet
  <2>2. \A x : x \in ToSet(r) <=> \E i \in DOMAIN r : r[i] = x
    BY DEF ToSet
  <2> QED BY <1>8, <2>1, <2>2
<1> QED BY <1>6, <1>9, <1>10

\* The fields a validator with bounds names.
LEMMA ValidatorNames ==
  ASSUME NEW F, NEW fields \in Seq(F), NEW input, NEW checks
  PROVE  LET q == Collect(Reports(input, fields, checks)) IN
         /\ IsInjective(q)
         /\ \A f : f \in ToSet(q) <=>
              /\ f \in ToSet(fields)
              /\ IsMissing(input[f]) \/ (f \in DOMAIN checks /\ ~checks[f])
<1> DEFINE I == {i \in DOMAIN fields : IsMissing(input[fields[i]])}
           J == {i \in DOMAIN fields :
                   LET f == fields[i] IN f \in DOMAIN checks /\ ~IsMissing(input[f]) /\ ~checks[f]}
           a == SelectAt(fields, I)
           b == SelectAt(fields, J)
           r == a \o b
<1>1. /\ \A i \in DOMAIN fields : i \in I <=> IsMissing(input[fields[i]])
      /\ \A i \in DOMAIN fields : i \in J <=> /\ fields[i] \in DOMAIN checks
                                              /\ ~IsMissing(input[fields[i]])
                                              /\ ~checks[fields[i]]
      /\ I \subseteq DOMAIN fields /\ J \subseteq DOMAIN fields
  OBVIOUS
<1>2. r = Reports(input, fields, checks)
  BY DEF Reports
<1> HIDE DEF I, J
<1>3. a \in Seq(F) /\ \A f : f \in ToSet(a) <=> \E i \in I : fields[i] = f
  <2> DEFINE c == Cardinality(I)
             at == InOrder(I)
  <2>1. /\ a \in Seq(F) /\ DOMAIN a = 1..c /\ at \in [1..c -> I]
        /\ \A x \in I : \E i \in 1..c : at[i] = x
        /\ \A i \in 1..c : a[i] = fields[at[i]]
    BY <1>1, SelectAtIsSelection
  <2> HIDE DEF at, c, a
  <2>2. \A f : (\E n \in 1..c : a[n] = f) <=> \E i \in I : fields[i] = f
    BY <2>1
  <2> QED BY <2>1, <2>2 DEF ToSet
<1>4. b \in Seq(F) /\ \A f : f \in ToSet(b) <=> \E i \in J : fields[i] = f
  <2> DEFINE c == Cardinality(J)
             at == InOrder(J)
  <2>1. /\ b \in Seq(F) /\ DOMAIN b = 1..c /\ at \in [1..c -> J]
        /\ \A x \in J : \E i \in 1..c : at[i] = x
        /\ \A i \in 1..c : b[i] = fields[at[i]]
    BY <1>1, SelectAtIsSelection
  <2> HIDE DEF at, c, b
  <2>2. \A f : (\E n \in 1..c : b[n] = f) <=> \E i \in J : fields[i] = f
    BY <2>1
  <2> QED BY <2>1, <2>2 DEF ToSet
<1> HIDE DEF a, b
<1>5. r \in Seq(F) /\ ToSet(r) = ToSet(a) \cup ToSet(b)
  BY <1>3, <1>4, ConcatFacts
<1> HIDE DEF r
<1>6. IsInjective(Collect(r)) /\ ToSet(Collect(r)) = ToSet(r)
  BY <1>5, CollectIsSet
<1>7. \A f : f \in ToSet(r) <=>
              /\ f \in ToSet(fields)
              /\ IsMissing(input[f]) \/ (f \in DOMAIN checks /\ ~checks[f])
  <2> TAKE f
  <2>1. f \in ToSet(fields) <=> \E i \in DOMAIN fields : fields[i] = f
    BY DEF ToSet
  <2> QED BY <1>1, <1>3, <1>4, <1>5, <2>1
<1> QED BY <1>2, <1>6, <1>7

\* The lists of fields a validator goes over are sequences.
LEMMA FieldLists ==
  /\ \A a, b, c, d : <<a, b, c, d>> \in Seq({a, b, c, d})
  /\ \A a, b : <<a>> \in Seq({a, b}) /\ <<b>> \in Seq({a, b})
OBVIOUS

\* Two fields reported one after the other.
LEMMA PairIsConcat ==
  ASSUME NEW F, NEW a \in F, NEW b \in F
  PROVE  <<a>> \o <<b>> = <<a, b>>
<1> DEFINE u == <<a>>
           v == <<b>>
           s == u \o v
           t == <<a, b>>
<1>1. u \in Seq(F) /\ v \in Seq(F) /\ Len(u) = 1 /\ Len(v) = 1 /\ u[1] = a /\ v[1] = b
  OBVIOUS
<1>2. t \in Seq(F) /\ Len(t) = 2 /\ t[1] = a /\ t[2] = b
  OBVIOUS
<1> HIDE DEF u, v, t
<1>3. /\ s \in Seq(F) /\ Len(s) = Len(u) + Len(v)
      /\ \A i \in 1..Len(u) + Len(v) : s[i] = IF i <= Len(u) THEN u[i] ELSE v[i - Len(u)]
  BY <1>1, ConcatProperties
<1> HIDE DEF s
<1>4. Len(s) = 2 /\ s[1] = a /\ s[2] = b
  BY <1>1, <1>3
<1>5. \A i \in 1..2 : i = 1 \/ i = 2
  OBVIOUS
<1>6. s = t
  BY <1>2, <1>3, <1>4, <1>5, SeqEqual
<1> QED BY <1>6 DEF s, t, u, v

\* isMissing is what a text field is checked with.
LEMMA MissingWords == \A w \in Word : IsMissing(w) <=> w # Text
BY DEF Word, IsMissing, Absent, Blank, Text, NaN

\* A number is reported when it is absent or out of its range.
LEMMA FaultyAmounts ==
  \A v \in Amount :
    /\ IsMissing(v) \/ ~IsValidLatitude(v)  <=> v \notin {Number(n) : n \in -1..1}
    /\ IsMissing(v) \/ ~IsValidLongitude(v) <=> v \notin {Number(n) : n \in -2..2}
    /\ IsMissing(v) \/ ~IsValidWeight(v)    <=> v \notin {Number(1), Number(2)}
<1>1. \A a, b : Number(a) = Number(b) => a = b
  BY DEF Number
<1>2. \A n : Number(n)[1] = "number" /\ Number(n)[2] = n
  BY DEF Number
<1>3. Absent[1] = "absent" /\ Blank[1] = "blank" /\ Text[1] = "text" /\ NaN[1] = "NaN"
  BY DEF Absent, Blank, Text, NaN
<1> SUFFICES ASSUME NEW v \in Amount
    PROVE /\ IsMissing(v) \/ ~IsValidLatitude(v)  <=> v \notin {Number(n) : n \in -1..1}
          /\ IsMissing(v) \/ ~IsValidLongitude(v) <=> v \notin {Number(n) : n \in -2..2}
          /\ IsMissing(v) \/ ~IsValidWeight(v)    <=> v \notin {Number(1), Number(2)}
  OBVIOUS
<1>4. CASE v \in {Absent, NaN, Text}
  <2>1. v[1] # "number"
    BY <1>3, <1>4
  <2>2. \A n : v # Number(n)
    BY <1>2, <2>1
  <2> QED BY <2>1, <2>2 DEF IsValidLatitude, IsValidLongitude, IsValidWeight, Bounded
<1>5. ASSUME NEW n \in -3..3, v = Number(n)
      PROVE  /\ IsMissing(v) \/ ~IsValidLatitude(v)  <=> v \notin {Number(k) : k \in -1..1}
             /\ IsMissing(v) \/ ~IsValidLongitude(v) <=> v \notin {Number(k) : k \in -2..2}
             /\ IsMissing(v) \/ ~IsValidWeight(v)    <=> v \notin {Number(1), Number(2)}
  <2>1. v[1] = "number" /\ v[2] = n
    BY <1>2, <1>5
  <2>2. ~IsMissing(v)
    BY <1>3, <2>1 DEF IsMissing
  <2>3. \A S : v \in {Number(k) : k \in S} <=> n \in S
    BY <1>1, <1>5
  <2>4. v \in {Number(1), Number(2)} <=> n \in 1..2
    BY <1>1, <1>5
  <2> QED BY <2>1, <2>2, <2>3, <2>4 DEF IsValidLatitude, IsValidLongitude, IsValidWeight, Bounded
<1> QED BY <1>4, <1>5 DEF Amount

\* A request whose every field the validator names when, and only when, it is
\* not acceptable.
NamesFaults(fields, input) ==
  /\ IsInjective(fields)
  /\ ToSet(fields) = {f \in DOMAIN input :
                        IF f \in DOMAIN Acceptable THEN input[f] \notin Acceptable[f]
                        ELSE input[f] # Text}

\* The fields that have an own range.
LEMMA AcceptableFields ==
  /\ DOMAIN Acceptable = {"lat", "lng", "weightKg", "vertices"}
  /\ Acceptable.lat = {Number(n) : n \in -1..1}
  /\ Acceptable.lng = {Number(n) : n \in -2..2}
  /\ Acceptable.weightKg = {Number(1), Number(2)}
  /\ Acceptable.vertices = {List(n) : n \in 3..VertexMax}
BY DEF Acceptable

\* validateDriverInput names exactly the missing fields.
LEMMA DriverFaults == \A input \in Input.driver : NamesFaults(ValidateDriverInput(input), input)
<1> SUFFICES ASSUME NEW input \in Input.driver
    PROVE  NamesFaults(ValidateDriverInput(input), input)
  OBVIOUS
<1> DEFINE fields == <<"name", "email", "phone", "licenseNumber">>
           q == Collect(Reports(input, fields, <<>>))
<1>1. /\ DOMAIN input = {"name", "email", "phone", "licenseNumber"}
      /\ \A f \in DOMAIN input : input[f] \in Word
  BY DEF Input
<1>2. ToSet(fields) = {"name", "email", "phone", "licenseNumber"}
  BY DEF ToSet
<1> DEFINE F == {"name", "email", "phone", "licenseNumber"}
<1>3. fields \in Seq(F) /\ DOMAIN <<>> = {}
  <2>1. fields \in Seq(F)
    BY FieldLists, Zenon
  <2> QED BY <2>1
<1> HIDE DEF fields, F
<1>4. /\ IsInjective(q)
      /\ \A f : f \in ToSet(q) <=>
           /\ f \in ToSet(fields)
           /\ IsMissing(input[f]) \/ (f \in DOMAIN <<>> /\ ~<<>>[f])
  BY <1>3, ValidatorNames
<1> HIDE DEF q
<1>5. \A f : f \in ToSet(q) <=> f \in DOMAIN input /\ input[f] # Text
  BY <1>1, <1>2, <1>3, <1>4, MissingWords
<1>6. \A f \in DOMAIN input : f \notin DOMAIN Acceptable
  BY <1>1, AcceptableFields
<1>7. NamesFaults(q, input)
  BY <1>4, <1>5, <1>6 DEF NamesFaults
<1> QED BY <1>7 DEF ValidateDriverInput, q, fields

\* validatePingInput names exactly the missing and out-of-range fields.
LEMMA PingFaults == \A input \in Input.ping : NamesFaults(ValidatePingInput(input), input)
<1> SUFFICES ASSUME NEW input \in Input.ping
    PROVE  NamesFaults(ValidatePingInput(input), input)
  OBVIOUS
<1> DEFINE fields == <<"vehicleId", "lat", "lng", "timestamp">>
           checks == [lat |-> IsValidLatitude(input.lat), lng |-> IsValidLongitude(input.lng)]
           q == Collect(Reports(input, fields, checks))
           F == {"vehicleId", "lat", "lng", "timestamp"}
<1>1. /\ DOMAIN input = {"vehicleId", "lat", "lng", "timestamp"}
      /\ input["vehicleId"] \in Word /\ input["timestamp"] \in Word
      /\ input["lat"] \in Amount /\ input["lng"] \in Amount
  BY DEF Input
<1>2. ToSet(fields) = {"vehicleId", "lat", "lng", "timestamp"} /\ fields \in Seq(F)
  <2>1. fields \in Seq(F)
    BY FieldLists, Zenon
  <2> QED BY <2>1 DEF ToSet
<1>3. /\ DOMAIN checks = {"lat", "lng"}
      /\ checks["lat"] = IsValidLatitude(input["lat"])
      /\ checks["lng"] = IsValidLongitude(input["lng"])
  OBVIOUS
<1> HIDE DEF fields, checks, F
<1>4. /\ IsInjective(q)
      /\ \A f : f \in ToSet(q) <=>
           /\ f \in ToSet(fields)
           /\ IsMissing(input[f]) \/ (f \in DOMAIN checks /\ ~checks[f])
  BY <1>2, ValidatorNames
<1> HIDE DEF q
<1>5. ASSUME NEW f \in DOMAIN input
      PROVE  f \in ToSet(q) <=> IF f \in DOMAIN Acceptable THEN input[f] \notin Acceptable[f]
                                ELSE input[f] # Text
  <2>1. CASE f = "lat"
    BY <1>1, <1>2, <1>3, <1>4, <2>1, FaultyAmounts, AcceptableFields
  <2>2. CASE f = "lng"
    BY <1>1, <1>2, <1>3, <1>4, <2>2, FaultyAmounts, AcceptableFields
  <2>3. CASE f \in {"vehicleId", "timestamp"}
    BY <1>1, <1>2, <1>3, <1>4, <2>3, MissingWords, AcceptableFields
  <2> QED BY <1>1, <2>1, <2>2, <2>3
<1>6. ToSet(q) \subseteq DOMAIN input
  BY <1>1, <1>2, <1>4
<1>7. NamesFaults(q, input)
  BY <1>4, <1>5, <1>6 DEF NamesFaults
<1> QED BY <1>7 DEF ValidatePingInput, q, fields, checks

\* validateDeliveryInput names exactly the missing fields and a bad weight.
LEMMA DeliveryFaults ==
  \A input \in Input.delivery : NamesFaults(ValidateDeliveryInput(input), input)
<1> SUFFICES ASSUME NEW input \in Input.delivery
    PROVE  NamesFaults(ValidateDeliveryInput(input), input)
  OBVIOUS
<1> DEFINE fields == <<"address", "recipientName", "recipientContact", "weightKg">>
           checks == [weightKg |-> IsValidWeight(input.weightKg)]
           q == Collect(Reports(input, fields, checks))
           F == {"address", "recipientName", "recipientContact", "weightKg"}
<1>1. /\ DOMAIN input = {"address", "recipientName", "recipientContact", "weightKg"}
      /\ input["address"] \in Word /\ input["recipientName"] \in Word
      /\ input["recipientContact"] \in Word /\ input["weightKg"] \in Amount
  BY DEF Input
<1>2. /\ ToSet(fields) = {"address", "recipientName", "recipientContact", "weightKg"}
      /\ fields \in Seq(F)
  <2>1. fields \in Seq(F)
    BY FieldLists, Zenon
  <2> QED BY <2>1 DEF ToSet
<1>3. DOMAIN checks = {"weightKg"} /\ checks["weightKg"] = IsValidWeight(input["weightKg"])
  OBVIOUS
<1> HIDE DEF fields, checks, F
<1>4. /\ IsInjective(q)
      /\ \A f : f \in ToSet(q) <=>
           /\ f \in ToSet(fields)
           /\ IsMissing(input[f]) \/ (f \in DOMAIN checks /\ ~checks[f])
  BY <1>2, ValidatorNames
<1> HIDE DEF q
<1>5. ASSUME NEW f \in DOMAIN input
      PROVE  f \in ToSet(q) <=> IF f \in DOMAIN Acceptable THEN input[f] \notin Acceptable[f]
                                ELSE input[f] # Text
  <2>1. CASE f = "weightKg"
    BY <1>1, <1>2, <1>3, <1>4, <2>1, FaultyAmounts, AcceptableFields
  <2>2. CASE f # "weightKg"
    <3>1. input[f] \in Word /\ f \notin DOMAIN checks /\ f \notin DOMAIN Acceptable
      BY <1>1, <1>3, <2>2, AcceptableFields
    <3> QED BY <1>1, <1>2, <1>4, <3>1, MissingWords
  <2> QED BY <2>1, <2>2
<1>6. ToSet(q) \subseteq DOMAIN input
  BY <1>1, <1>2, <1>4
<1>7. NamesFaults(q, input)
  BY <1>4, <1>5, <1>6 DEF NamesFaults
<1> QED BY <1>7 DEF ValidateDeliveryInput, q, fields, checks

\* validateZoneInput names a missing name and too few vertices.
LEMMA ZoneFaults == \A input \in Input.zone : NamesFaults(ValidateZoneInput(input), input)
<1> SUFFICES ASSUME NEW input \in Input.zone
    PROVE  NamesFaults(ValidateZoneInput(input), input)
  OBVIOUS
<1> DEFINE a == IF IsMissing(input.name) THEN <<"name">> ELSE <<>>
           b == IF input.vertices[1] = "list" /\ IsValidVertexCount(input.vertices[2])
                THEN <<>> ELSE <<"vertices">>
           q == a \o b
<1>1. /\ DOMAIN input = {"name", "vertices"} /\ input["name"] \in Word
      /\ input["vertices"] \in Word \cup {List(n) : n \in 0..VertexMax + 1}
  BY DEF Input
<1>2. IsMissing(input.name) <=> input["name"] # Text
  BY <1>1, MissingWords
<1>3. (input.vertices[1] = "list" /\ IsValidVertexCount(input.vertices[2]))
        <=> input["vertices"] \in {List(n) : n \in 3..VertexMax}
  <2> DEFINE v == input["vertices"]
  <2>1. \A n : List(n)[1] = "list" /\ List(n)[2] = n
    BY DEF List
  <2>2. \A w \in Word : w[1] # "list"
    BY DEF Word, Absent, Blank, Text
  <2>3. \A m, n : List(m) = List(n) => m = n
    BY <2>1
  <2>4. CASE v \in Word
    BY <2>1, <2>2, <2>4
  <2>5. ASSUME NEW n \in 0..VertexMax + 1, v = List(n)
        PROVE  (v[1] = "list" /\ IsValidVertexCount(v[2]))
                 <=> v \in {List(k) : k \in 3..VertexMax}
    BY <2>1, <2>3, <2>5 DEF IsValidVertexCount
  <2> QED BY <1>1, <2>4, <2>5
<1>4. \/ a = <<>> /\ b = <<>> /\ q = <<>>
      \/ a = <<"name">> /\ b = <<>> /\ q = <<"name">>
      \/ a = <<>> /\ b = <<"vertices">> /\ q = <<"vertices">>
      \/ a = <<"name">> /\ b = <<"vertices">> /\ q = <<"name", "vertices">>
  <2>1. /\ <<>> \o <<>> = <<>> /\ <<"name">> \o <<>> = <<"name">>
        /\ <<>> \o <<"vertices">> = <<"vertices">>
        /\ <<"name">> \o <<"vertices">> = <<"name", "vertices">>
    <3> DEFINE F == {"name", "vertices"}
    <3>1. <<"name">> \in Seq(F) /\ <<"vertices">> \in Seq(F)
      BY FieldLists, Zenon
    <3>2. <<>> \in Seq(F) /\ "name" \in F /\ "vertices" \in F
      BY EmptySeq
    <3> HIDE DEF F
    <3>3. <<"name">> \o <<"vertices">> = <<"name", "vertices">>
      BY <3>2, PairIsConcat, Zenon
    <3> QED BY <3>1, <3>2, <3>3, ConcatEmptySeq
  <2>2. (a = <<>> \/ a = <<"name">>) /\ (b = <<>> \/ b = <<"vertices">>)
    OBVIOUS
  <2> HIDE DEF a, b
  <2> QED BY <2>1, <2>2
<1>5. /\ ToSet(<<>>) = {} /\ ToSet(<<"name">>) = {"name"}
      /\ ToSet(<<"vertices">>) = {"vertices"}
      /\ ToSet(<<"name", "vertices">>) = {"name", "vertices"}
      /\ IsInjective(<<>>) /\ IsInjective(<<"name">>) /\ IsInjective(<<"vertices">>)
      /\ IsInjective(<<"name", "vertices">>)
  BY DEF ToSet, IsInjective
<1>6. /\ a = <<>> <=> input["name"] = Text
      /\ b = <<>> <=> input["vertices"] \in Acceptable["vertices"]
      /\ "name" \notin DOMAIN Acceptable /\ "vertices" \in DOMAIN Acceptable
  <2>1. <<"name">> # <<>> /\ <<"vertices">> # <<>>
    OBVIOUS
  <2> QED BY <1>2, <1>3, <2>1, AcceptableFields
<1>7. <<"name">> # <<>> /\ <<"vertices">> # <<>>
  OBVIOUS
<1>8. q = ValidateZoneInput(input)
  BY DEF ValidateZoneInput
<1> HIDE DEF a, b, q
<1>9. IsInjective(q)
  BY <1>4, <1>5
<1>10. ToSet(q) = {f \in DOMAIN input :
                        IF f \in DOMAIN Acceptable THEN input[f] \notin Acceptable[f]
                        ELSE input[f] # Text}
  <2>1. CASE a = <<>> /\ b = <<>>
    BY <1>1, <1>4, <1>5, <1>6, <1>7, <2>1
  <2>2. CASE a # <<>> /\ b = <<>>
    BY <1>1, <1>4, <1>5, <1>6, <1>7, <2>2
  <2>3. CASE a = <<>> /\ b # <<>>
    BY <1>1, <1>4, <1>5, <1>6, <1>7, <2>3
  <2>4. CASE a # <<>> /\ b # <<>>
    BY <1>1, <1>4, <1>5, <1>6, <1>7, <2>4
  <2> QED BY <2>1, <2>2, <2>3, <2>4
<1> QED BY <1>8, <1>9, <1>10 DEF NamesFaults

FormTypeOK ==
  form = NoForm \/ \E kind \in DOMAIN Input : \E input \in Input[kind] :
                      form = [kind |-> kind, input |-> input]

\* Every validator answers a request with exactly the fields that are missing or
\* out of range, each once, however many checks fault it (validators.ts).
THEOREM ValidationCorrect == FormSpec => []FieldsNameTheFaults
<1>1. FormInit => FormTypeOK
  BY DEF FormInit, FormTypeOK
<1>2. FormTypeOK /\ [FormNext]_form => FormTypeOK'
  BY DEF FormNext, SubmitForm, FormTypeOK
<1>3. FormTypeOK => FieldsNameTheFaults
  <2> SUFFICES ASSUME NEW kind \in DOMAIN Input, NEW input \in Input[kind],
                      form = [kind |-> kind, input |-> input]
      PROVE  NamesFaults(Validate(form.kind, form.input), form.input)
    BY DEF FieldsNameTheFaults, NamesFaults, FormTypeOK
  <2>1. form.kind = kind /\ form.input = input
    OBVIOUS
  <2>2. kind \in {"driver", "ping", "delivery", "zone"}
    BY DEF Input
  <2>3. CASE kind = "driver"
    BY <2>1, <2>3, DriverFaults DEF Validate
  <2>4. CASE kind = "ping"
    BY <2>1, <2>4, PingFaults DEF Validate
  <2>5. CASE kind = "delivery"
    BY <2>1, <2>5, DeliveryFaults DEF Validate
  <2>6. CASE kind = "zone"
    BY <2>1, <2>6, ZoneFaults DEF Validate
  <2> QED BY <2>2, <2>3, <2>4, <2>5, <2>6
<1> QED BY <1>1, <1>2, <1>3, PTL DEF FormSpec

-----------------------------------------------------------------------------
(***************************************************************************)
(* Zones: the validator's four turns decide whether two segments meet, and *)
(* its pairs of edges whether a ring is simple, for any integer positions. *)
(***************************************************************************)

Point == Int \X Int

LEMMA PointParts ==
  ASSUME NEW p \in Point
  PROVE  p[1] \in Int /\ p[2] \in Int
  BY DEF Point

LEMMA BetweenMeans ==
  ASSUME NEW a \in Int, NEW x \in Int, NEW b \in Int
  PROVE  Between(a, x, b) <=> (a <= x /\ x <= b) \/ (b <= x /\ x <= a)
<1>1. \A y : y \in {a, b} <=> y = a \/ y = b
  OBVIOUS
<1>2. CASE a <= b
  <2>1. Min({a, b}) = a
    BY <1>1, <1>2 DEF Min
  <2>2. Max({a, b}) = b
    BY <1>1, <1>2 DEF Max
  <2>3. QED
    BY <1>2, <2>1, <2>2 DEF Between
<1>3. CASE b <= a
  <2>1. Min({a, b}) = b
    BY <1>1, <1>3 DEF Min
  <2>2. Max({a, b}) = a
    BY <1>1, <1>3 DEF Max
  <2>3. QED
    BY <1>3, <2>1, <2>2 DEF Between
<1>4. QED
  BY <1>2, <1>3

Turn(p, q, r) == Cross(Minus(r, q), Minus(q, p))

LEMMA OrientationIsTurn ==
  ASSUME NEW p \in Point, NEW q \in Point, NEW r \in Point
  PROVE  /\ Turn(p, q, r) \in Int
         /\ Orientation(p, q, r) = 0 <=> Turn(p, q, r) = 0
         /\ Orientation(p, q, r) = 1 <=> Turn(p, q, r) > 0
         /\ Orientation(p, q, r) = 2 <=> Turn(p, q, r) < 0
         /\ Orientation(p, q, r) \in {0, 1, 2}
  BY PointParts DEF Orientation, Turn, Cross, Minus

\* With d = q - p, e = v - u and w = u - p: where the ends of one segment lie of
\* the other, in terms of the two numerators and the denominator of Meet.
LEMMA TurnsAndMeet ==
  ASSUME NEW p \in Point, NEW q \in Point, NEW u \in Point, NEW v \in Point,
         NEW d, d = Minus(q, p), NEW e, e = Minus(v, u), NEW w, w = Minus(u, p)
  PROVE  /\ Cross(d, e) \in Int /\ Cross(w, d) \in Int /\ Cross(w, e) \in Int
         /\ Turn(p, q, u) = Cross(w, d)
         /\ Turn(p, q, v) = Cross(w, d) - Cross(d, e)
         /\ Turn(u, v, p) = 0 - Cross(w, e)
         /\ Turn(u, v, q) = Cross(d, e) - Cross(w, e)
  BY PointParts DEF Turn, Cross, Minus

\* The signs on the two sides of a line differ exactly if the parameter at which
\* it is crossed is in 0..1.
LEMMA SignsAreUnit ==
  ASSUME NEW num \in Int, NEW den \in Int, den # 0
  PROVE  /\ InUnit(num, den) <=> \/ num >= 0 /\ num - den <= 0
                                 \/ num <= 0 /\ num - den >= 0
         /\ InUnit(0 - num, 0 - den) <=> InUnit(num, den)
  BY DEF InUnit

\* A point x of the line from p in direction d that is in the box of the segment
\* is at a parameter in 0..1: w = x - p.
LEMMA BoxIsUnit ==
  ASSUME NEW d1 \in Int, NEW d2 \in Int, NEW w1 \in Int, NEW w2 \in Int,
         NEW e1 \in Int, NEW e2 \in Int,
         w1 * d2 = w2 * d1,
         d1 * e2 - d2 * e1 # 0,
         (0 <= w1 /\ w1 <= d1) \/ (d1 <= w1 /\ w1 <= 0),
         (0 <= w2 /\ w2 <= d2) \/ (d2 <= w2 /\ w2 <= 0)
  PROVE  InUnit(w1 * e2 - w2 * e1, d1 * e2 - d2 * e1)
<1> DEFINE num == w1 * e2 - w2 * e1
           den == d1 * e2 - d2 * e1
<1>1. num \in Int /\ den \in Int
  OBVIOUS
<1>2. d1 * num = w1 * den
  <2>1. d1 * num = w1 * (d1 * e2) - (w2 * d1) * e1
    OBVIOUS
  <2>2. w1 * den = w1 * (d1 * e2) - (w1 * d2) * e1
    OBVIOUS
  <2>3. QED
    BY <2>1, <2>2
<1>3. d2 * num = w2 * den
  <2>1. d2 * num = (w1 * d2) * e2 - w2 * (d2 * e1)
    OBVIOUS
  <2>2. w2 * den = (w2 * d1) * e2 - w2 * (d2 * e1)
    OBVIOUS
  <2>3. QED
    BY <2>1, <2>2
<1>4. ASSUME NEW a \in Int, NEW x \in Int, a # 0, a * num = x * den,
             (0 <= x /\ x <= a) \/ (a <= x /\ x <= 0)
      PROVE  InUnit(num, den)
  <2> HIDE DEF num, den
  <2>1. CASE a > 0 /\ den > 0
    <3>1. 0 <= x * den /\ x * den <= a * den
      BY <1>1, <1>4, <2>1
    <3>2. 0 <= num /\ num <= den
      BY <1>1, <1>4, <2>1, <3>1
    <3>3. QED
      BY <1>1, <2>1, <3>2, SignsAreUnit
  <2>2. CASE a > 0 /\ den < 0
    <3>1. x * den <= 0 /\ a * den <= x * den
      BY <1>1, <1>4, <2>2
    <3>2. num <= 0 /\ den <= num
      BY <1>1, <1>4, <2>2, <3>1
    <3>3. QED
      BY <1>1, <2>2, <3>2, SignsAreUnit
  <2>3. CASE a < 0 /\ den > 0
    <3>1. x * den <= 0 /\ a * den <= x * den
      BY <1>1, <1>4, <2>3
    <3>2. 0 <= num /\ num <= den
      BY <1>1, <1>4, <2>3, <3>1
    <3>3. QED
      BY <1>1, <2>3, <3>2, SignsAreUnit
  <2>4. CASE a < 0 /\ den < 0
    <3>1. 0 <= x * den /\ x * den <= a * den
      BY <1>1, <1>4, <2>4
    <3>2. num <= 0 /\ den <= num
      BY <1>1, <1>4, <2>4, <3>1
    <3>3. QED
      BY <1>1, <2>4, <3>2, SignsAreUnit
  <2>5. den # 0
    BY DEF den
  <2>6. QED
    BY <1>1, <1>4, <2>1, <2>2, <2>3, <2>4, <2>5
<1>5. CASE d1 # 0
  BY <1>2, <1>4, <1>5
<1>6. CASE d1 = 0 /\ d2 # 0
  BY <1>3, <1>4, <1>6
<1>7. CASE d1 = 0 /\ d2 = 0
  BY <1>7
<1>8. QED
  BY <1>5, <1>6, <1>7

LEMMA OnLineIsUnit ==
  ASSUME NEW p \in Point, NEW q \in Point, NEW x \in Point, NEW u \in Point, NEW v \in Point,
         Cross(Minus(x, p), Minus(q, p)) = 0, OnSegment(p, x, q),
         Cross(Minus(q, p), Minus(v, u)) # 0
  PROVE  InUnit(Cross(Minus(x, p), Minus(v, u)), Cross(Minus(q, p), Minus(v, u)))
<1> DEFINE d1 == q[1] - p[1]
           d2 == q[2] - p[2]
           w1 == x[1] - p[1]
           w2 == x[2] - p[2]
           e1 == v[1] - u[1]
           e2 == v[2] - u[2]
<1>1. d1 \in Int /\ d2 \in Int /\ w1 \in Int /\ w2 \in Int /\ e1 \in Int /\ e2 \in Int
  BY PointParts
<1>2. /\ (0 <= w1 /\ w1 <= d1) \/ (d1 <= w1 /\ w1 <= 0)
      /\ (0 <= w2 /\ w2 <= d2) \/ (d2 <= w2 /\ w2 <= 0)
  BY PointParts, BetweenMeans DEF OnSegment
<1>3. /\ Cross(Minus(x, p), Minus(q, p)) = w1 * d2 - w2 * d1
      /\ Cross(Minus(q, p), Minus(v, u)) = d1 * e2 - d2 * e1
      /\ Cross(Minus(x, p), Minus(v, u)) = w1 * e2 - w2 * e1
  BY DEF Cross, Minus
<1>4. w1 * d2 - w2 * d1 = 0 /\ d1 * e2 - d2 * e1 # 0
  BY <1>3
<1>5. w1 * d2 = w2 * d1
  <2>1. w1 * d2 \in Int /\ w2 * d1 \in Int
    BY <1>1
  <2>2. QED
    BY <1>4, <2>1
<1> HIDE DEF d1, d2, w1, w2, e1, e2
<1>6. QED
  <2>1. InUnit(w1 * e2 - w2 * e1, d1 * e2 - d2 * e1)
    BY ONLY <1>1, <1>2, <1>4, <1>5, BoxIsUnit, Zenon
  <2>2. QED
    BY <1>3, <2>1

\* What segmentsIntersect decides by four turns is that the segments have a
\* common point, for any coordinates and segments of length 0 too.
LEMMA IntersectIsMeet ==
  ASSUME NEW p \in Point, NEW q \in Point, NEW u \in Point, NEW v \in Point
  PROVE  SegmentsIntersect(p, q, u, v) <=> Meet(p, q, u, v)
<1> DEFINE d == Minus(q, p)
           e == Minus(v, u)
           w == Minus(u, p)
           den == Cross(d, e)
           s == Cross(w, e)
           t == Cross(w, d)
<1>1. /\ den \in Int /\ s \in Int /\ t \in Int
      /\ Turn(p, q, u) = t /\ Turn(p, q, v) = t - den
      /\ Turn(u, v, p) = 0 - s /\ Turn(u, v, q) = den - s
  BY TurnsAndMeet
<1>2. /\ Cross(Minus(p, u), e) = 0 - s /\ Cross(Minus(q, u), e) = den - s
      /\ Cross(Minus(p, u), d) = 0 - t
      /\ Cross(Minus(v, p), d) = t - den /\ Cross(Minus(v, p), e) = s
      /\ Cross(Minus(q, u), d) = 0 - t
      /\ Cross(e, d) = 0 - den
      /\ Cross(d, Minus(u, p)) = 0 - t /\ Cross(d, Minus(v, p)) = den - t
      /\ Cross(e, Minus(p, u)) = s /\ Cross(e, Minus(q, u)) = s - den
  BY PointParts DEF Cross, Minus
<1> DEFINE Apart == /\ Orientation(p, q, u) # Orientation(p, q, v)
                    /\ Orientation(u, v, p) # Orientation(u, v, q)
<1>3. CASE den = 0
  <2>1. ~Apart
    BY <1>1, <1>3, OrientationIsTurn
  <2>2. /\ Orientation(p, q, u) = 0 <=> Cross(d, Minus(u, p)) = 0
        /\ Orientation(p, q, v) = 0 <=> Cross(d, Minus(v, p)) = 0
        /\ Orientation(u, v, p) = 0 <=> Cross(e, Minus(p, u)) = 0
        /\ Orientation(u, v, q) = 0 <=> Cross(e, Minus(q, u)) = 0
    BY <1>1, <1>2, <1>3, OrientationIsTurn
  <2>3. Meet(p, q, u, v) <=>
           \/ Cross(d, Minus(u, p)) = 0 /\ OnSegment(p, u, q)
           \/ Cross(d, Minus(v, p)) = 0 /\ OnSegment(p, v, q)
           \/ Cross(e, Minus(p, u)) = 0 /\ OnSegment(u, p, v)
           \/ Cross(e, Minus(q, u)) = 0 /\ OnSegment(u, q, v)
    BY <1>3 DEF Meet
  <2>4. QED
    BY <2>1, <2>2, <2>3 DEF SegmentsIntersect
<1>4. CASE den # 0
  <2>1. Meet(p, q, u, v) <=> InUnit(s, den) /\ InUnit(t, den)
    BY <1>4 DEF Meet
  <2>2. Orientation(p, q, u) # Orientation(p, q, v) <=> InUnit(t, den)
    <3> HIDE DEF den, s, t
    <3>1. InUnit(t, den) <=> (t >= 0 /\ t - den <= 0) \/ (t <= 0 /\ t - den >= 0)
      BY <1>1, <1>4, SignsAreUnit
    <3>2. QED
      BY <1>1, <1>4, <3>1, OrientationIsTurn
  <2>3. Orientation(u, v, p) # Orientation(u, v, q) <=> InUnit(s, den)
    <3> HIDE DEF den, s, t
    <3>1. InUnit(s, den) <=> (s >= 0 /\ s - den <= 0) \/ (s <= 0 /\ s - den >= 0)
      BY <1>1, <1>4, SignsAreUnit
    <3>2. QED
      BY <1>1, <1>4, <3>1, OrientationIsTurn
  <2>4. InUnit(0, den) /\ InUnit(den, den)
    BY <1>1, <1>4, SignsAreUnit
  <2>5. ASSUME Orientation(p, q, u) = 0, OnSegment(p, u, q)
        PROVE  InUnit(s, den) /\ InUnit(t, den)
    <3>1. t = 0
      BY <1>1, <2>5, OrientationIsTurn
    <3>2. InUnit(s, den)
      BY <1>4, <2>5, <3>1, OnLineIsUnit
    <3>3. QED
      BY <2>4, <3>1, <3>2
  <2>6. ASSUME Orientation(p, q, v) = 0, OnSegment(p, v, q)
        PROVE  InUnit(s, den) /\ InUnit(t, den)
    <3>1. t = den /\ Cross(Minus(v, p), d) = 0
      BY <1>1, <1>2, <2>6, OrientationIsTurn
    <3>2. InUnit(Cross(Minus(v, p), e), den)
      BY <1>4, <2>6, <3>1, OnLineIsUnit
    <3>3. QED
      BY <1>2, <2>4, <3>1, <3>2
  <2>7. /\ InUnit(0 - t, 0 - den) <=> InUnit(t, den)
        /\ 0 - den # 0
    BY <1>1, <1>4, SignsAreUnit
  <2>8. ASSUME Orientation(u, v, p) = 0, OnSegment(u, p, v)
        PROVE  InUnit(s, den) /\ InUnit(t, den)
    <3>1. s = 0 /\ Cross(Minus(p, u), e) = 0
      BY <1>1, <1>2, <2>8, OrientationIsTurn
    <3>2. InUnit(Cross(Minus(p, u), d), Cross(e, d))
      BY <1>2, <2>7, <2>8, <3>1, OnLineIsUnit
    <3>3. QED
      BY <1>2, <2>4, <2>7, <3>1, <3>2
  <2>9. ASSUME Orientation(u, v, q) = 0, OnSegment(u, q, v)
        PROVE  InUnit(s, den) /\ InUnit(t, den)
    <3>1. s = den /\ Cross(Minus(q, u), e) = 0
      BY <1>1, <1>2, <2>9, OrientationIsTurn
    <3>2. InUnit(Cross(Minus(q, u), d), Cross(e, d))
      BY <1>2, <2>7, <2>9, <3>1, OnLineIsUnit
    <3>3. QED
      BY <1>2, <2>4, <2>7, <3>1, <3>2
  <2>10. QED
    BY <2>1, <2>2, <2>3, <2>5, <2>6, <2>8, <2>9 DEF SegmentsIntersect
<1>5. QED
  BY <1>3, <1>4

LEMMA NextIndex ==
  ASSUME NEW n \in Nat, n >= 1, NEW i \in 1..n
  PROVE  (i % n) + 1 = IF i = n THEN 1 ELSE i + 1
  OBVIOUS

\* Facts about the turn at q from p to v.
LEMMA Corner ==
  ASSUME NEW p \in Point, NEW q \in Point, NEW v \in Point
  PROVE  /\ Orientation(p, q, p) = 0 /\ Orientation(p, q, q) = 0
         /\ Orientation(p, q, v) = 0 <=> Cross(Minus(q, p), Minus(v, q)) = 0
         /\ Orientation(q, v, p) = 0 <=> Orientation(p, q, v) = 0
         /\ OnSegment(p, p, q) /\ OnSegment(p, q, q)
         /\ OnSegment(p, v, q) <=> OnSegment(q, v, p)
<1>1. /\ Turn(p, q, p) = 0 /\ Turn(p, q, q) = 0
      /\ Turn(q, v, p) = Turn(p, q, v)
      /\ Turn(p, q, v) = 0 - Cross(Minus(q, p), Minus(v, q))
      /\ Cross(Minus(q, p), Minus(v, q)) \in Int
  BY PointParts DEF Turn, Cross, Minus
<1>2. /\ Orientation(p, q, p) = 0 /\ Orientation(p, q, q) = 0
      /\ Orientation(p, q, v) = 0 <=> Cross(Minus(q, p), Minus(v, q)) = 0
      /\ Orientation(q, v, p) = 0 <=> Orientation(p, q, v) = 0
  BY <1>1, OrientationIsTurn
<1>3. /\ OnSegment(p, p, q) /\ OnSegment(p, q, q)
      /\ OnSegment(p, v, q) <=> OnSegment(q, v, p)
  BY PointParts, BetweenMeans DEF OnSegment
<1>4. QED
  BY <1>2, <1>3

LEMMA IntersectIsSymmetric ==
  ASSUME NEW p, NEW q, NEW u, NEW v
  PROVE  SegmentsIntersect(p, q, u, v) <=> SegmentsIntersect(u, v, p, q)
  BY DEF SegmentsIntersect

\* The path runs back at q, from p to v.
RunsBack(p, q, v) ==
  Orientation(p, q, v) = 0 /\ (OnSegment(p, v, q) \/ OnSegment(q, p, v))

After(i, n) == IF i = n THEN 1 ELSE i + 1

\* Simple, by the turns of the code and without %.
LEMMA SimpleMeans ==
  ASSUME NEW r \in Seq(Point), IsClosed(r), NEW n, n = Len(r) - 1
  PROVE  Simple(r) <=>
           /\ \A i, j \in 1..n : i # j => r[i] # r[j]
           /\ \A i, j \in 1..n : After(i, n) # j /\ After(j, n) # i /\ i # j =>
                ~SegmentsIntersect(r[i], r[i+1], r[j], r[j+1])
           /\ \A i \in 1..n : ~RunsBack(r[i], r[i+1], r[After(i, n) + 1])
<1> DEFINE next(i) == (i % n) + 1
           Back(p, q, v) == /\ Cross(Minus(q, p), Minus(v, q)) = 0
                            /\ OnSegment(p, v, q) \/ OnSegment(q, p, v)
<1>1. n \in Nat /\ n >= 3 /\ Len(r) = n + 1 /\ r[n + 1] = r[1] /\ r \in [1..n+1 -> Point]
  BY DEF IsClosed
<1>0. n \in Nat /\ n >= 1
  BY <1>1
<1>2. \A i \in 1..n : next(i) = After(i, n) /\ next(i) \in 1..n
  <2>1. \A i \in 1..n : next(i) = IF i = n THEN 1 ELSE i + 1
    BY ONLY <1>0, NextIndex
  <2> HIDE DEF next
  <2>2. QED
    BY <1>1, <2>1 DEF After
<1>3. \A i \in 1..n : r[next(i)] = r[i+1]
  BY <1>1, <1>2 DEF After
<1>4. \A i \in 1..n : r[i] \in Point /\ r[i+1] \in Point
  BY <1>1
<1>5. \A i \in 1..n : Back(r[i], r[next(i)], r[next(next(i))])
                        <=> RunsBack(r[i], r[i+1], r[After(i, n) + 1])
  <2> SUFFICES ASSUME NEW i \in 1..n
               PROVE  Back(r[i], r[next(i)], r[next(next(i))])
                        <=> RunsBack(r[i], r[i+1], r[After(i, n) + 1])
    OBVIOUS
  <2>1. next(i) \in 1..n /\ next(i) = After(i, n)
    BY <1>2
  <2> HIDE DEF next
  <2>2. r[next(i)] = r[i+1] /\ r[next(next(i))] = r[After(i, n) + 1]
    BY <1>3, <2>1
  <2>3. r[i] \in Point /\ r[i+1] \in Point /\ r[After(i, n) + 1] \in Point
    BY <1>4, <2>1
  <2>4. Orientation(r[i], r[i+1], r[After(i, n) + 1]) = 0 <=>
          Cross(Minus(r[i+1], r[i]), Minus(r[After(i, n) + 1], r[i+1])) = 0
    BY <2>3, Corner
  <2>5. QED
    BY <2>2, <2>4 DEF RunsBack
<1>6. \A i, j \in 1..n : Meet(r[i], r[i+1], r[j], r[j+1])
                           <=> SegmentsIntersect(r[i], r[i+1], r[j], r[j+1])
  BY <1>4, IntersectIsMeet
<1>7. Simple(r) <=>
        /\ \A i, j \in 1..n : i # j => r[i] # r[j]
        /\ \A i, j \in 1..n : next(i) # j /\ next(j) # i /\ i # j =>
             ~Meet(r[i], r[i+1], r[j], r[j+1])
        /\ \A i \in 1..n : ~Back(r[i], r[next(i)], r[next(next(i))])
  BY DEF Simple
<1> HIDE DEF next, Back
<1>8. QED
  BY <1>2, <1>5, <1>6, <1>7

\* The checks of isSimplePolygon are those of the definition: it looks at each
\* pair of edges once, and an edge that runs back over more than its neighbour is
\* found at another corner.
LEMMA CheckedIsSimple ==
  ASSUME NEW r \in Seq(Point), IsClosed(r), IsSimplePolygon(r)
  PROVE  Simple(r)
<1> DEFINE n == Len(r) - 1
<1>1. n \in Nat /\ n >= 3 /\ r[n + 1] = r[1] /\ \A i \in 1..n + 1 : r[i] \in Point
  BY DEF IsClosed
<1>2. \A i, j \in 1..n : i < j =>
        IF Adjacent(i, j, n) THEN ~CollinearOverlap(r[i], r[i+1], r[j], r[j+1])
        ELSE ~SegmentsIntersect(r[i], r[i+1], r[j], r[j+1])
  BY DEF IsSimplePolygon
<1> HIDE DEF n
<1>3. ASSUME NEW i \in 1..n, NEW j \in 1..n, After(i, n) # j, After(j, n) # i, i # j
      PROVE  ~SegmentsIntersect(r[i], r[i+1], r[j], r[j+1])
  <2>1. ~Adjacent(i, j, n) /\ ~Adjacent(j, i, n)
    BY <1>1, <1>3 DEF After, Adjacent
  <2>2. CASE i < j
    BY <1>2, <2>1, <2>2
  <2>3. CASE j < i
    BY <1>2, <2>1, <2>3, IntersectIsSymmetric
  <2>4. QED
    BY <1>1, <1>3, <2>2, <2>3
<1>4. ASSUME NEW i \in 1..n,
             Orientation(r[i], r[i+1], r[After(i, n) + 1]) = 0,
             OnSegment(r[i], r[After(i, n) + 1], r[i+1])
      PROVE  FALSE
  <2>1. CASE i < n
    <3>1. i + 1 \in 1..n /\ i + 2 \in 1..n + 1 /\ i \in 1..n + 1 /\ After(i, n) = i + 1
          /\ (i + 1) + 1 = i + 2
      BY <1>1, <2>1 DEF After
    <3>2. ~CollinearOverlap(r[i], r[i+1], r[i+1], r[i+2])
      BY <1>2, <2>1, <3>1 DEF Adjacent
    <3>3. Orientation(r[i], r[i+1], r[i+1]) = 0
      BY <1>1, <3>1, Corner
    <3>4. QED
      BY <1>4, <3>1, <3>2, <3>3 DEF CollinearOverlap
  <2>2. CASE i = n
    <3>1. After(i, n) = 1 /\ 1 \in 1..n /\ n \in 1..n /\ 1 < n /\ Adjacent(1, n, n) /\ 1 + 1 = 2
      BY <1>1, <2>2 DEF After, Adjacent
    <3>2. ~CollinearOverlap(r[1], r[2], r[n], r[n+1])
      BY <1>2, <3>1
    <3>3. r[1] \in Point /\ r[2] \in Point /\ r[n] \in Point /\ r[n + 1] = r[1]
      BY <1>1
    <3>4. Orientation(r[n], r[1], r[2]) = 0 /\ OnSegment(r[n], r[2], r[n + 1])
      BY <1>4, <2>2, <3>1, <3>3
    <3>5. Orientation(r[1], r[2], r[n]) = 0 /\ Orientation(r[1], r[2], r[n + 1]) = 0
      BY <3>3, <3>4, Corner
    <3>6. QED
      BY <3>2, <3>3, <3>4, <3>5 DEF CollinearOverlap
  <2>3. QED
    BY <1>1, <2>1, <2>2
<1>5. \A i \in 1..n : /\ After(i, n) \in 1..n /\ r[After(i, n)] = r[i+1]
                      /\ r[i] \in Point /\ r[i+1] \in Point
  BY <1>1 DEF After
<1>6. \A i \in 1..n : \E k \in 1..n : After(k, n) = i /\ r[k+1] = r[i]
  <2> SUFFICES ASSUME NEW i \in 1..n
               PROVE  \E k \in 1..n : After(k, n) = i /\ r[k+1] = r[i]
    OBVIOUS
  <2>1. CASE i = 1
    <3>1. n \in 1..n /\ After(n, n) = i /\ r[n+1] = r[i]
      BY <1>1, <2>1 DEF After
    <3>2. QED
      BY <3>1
  <2>2. CASE i # 1
    <3>1. i - 1 \in 1..n /\ After(i - 1, n) = i /\ (i - 1) + 1 = i
      BY <1>1, <2>2 DEF After
    <3>2. QED
      BY <3>1
  <2>3. QED
    BY <2>1, <2>2
<1>7. ASSUME NEW i \in 1..n, NEW j \in 1..n, i # j, r[i] = r[j]
      PROVE  FALSE
  <2>1. ASSUME NEW a \in 1..n, NEW b \in 1..n, After(a, n) = b, r[a] = r[b]
        PROVE  FALSE
    <3>1. PICK k \in 1..n : After(k, n) = a /\ r[k+1] = r[a]
      BY <1>6
    <3>2. r[a+1] = r[a]
      BY <1>5, <2>1
    <3>3. Orientation(r[k], r[k+1], r[a+1]) = 0 /\ OnSegment(r[k], r[a+1], r[k+1])
      <4>1. r[k] \in Point /\ r[k+1] \in Point /\ r[a+1] = r[k+1]
        BY <1>5, <3>1, <3>2
      <4>2. Orientation(r[k], r[k+1], r[k+1]) = 0 /\ OnSegment(r[k], r[k+1], r[k+1])
        BY <4>1, Corner
      <4>3. QED
        BY <4>1, <4>2
    <3>4. QED
      BY <1>4, <3>1, <3>3
  <2>2. CASE After(i, n) # j /\ After(j, n) # i
    <3>1. ~SegmentsIntersect(r[i], r[i+1], r[j], r[j+1])
      BY <1>3, <1>7, <2>2
    <3>2. Orientation(r[i], r[i+1], r[j]) = 0 /\ OnSegment(r[i], r[j], r[i+1])
      <4>1. r[i] \in Point /\ r[i+1] \in Point
        BY <1>5
      <4>2. Orientation(r[i], r[i+1], r[i]) = 0 /\ OnSegment(r[i], r[i], r[i+1])
        BY <4>1, Corner
      <4>3. QED
        BY <1>7, <4>2
    <3>3. QED
      BY <3>1, <3>2 DEF SegmentsIntersect
  <2>3. QED
    BY <1>7, <2>1, <2>2
<1>8. ASSUME NEW i \in 1..n, RunsBack(r[i], r[i+1], r[After(i, n) + 1])
      PROVE  FALSE
  <2> DEFINE m == After(i, n)
  <2>1. m \in 1..n /\ r[m] = r[i+1] /\ r[i] \in Point /\ r[m] \in Point /\ r[m+1] \in Point
    BY <1>5
  <2>2. Orientation(r[i], r[m], r[m+1]) = 0 /\ OnSegment(r[m], r[i], r[m+1])
    BY <1>4, <1>8, <2>1 DEF RunsBack
  <2>3. Orientation(r[m], r[m+1], r[i]) = 0
    BY <2>1, <2>2, Corner
  <2>4. PICK k \in 1..n : After(k, n) = i /\ r[k+1] = r[i]
    BY <1>6
  <2>5. CASE After(m, n) = k
    <3>1. r[After(m, n) + 1] = r[i]
      BY <2>4, <2>5
    <3>2. QED
      BY <1>4, <2>1, <2>2, <2>3, <3>1
  <2>6. CASE After(m, n) # k
    <3>1. m # k /\ After(k, n) # m
      BY <1>1, <2>4, <2>6 DEF After
    <3>2. ~SegmentsIntersect(r[m], r[m+1], r[k], r[k+1])
      BY <1>3, <2>1, <2>6, <3>1
    <3>3. QED
      BY <2>2, <2>3, <2>4, <3>2 DEF SegmentsIntersect
  <2>7. QED
    BY <2>5, <2>6
<1>9. QED
  BY <1>3, <1>7, <1>8, SimpleMeans DEF n

LEMMA SimpleIsChecked ==
  ASSUME NEW r \in Seq(Point), IsClosed(r), Simple(r)
  PROVE  IsSimplePolygon(r)
<1> DEFINE n == Len(r) - 1
<1>1. n \in Nat /\ n >= 3 /\ r[n + 1] = r[1] /\ \A i \in 1..n + 1 : r[i] \in Point
  BY DEF IsClosed
<1>2. /\ \A i, j \in 1..n : i # j => r[i] # r[j]
      /\ \A i, j \in 1..n : After(i, n) # j /\ After(j, n) # i /\ i # j =>
           ~SegmentsIntersect(r[i], r[i+1], r[j], r[j+1])
      /\ \A i \in 1..n : ~RunsBack(r[i], r[i+1], r[After(i, n) + 1])
  BY SimpleMeans
<1>3. SUFFICES ASSUME NEW i \in 1..n, NEW j \in 1..n, i < j
               PROVE  IF Adjacent(i, j, n) THEN ~CollinearOverlap(r[i], r[i+1], r[j], r[j+1])
                      ELSE ~SegmentsIntersect(r[i], r[i+1], r[j], r[j+1])
  BY DEF IsSimplePolygon
<1> HIDE DEF n
<1>4. CASE ~Adjacent(i, j, n)
  <2>1. After(i, n) # j /\ After(j, n) # i /\ i # j
    BY <1>1, <1>3, <1>4 DEF Adjacent, After
  <2>2. QED
    BY <1>2, <1>4, <2>1
<1>5. CASE j = i + 1
  <2>1. After(i, n) = j /\ r[i] \in Point /\ r[i+1] \in Point /\ r[j+1] \in Point /\ r[j] = r[i+1]
    BY <1>1, <1>3, <1>5 DEF After
  <2>2. r[i] # r[j+1]
    <3>1. CASE j = n
      <4>1. i # 1 /\ 1 \in 1..n /\ r[j+1] = r[1]
        BY <1>1, <1>3, <1>5, <3>1
      <4>2. QED
        BY <1>2, <4>1
    <3>2. CASE j # n
      <4>1. j + 1 \in 1..n /\ i # j + 1
        BY <1>1, <1>3, <1>5, <3>2
      <4>2. QED
        BY <1>2, <4>1
    <3>3. QED
      BY <3>1, <3>2
  <2>3. ~RunsBack(r[i], r[i+1], r[j+1])
    BY <1>2, <2>1
  <2>4. ~CollinearOverlap(r[i], r[i+1], r[j], r[j+1])
    BY <2>1, <2>2, <2>3 DEF CollinearOverlap, RunsBack
  <2>5. QED
    BY <1>5, <2>4 DEF Adjacent
<1>6. CASE i = 1 /\ j = n
  <2>1. /\ r[1] \in Point /\ r[2] \in Point /\ r[n] \in Point /\ r[n+1] = r[1]
        /\ 2 \in 1..n /\ n \in 1..n /\ n # 2 /\ 1 + 1 = 2 /\ After(n, n) = 1
    BY <1>1 DEF After
  <2>2. r[2] # r[n] /\ ~RunsBack(r[n], r[1], r[2])
    BY <1>2, <2>1
  <2>3. Orientation(r[1], r[2], r[n]) = 0 => ~OnSegment(r[n], r[2], r[1])
    BY <2>1, <2>2, Corner DEF RunsBack
  <2>4. ~CollinearOverlap(r[i], r[i+1], r[j], r[j+1])
    BY <1>6, <2>1, <2>2, <2>3 DEF CollinearOverlap
  <2>5. QED
    BY <1>6, <2>4 DEF Adjacent
<1>7. QED
  BY <1>4, <1>5, <1>6 DEF Adjacent

ZonesInv ==
  /\ ring \in Seq(Point) /\ malformed \in BOOLEAN
  /\ answer # Pending => (answer = {} <=> zones # {})
  /\ answer = Pending => zones = {}
  /\ \A z \in zones : z.polygon \in Seq(Point)
  /\ StoredAreSimple

\* A ring that DistinctVertexCount and isSimplePolygon let pass is a zone, and
\* no other is: what the service rejects, and what it stores, for a ring of any
\* length with any coordinates.
LEMMA PolygonsAreJudged ==
  ASSUME ring \in Seq(Point)
  PROVE  IsPolygonInvalid <=>
           \/ malformed
           \/ DistinctVertexCount(ring) \notin MinVertices..MaxVertices
           \/ ~IsClosed(ring) \/ ~Simple(ring)
<1>1. CASE IsClosed(ring)
  BY <1>1, CheckedIsSimple, SimpleIsChecked DEF IsPolygonInvalid
<1>2. CASE ~IsClosed(ring)
  <2>1. ~IsSimplePolygon(ring)
    BY <1>2 DEF IsSimplePolygon
  <2>2. QED
    BY <1>2, <2>1 DEF IsPolygonInvalid
<1>3. QED
  BY <1>1, <1>2

\* A zone is stored if, and only if, the request describes one (requirements 6.1
\* and 6.2), for any positions and any limits.
THEOREM ZonesCorrect == ZonesSpec => []ZonesSafe
<1>1. ZonesInit => ZonesInv
  <2> SUFFICES ASSUME ZonesInit PROVE ZonesInv
    OBVIOUS
  <2>1. ring = <<>> /\ malformed = FALSE /\ zones = {} /\ answer = Pending
    BY DEF ZonesInit
  <2>2. StoredAreSimple
    BY <2>1, Zenon DEF StoredAreSimple
  <2>3. ring \in Seq(Point)
    BY <2>1
  <2>4. QED
    BY <2>1, <2>2, <2>3 DEF ZonesInv
<1>2. ZonesInv /\ [ZonesNext]_zoneVars => ZonesInv'
  <2> SUFFICES ASSUME ZonesInv, [ZonesNext]_zoneVars PROVE ZonesInv'
    OBVIOUS
  <2>1. ASSUME NEW p \in Position, ReadPosition(p)
        PROVE  ZonesInv'
    <3>1. /\ answer = Pending /\ answer' = answer /\ zones' = zones /\ malformed' = malformed
          /\ ring' = Append(ring, p)
      BY <2>1 DEF ReadPosition
    <3>2. p \in Point
      BY ZonesAssumption DEF Point
    <3>3. QED
      BY <3>1, <3>2 DEF ZonesInv, StoredAreSimple
  <2>2. CASE ReadGarbage
    <3>1. /\ answer = Pending /\ answer' = answer /\ zones' = zones /\ malformed' = TRUE
          /\ ring' = ring
      BY <2>2 DEF ReadGarbage
    <3>2. QED
      BY <3>1 DEF ZonesInv, StoredAreSimple
  <2>3. ASSUME NEW name \in 0..NameMax + 1, NEW label \in NoLabel..NameMax + 1,
               Create(name, label)
        PROVE  ZonesInv'
    <3> DEFINE zone == [name |-> name, label |-> label, polygon |-> ring]
    <3>1. /\ answer = Pending /\ answer' = Offences(name, label)
          /\ zones' = IF answer' # {} THEN zones ELSE zones \cup {zone}
          /\ ring' = ring /\ malformed' = malformed /\ zones = {}
      BY <2>3 DEF Create, ZonesInv
    <3>2. answer' # Pending
      BY <3>1 DEF Offences, Pending
    <3>3. "polygon" \in answer' <=> IsPolygonInvalid
      BY <3>1 DEF Offences
    <3>4. ring \in Seq(Point)
      BY DEF ZonesInv
    <3>5. CASE answer' # {}
      <4>1. zones' = {}
        BY <3>1, <3>5
      <4>2. StoredAreSimple'
        BY <3>1, <3>3, <3>4, <4>1, PolygonsAreJudged DEF StoredAreSimple
      <4>3. QED
        BY <3>1, <3>2, <3>5, <4>1, <4>2 DEF ZonesInv
    <3>6. CASE answer' = {}
      <4>1. zones' = {zone}
        BY <3>1, <3>6
      <4>2. /\ name \in 1..NameMax /\ label \in {NoLabel} \cup 1..NameMax
            /\ ~IsPolygonInvalid
        BY <3>1, <3>6 DEF Offences
      <4>3. /\ IsClosed(ring) /\ Simple(ring)
            /\ DistinctVertexCount(ring) \in MinVertices..MaxVertices
        BY <3>4, <4>2, PolygonsAreJudged
      <4>4. Len(ring) - 1 \in MinVertices..MaxVertices
        BY <3>4, <4>3 DEF IsClosed, DistinctVertexCount
      <4>5. StoredAreSimple'
        BY <3>6, <4>1, <4>2, <4>3, <4>4 DEF StoredAreSimple
      <4>6. QED
        BY <3>1, <3>2, <3>4, <3>6, <4>1, <4>5 DEF ZonesInv
    <3>7. QED
      BY <3>5, <3>6
  <2>4. CASE UNCHANGED zoneVars
    <3>1. ring' = ring /\ malformed' = malformed /\ zones' = zones /\ answer' = answer
      BY <2>4 DEF zoneVars
    <3>2. QED
      BY <3>1 DEF ZonesInv, StoredAreSimple
  <2>5. QED
    BY <2>1, <2>2, <2>3, <2>4 DEF ZonesNext
<1>3. ZonesInv => ZonesSafe
  BY DEF ZonesInv, ZonesSafe, AnswerOrZone
<1>4. QED
  BY <1>1, <1>2, <1>3, PTL DEF ZonesSpec

=============================================================================
