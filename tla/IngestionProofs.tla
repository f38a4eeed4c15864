--------------------------- MODULE IngestionProofs ---------------------------
(***************************************************************************)
(* Proofs about Ingestion, for any sets of requests, vehicles and          *)
(* timestamps.                                                             *)
(***************************************************************************)
EXTENDS Ingestion, SequenceTheorems, TLAPS

\* The types of the variables are invariant under every step of every request.
LEMMA TypeStep == TypeOK /\ [Next]_vars => TypeOK'
<1>. SUFFICES ASSUME TypeOK, [Next]_vars PROVE TypeOK'
  OBVIOUS
<1>. USE IngestionAssumption DEF TypeOK, Ping, Running, Answered, Outcome, NoMark, Goto
<1>1. ASSUME NEW r \in Request, ReceiveInvalid(r) PROVE TypeOK'
  BY <1>1 DEF ReceiveInvalid
<1>2. ASSUME NEW r \in Request, Receive(r) PROVE TypeOK'
  <2>1. Len(published) \in Nat
    BY LenProperties
  <2>. QED  BY <1>2, <2>1 DEF Receive
<1>3. ASSUME NEW r \in Request, Latest(r) PROVE TypeOK'
  BY <1>3 DEF Latest
<1>4. ASSUME NEW r \in Request, Persist(r) PROVE TypeOK'
  BY <1>4 DEF Persist
<1>5. ASSUME NEW r \in Request, Advance(r) PROVE TypeOK'
  BY <1>5 DEF Advance
<1>6. ASSUME NEW r \in Request, Publish(r) PROVE TypeOK'
  <2>1. Append(published, r) \in Seq(Request)
    BY AppendProperties
  <2>. QED  BY <1>6, <2>1 DEF Publish
<1>7. ASSUME NEW r \in Request, Crash(r) PROVE TypeOK'
  BY <1>7 DEF Crash
<1>8. CASE UNCHANGED vars
  BY <1>8 DEF vars
<1>. QED
  BY <1>1, <1>2, <1>3, <1>4, <1>5, <1>6, <1>7, <1>8 DEF Next, Step

\* Type correctness.
THEOREM TypeCorrect == Spec => []TypeOK
<1>1. Init => TypeOK
  BY EmptySeq, IngestionAssumption DEF Init, TypeOK, Ping, NoMark
<1>. QED  BY <1>1, TypeStep, PTL DEF Spec


-----------------------------------------------------------------------------
(***************************************************************************)
(* The strengthening: how far a request has come tells what it has done.   *)
(***************************************************************************)
ProgressInv ==
  /\ \A r \in Request : pc[r] \in {"advance", "publish", "Accepted"} => r \in stored
  /\ \A r \in stored : pc[r] \in {"advance", "publish", "Accepted", "Crashed"}
  /\ \A r \in Request : pc[r] \in {"publish", "Accepted"} =>
       hwm[ping[r].vehicle] >= ping[r].ts
  /\ \A r \in Request : pc[r] = "persist" => ping[r].ts >= floor[r]
  /\ \A r \in Request : floor[r] <= hwm[ping[r].vehicle]

SafetyInv ==
  /\ ProgressInv
  /\ MarkIsBacked
  /\ LateArrivalNeverStored
  /\ PublishedIsDurable

\* Timestamps and marks are natural numbers.
LEMMA MarksAreNat ==
  ASSUME TypeOK
  PROVE  /\ \A v \in Vehicle : hwm[v] \in Nat
         /\ \A r \in Request : ping[r].ts \in Nat /\ floor[r] \in Nat /\ ping[r].vehicle \in Vehicle
<1>0. Timestamp \cup {NoMark} \subseteq Nat
  BY IngestionAssumption DEF NoMark
<1>1. \A v \in Vehicle : hwm[v] \in Nat
  <2>1. hwm \in [Vehicle -> Timestamp \cup {NoMark}]
    BY DEF TypeOK
  <2>. QED  BY <1>0, <2>1, Zenon
<1>2. ASSUME NEW r \in Request
      PROVE  ping[r].ts \in Nat /\ floor[r] \in Nat /\ ping[r].vehicle \in Vehicle
  <2>1. ping[r] \in Ping /\ floor[r] \in Timestamp \cup {NoMark}
    BY DEF TypeOK
  <2>2. ping[r].ts \in Timestamp /\ ping[r].vehicle \in Vehicle
    BY <2>1 DEF Ping
  <2>. QED  BY <1>0, <2>1, <2>2, Zenon
<1>. QED  BY <1>1, <1>2

\* Marks only grow (Advance), and a request keeps its ping.
LEMMA MarksGrow ==
  ASSUME TypeOK, [Next]_vars
  PROVE  /\ \A v \in Vehicle : hwm[v] \in Nat /\ hwm'[v] \in Nat /\ hwm'[v] >= hwm[v]
         /\ \A r \in Request : ping[r].ts \in Nat /\ floor[r] \in Nat /\ ping[r].vehicle \in Vehicle
         /\ ping' = ping
<1>1. /\ \A v \in Vehicle : hwm[v] \in Nat
      /\ \A r \in Request : ping[r].ts \in Nat /\ floor[r] \in Nat /\ ping[r].vehicle \in Vehicle
  BY MarksAreNat
<1>4. \A v \in Vehicle : hwm'[v] \in Nat
  <2>0. Timestamp \cup {NoMark} \subseteq Nat
    BY IngestionAssumption DEF NoMark
  <2>1. hwm' \in [Vehicle -> Timestamp \cup {NoMark}]
    BY TypeStep DEF TypeOK
  <2>. QED  BY <2>0, <2>1, Zenon
<1>5. ping' = ping
  BY DEF Next, Step, ReceiveInvalid, Receive, Latest, Persist, Advance, Publish, Crash, vars
<1>6. \/ hwm' = hwm
      \/ \E r \in Request : Advance(r)
  BY DEF Next, Step, ReceiveInvalid, Receive, Latest, Persist, Publish, Crash, vars
<1>7. ASSUME NEW r \in Request, Advance(r), NEW v \in Vehicle PROVE hwm'[v] >= hwm[v]
  BY <1>1, <1>7 DEF Advance, TypeOK
<1>. QED  BY <1>1, <1>4, <1>5, <1>6, <1>7

\* A request's progress keeps matching what it has stored and marked.
LEMMA ProgressStep == TypeOK /\ ProgressInv /\ [Next]_vars => ProgressInv'
<1>. SUFFICES ASSUME TypeOK, ProgressInv, [Next]_vars PROVE ProgressInv'
  OBVIOUS
<1>0. /\ \A v \in Vehicle : hwm[v] \in Nat /\ hwm'[v] \in Nat /\ hwm'[v] >= hwm[v]
      /\ \A r \in Request : ping[r].ts \in Nat /\ floor[r] \in Nat /\ ping[r].vehicle \in Vehicle
      /\ ping' = ping
  BY MarksGrow
<1>. USE <1>0 DEF ProgressInv
<1>1. ASSUME NEW r \in Request, ReceiveInvalid(r) PROVE ProgressInv'
  <2>1. /\ pc'[r] = "Invalid" /\ \A s \in Request \ {r} : pc'[s] = pc[s]
        /\ pc[r] = "idle" /\ UNCHANGED <<stored, hwm, floor>>
    BY <1>1 DEF ReceiveInvalid, Goto, TypeOK
  <2>. QED  BY <2>1 DEF TypeOK
<1>2. ASSUME NEW r \in Request, Receive(r) PROVE ProgressInv'
  <2>1. /\ pc'[r] = "latest" /\ \A s \in Request \ {r} : pc'[s] = pc[s]
        /\ pc[r] = "idle" /\ UNCHANGED <<stored, hwm>>
        /\ floor' = [floor EXCEPT ![r] = hwm[ping[r].vehicle]]
    BY <1>2 DEF Receive, Goto, TypeOK
  <2>. QED  BY <2>1 DEF TypeOK
<1>3. ASSUME NEW r \in Request, Latest(r) PROVE ProgressInv'
  <2>1. /\ pc'[r] \in {"Stale", "persist"} /\ \A s \in Request \ {r} : pc'[s] = pc[s]
        /\ pc[r] = "latest" /\ UNCHANGED <<stored, hwm, floor>>
        /\ pc'[r] = "persist" => ping[r].ts >= hwm[ping[r].vehicle]
    <3>1. ping[r].ts \in Nat /\ hwm[ping[r].vehicle] \in Nat
      OBVIOUS
    <3>2. pc[r] = "latest" /\ UNCHANGED <<ping, stored, hwm, floor>>
      BY <1>3 DEF Latest
    <3>3. pc' = [pc EXCEPT ![r] = IF ping[r].ts < hwm[ping[r].vehicle] THEN "Stale" ELSE "persist"]
      BY <1>3 DEF Latest, Goto
    <3>4. /\ pc'[r] = IF ping[r].ts < hwm[ping[r].vehicle] THEN "Stale" ELSE "persist"
          /\ \A s \in Request \ {r} : pc'[s] = pc[s]
      BY <3>3 DEF TypeOK
    <3>. QED  BY <3>1, <3>2, <3>4
  <2>2. pc'[r] = "persist" => ping[r].ts >= floor[r]
    <3>1. floor[r] <= hwm[ping[r].vehicle] /\ ping[r].vehicle \in Vehicle
      OBVIOUS
    <3>. QED  BY <2>1, <3>1
  <2>. QED  BY <2>1, <2>2 DEF TypeOK
<1>4. ASSUME NEW r \in Request, Persist(r) PROVE ProgressInv'
  <2>1. /\ pc'[r] \in {"advance", "Error"} /\ \A s \in Request \ {r} : pc'[s] = pc[s]
        /\ pc[r] = "persist" /\ UNCHANGED <<hwm, floor>>
        /\ stored' = IF pc'[r] = "advance" THEN stored \cup {r} ELSE stored
    BY <1>4 DEF Persist, Goto, TypeOK
  <2>. QED  BY <2>1 DEF TypeOK
<1>5. ASSUME NEW r \in Request, Advance(r) PROVE ProgressInv'
  BY <1>5 DEF Advance, Goto, TypeOK
<1>6. ASSUME NEW r \in Request, Publish(r) PROVE ProgressInv'
  BY <1>6 DEF Publish, Goto, TypeOK
<1>7. ASSUME NEW r \in Request, Crash(r) PROVE ProgressInv'
  BY <1>7 DEF Crash, Goto, TypeOK, Running
<1>8. CASE UNCHANGED vars
  BY <1>8 DEF vars
<1>. QED
  BY <1>1, <1>2, <1>3, <1>4, <1>5, <1>6, <1>7, <1>8 DEF Next, Step

\* The mark stays backed by a stored ping: only Advance moves it, to the
\* timestamp of a ping its own request has stored.
LEMMA BackedStep == TypeOK /\ ProgressInv /\ MarkIsBacked /\ [Next]_vars => MarkIsBacked'
<1>. SUFFICES ASSUME TypeOK, ProgressInv, MarkIsBacked, [Next]_vars,
                     NEW v \in Vehicle, hwm'[v] # NoMark
              PROVE  \E r \in stored' : ping'[r].vehicle = v /\ ping'[r].ts = hwm'[v]
  BY DEF MarkIsBacked
<1>1. ping' = ping
  BY MarksGrow
<1>2. stored \subseteq stored'
  BY DEF Next, Step, ReceiveInvalid, Receive, Latest, Persist, Advance, Publish, Crash, vars
<1>3. CASE hwm'[v] = hwm[v]
  BY <1>1, <1>2, <1>3 DEF MarkIsBacked
<1>4. CASE hwm'[v] # hwm[v]
  <2>1. PICK r \in Request : Advance(r)
    BY <1>4 DEF Next, Step, ReceiveInvalid, Receive, Latest, Persist, Publish, Crash, vars
  <2>2. ping[r].vehicle = v /\ hwm'[v] = ping[r].ts
    BY <1>4, <2>1 DEF Advance, TypeOK
  <2>3. r \in stored
    BY <2>1 DEF Advance, ProgressInv
  <2>. QED  BY <1>1, <1>2, <2>2, <2>3
<1>. QED  BY <1>3, <1>4

\* A stored ping was at or above the floor when Persist stored it.
LEMMA LateStep ==
  TypeOK /\ ProgressInv /\ LateArrivalNeverStored /\ [Next]_vars => LateArrivalNeverStored'
<1>. SUFFICES ASSUME TypeOK, ProgressInv, LateArrivalNeverStored, [Next]_vars,
                     NEW r \in stored'
              PROVE  ping'[r].ts >= floor'[r]
  BY DEF LateArrivalNeverStored
<1>1. ping' = ping
  BY MarksGrow
<1>2. CASE r \in stored
  <2>1. pc[r] # "idle" /\ r \in Request
    BY <1>2 DEF ProgressInv, TypeOK
  <2>2. floor'[r] = floor[r]
    BY <2>1 DEF Next, Step, ReceiveInvalid, Receive, Latest, Persist, Advance, Publish, Crash, vars, TypeOK
  <2>. QED  BY <1>1, <1>2, <2>2 DEF LateArrivalNeverStored
<1>3. CASE r \notin stored
  <2>1. Persist(r) /\ r \in Request
    BY <1>3 DEF Next, Step, ReceiveInvalid, Receive, Latest, Persist, Advance, Publish, Crash, vars
  <2>. QED  BY <1>1, <2>1 DEF Persist, ProgressInv
<1>. QED  BY <1>2, <1>3

\* Publish appends a ping its request has stored and marked.
LEMMA PublishedStep ==
  TypeOK /\ ProgressInv /\ PublishedIsDurable /\ [Next]_vars => PublishedIsDurable'
<1>. DEFINE Durable(r) == r \in stored /\ hwm[ping[r].vehicle] >= ping[r].ts
<1>. SUFFICES ASSUME TypeOK, ProgressInv, PublishedIsDurable, [Next]_vars,
                     NEW i \in DOMAIN published'
              PROVE  Durable(published[i])'
  BY DEF PublishedIsDurable
<1>1. ASSUME NEW r \in Request, Durable(r) PROVE Durable(r)'
  <2>1. stored \subseteq stored'
    BY DEF Next, Step, ReceiveInvalid, Receive, Latest, Persist, Advance, Publish, Crash, vars
  <2>. QED  BY <1>1, <2>1, MarksGrow
<1>2. CASE published' = published
  <2>1. published[i] \in Request
    BY <1>2 DEF TypeOK
  <2>. QED  BY <1>1, <1>2, <2>1 DEF PublishedIsDurable
<1>3. CASE published' # published
  <2>1. PICK r \in Request : Publish(r) /\ published' = Append(published, r)
    BY <1>3 DEF Next, Step, ReceiveInvalid, Receive, Latest, Persist, Advance, Publish, Crash, vars
  <2>2. Durable(r)
    BY <2>1 DEF Publish, ProgressInv
  <2>3. CASE i \in DOMAIN published
    <3>1. published'[i] = published[i] /\ published[i] \in Request
      BY <2>1, <2>3 DEF TypeOK
    <3>. QED  BY <1>1, <2>3, <3>1 DEF PublishedIsDurable
  <2>4. CASE i \notin DOMAIN published
    <3>1. published'[i] = r
      BY <2>1, <2>4 DEF TypeOK
    <3>. QED  BY <1>1, <2>2, <3>1
  <2>. QED  BY <2>3, <2>4
<1>. QED  BY <1>2, <1>3

\* The inductive invariant holds in every reachable state.
THEOREM SafetyInvariant == Spec => [](TypeOK /\ SafetyInv)
<1>1. Init => TypeOK /\ SafetyInv
  <2>. SUFFICES ASSUME Init PROVE TypeOK /\ SafetyInv
    OBVIOUS
  <2>1. TypeOK
    BY EmptySeq, IngestionAssumption DEF Init, TypeOK, Ping, NoMark
  <2>2. \A r \in Request : ping[r].vehicle \in Vehicle
    BY DEF Init, Ping
  <2>3. ProgressInv
    BY <2>2 DEF Init, ProgressInv, NoMark
  <2>4. MarkIsBacked /\ LateArrivalNeverStored /\ PublishedIsDurable
    BY DEF Init, MarkIsBacked, LateArrivalNeverStored, PublishedIsDurable
  <2>. QED  BY <2>1, <2>3, <2>4 DEF SafetyInv
<1>2. TypeOK /\ SafetyInv /\ [Next]_vars => (TypeOK /\ SafetyInv)'
  BY TypeStep, ProgressStep, BackedStep, LateStep, PublishedStep DEF SafetyInv
<1>. QED  BY <1>1, <1>2, PTL DEF Spec

\* Every acknowledged ping is in the store and under the mark of its vehicle.
THEOREM AckedIsDurableCorrect == Spec => []AckedIsDurable
<1>1. SafetyInv => AckedIsDurable
  BY DEF SafetyInv, ProgressInv, AckedIsDurable
<1>. QED  BY <1>1, SafetyInvariant, PTL

\* Every mark belongs to a stored ping of its vehicle.
THEOREM MarkIsBackedCorrect == Spec => []MarkIsBacked
<1>1. SafetyInv => MarkIsBacked
  BY DEF SafetyInv
<1>. QED  BY <1>1, SafetyInvariant, PTL

\* A stored ping above the mark is between Persist and Advance, or crashed there.
THEOREM UnmarkedIsPendingCorrect == Spec => []UnmarkedIsPending
<1>1. TypeOK /\ SafetyInv => UnmarkedIsPending
  <2>. SUFFICES ASSUME TypeOK, SafetyInv, NEW r \in stored,
                       ping[r].ts > hwm[ping[r].vehicle]
                PROVE  pc[r] \in {"advance", "Crashed"}
    BY DEF UnmarkedIsPending
  <2>1. r \in Request
    BY DEF TypeOK
  <2>3. ping[r].ts \in Nat /\ hwm[ping[r].vehicle] \in Nat
    BY <2>1, MarksAreNat
  <2>4. ~(hwm[ping[r].vehicle] >= ping[r].ts)
    BY <2>3
  <2>. QED  BY <2>1, <2>4 DEF SafetyInv, ProgressInv
<1>. QED  BY <1>1, SafetyInvariant, PTL

\* A ping that arrived under the mark is never stored.
THEOREM LateArrivalNeverStoredCorrect == Spec => []LateArrivalNeverStored
<1>1. SafetyInv => LateArrivalNeverStored
  BY DEF SafetyInv
<1>. QED  BY <1>1, SafetyInvariant, PTL

\* Every event the queue took is about a stored ping under the mark.
THEOREM PublishedIsDurableCorrect == Spec => []PublishedIsDurable
<1>1. SafetyInv => PublishedIsDurable
  BY DEF SafetyInv
<1>. QED  BY <1>1, SafetyInvariant, PTL

\* No mark ever moves backwards.
THEOREM MarkMonotoneCorrect == Spec => MarkMonotone
<1>1. TypeOK /\ [Next]_vars => [\A v \in Vehicle : hwm'[v] >= hwm[v]]_vars
  BY MarksGrow
<1>. QED  BY <1>1, TypeCorrect, PTL DEF Spec, MarkMonotone

-----------------------------------------------------------------------------
(***************************************************************************)
(* What is left of Property 11: everything the queue held when a request   *)
(* arrived is at or below the mark of that moment, and a ping below that   *)
(* mark is never stored, so it is never published either.                  *)
(***************************************************************************)
HeardInv ==
  \A r \in Request : \A i \in DOMAIN published :
    i <= heard[r] /\ ping[published[i]].vehicle = ping[r].vehicle =>
      ping[published[i]].ts <= floor[r]

\* No request has heard more events than were published.
HeardBound == \A r \in Request : heard[r] <= Len(published)

\* The queue keeps what it took; an event is added at its end only.
LEMMA QueueGrows ==
  ASSUME TypeOK, [Next]_vars
  PROVE  /\ Len(published) \in Nat /\ Len(published') \in Nat
         /\ DOMAIN published = 1 .. Len(published)
         /\ Len(published') >= Len(published)
         /\ \A i \in 1 .. Len(published) :
              published'[i] = published[i] /\ published[i] \in Request
<1>1. published \in Seq(Request)
  BY DEF TypeOK
<1>2. /\ Len(published) \in Nat /\ DOMAIN published = 1 .. Len(published)
      /\ \A i \in 1 .. Len(published) : published[i] \in Request
  BY <1>1, LenProperties, ElementOfSeq
<1>3. CASE published' = published
  BY <1>2, <1>3
<1>4. CASE published' # published
  <2>1. PICK r \in Request : published' = Append(published, r)
    BY <1>4 DEF Next, Step, ReceiveInvalid, Receive, Latest, Persist, Advance, Publish, Crash, vars
  <2>2. /\ Len(published') = Len(published) + 1
        /\ \A i \in 1 .. Len(published) : published'[i] = published[i]
    BY <1>1, <2>1, AppendProperties
  <2>. QED  BY <1>2, <2>2
<1>. QED  BY <1>3, <1>4

\* What a request had heard, and the floor it met, do not change any more.
LEMMA HeardStep ==
  TypeOK /\ PublishedIsDurable /\ HeardInv /\ HeardBound /\ [Next]_vars
    => HeardInv' /\ HeardBound'
<1>. SUFFICES ASSUME TypeOK, PublishedIsDurable, HeardInv, HeardBound, [Next]_vars,
                     NEW r \in Request
              PROVE  /\ heard'[r] <= Len(published')
                     /\ \A i \in DOMAIN published' :
                          i <= heard'[r] /\ ping'[published'[i]].vehicle = ping'[r].vehicle
                          => ping'[published'[i]].ts <= floor'[r]
  BY DEF HeardInv, HeardBound
<1>1. /\ ping' = ping
      /\ \A v \in Vehicle : hwm[v] \in Nat
      /\ \A s \in Request : ping[s].ts \in Nat /\ ping[s].vehicle \in Vehicle
  BY MarksGrow
<1>2. heard[r] \in Nat
  BY DEF TypeOK
<1>3. CASE Receive(r)
  <2>1. /\ heard'[r] = Len(published) /\ floor'[r] = hwm[ping[r].vehicle]
        /\ published' = published
    BY <1>3 DEF Receive, TypeOK
  <2>2. ASSUME NEW i \in DOMAIN published, ping[published[i]].vehicle = ping[r].vehicle
        PROVE  ping[published[i]].ts <= hwm[ping[r].vehicle]
    <3>1. published[i] \in Request
      BY QueueGrows
    <3>2. hwm[ping[published[i]].vehicle] >= ping[published[i]].ts
      BY DEF PublishedIsDurable
    <3>. QED  BY <1>1, <2>2, <3>1, <3>2
  <2>. QED  BY <1>1, <2>1, <2>2, QueueGrows
<1>4. CASE ~Receive(r)
  <2>1. heard'[r] = heard[r] /\ floor'[r] = floor[r]
    BY <1>4 DEF Next, Step, ReceiveInvalid, Receive, Latest, Persist, Advance, Publish, Crash, vars, TypeOK
  <2>2. heard[r] <= Len(published')
    BY <1>2, QueueGrows DEF HeardBound
  <2>3. ASSUME NEW i \in DOMAIN published', i <= heard[r],
               ping[published'[i]].vehicle = ping[r].vehicle
        PROVE  ping[published'[i]].ts <= floor[r]
    <3>1. published' \in Seq(Request)
      BY TypeStep DEF TypeOK
    <3>2. DOMAIN published' = 1 .. Len(published')
      BY <3>1, LenProperties
    <3>3. i \in 1 .. Len(published)
      BY <1>2, <2>3, <3>2, QueueGrows DEF HeardBound
    <3>4. published'[i] = published[i] /\ i \in DOMAIN published
      BY <3>3, QueueGrows
    <3>. QED  BY <2>3, <3>4 DEF HeardInv
  <2>. QED  BY <1>1, <2>1, <2>2, <2>3
<1>. QED  BY <1>3, <1>4

\* An event overtakes a newer one of its vehicle only if their requests overlapped.
THEOREM OvertakesOnlyOverlappingCorrect == Spec => []OvertakesOnlyOverlapping
<1>1. Init => HeardInv /\ HeardBound
  BY EmptySeq DEF Init, HeardInv, HeardBound
<1>2. TypeOK /\ SafetyInv /\ HeardInv => OvertakesOnlyOverlapping
  <2>. SUFFICES ASSUME TypeOK, SafetyInv, HeardInv,
                       NEW i \in DOMAIN published, NEW j \in DOMAIN published,
                       i <= heard[published[j]],
                       ping[published[i]].vehicle = ping[published[j]].vehicle
                PROVE  ping[published[i]].ts <= ping[published[j]].ts
    BY DEF OvertakesOnlyOverlapping
  <2>1. published \in Seq(Request)
    BY DEF TypeOK
  <2>2. published[i] \in Request /\ published[j] \in Request
    BY <2>1, ElementOfSeq, LenProperties
  <2>3. ping[published[i]].ts <= floor[published[j]]
    BY <2>2 DEF HeardInv
  <2>4. ping[published[j]].ts >= floor[published[j]]
    BY DEF SafetyInv, PublishedIsDurable, LateArrivalNeverStored
  <2>5. /\ ping[published[i]].ts \in Nat /\ ping[published[j]].ts \in Nat
        /\ floor[published[j]] \in Nat
    BY <2>2, MarksAreNat
  <2>. QED  BY <2>3, <2>4, <2>5
<1>3. TypeOK /\ SafetyInv /\ HeardInv /\ HeardBound /\ [Next]_vars => HeardInv' /\ HeardBound'
  BY HeardStep DEF SafetyInv
<1>. QED  BY <1>1, <1>2, <1>3, SafetyInvariant, PTL DEF Spec

-----------------------------------------------------------------------------
\* Store and mark agree in every state.
THEOREM StoreAgreesCorrect == Spec => []StoreAgrees
BY TypeCorrect, MarkIsBackedCorrect, UnmarkedIsPendingCorrect,
   LateArrivalNeverStoredCorrect, PTL DEF StoreAgrees

\* What was acknowledged or published is durable in every state.
THEOREM SaidIsDurableCorrect == Spec => []SaidIsDurable
BY AckedIsDurableCorrect, PublishedIsDurableCorrect, PTL DEF SaidIsDurable

\* Marks go forward, and so do the events of requests that do not overlap.
THEOREM MarksAdvanceCorrect == Spec => MarksAdvance
BY MarkMonotoneCorrect, OvertakesOnlyOverlappingCorrect, PTL DEF MarksAdvance
=============================================================================
