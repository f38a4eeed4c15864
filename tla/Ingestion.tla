------------------------------ MODULE Ingestion ------------------------------
(***************************************************************************)
(* The ingestion service (services/ingestion): concurrent POST /ping       *)
(* requests, each one a goroutine that runs Service.Ingest against a       *)
(* shared Store and a shared per-vehicle HighWaterMark.                    *)
(*                                                                         *)
(* Every call Ingest makes on a shared object takes and releases that      *)
(* object's own lock, so a request is five separately scheduled steps:     *)
(* validate, Latest, Persist, Advance, Publish.  Nothing holds a lock      *)
(* across them.  A ping is identified by the request that carries it (the  *)
(* service gives every stored ping a fresh id); its payload is abstracted  *)
(* to its vehicle and its timestamp.                                       *)
(***************************************************************************)
EXTENDS Naturals, Sequences

CONSTANTS
  Request,     \* requests, each carrying one ping
  Vehicle,     \* vehicle ids
  Timestamp    \* the event timestamps pings may carry

ASSUME IngestionAssumption == Timestamp \subseteq Nat \ {0}

VARIABLES
  pc,         \* pc[r]: the next step of request r, or how it ended
  ping,       \* ping[r]: the ping r carries (meaningful once r has arrived)
  stored,     \* the requests whose ping the Store holds
  hwm,        \* hwm[v]: the HighWaterMark of v, NoMark when it has none
  published,  \* the accepted-ping events the queue took, in order
  floor,      \* history: floor[r] is hwm of r's vehicle when r arrived
  heard       \* history: heard[r] is how many events the queue had when r arrived

vars == <<pc, ping, stored, hwm, published, floor, heard>>

NoMark   == 0
Ping     == [vehicle : Vehicle, ts : Timestamp]
Running  == {"latest", "persist", "advance", "publish"}
Answered == {"Accepted", "Invalid", "Stale", "Error"}
Outcome  == Answered \cup {"Crashed"}

Goto(r, label) == pc' = [pc EXCEPT ![r] = label]

Init ==
  /\ pc = [r \in Request |-> "idle"]
  /\ ping \in [Request -> Ping]
  /\ stored = {}
  /\ hwm = [v \in Vehicle |-> NoMark]
  /\ published = <<>>
  /\ floor = [r \in Request |-> NoMark]
  /\ heard = [r \in Request |-> 0]

-----------------------------------------------------------------------------
(***************************************************************************)
(* The steps of one request.                                               *)
(***************************************************************************)

\* A request arrives and its body does not decode or fails Validate: 400.
ReceiveInvalid(r) ==
  /\ pc[r] = "idle"
  /\ Goto(r, "Invalid")
  /\ UNCHANGED <<ping, stored, hwm, published, floor, heard>>

\* A request arrives with a valid ping.
Receive(r) ==
  /\ pc[r] = "idle"
  /\ Goto(r, "latest")
  /\ floor' = [floor EXCEPT ![r] = hwm[ping[r].vehicle]]
  /\ heard' = [heard EXCEPT ![r] = Len(published)]
  /\ UNCHANGED <<ping, stored, hwm, published>>

\* hwm.Latest: a ping older than the mark is discarded with Stale (409).
MutLatestNoStaleTest(r) ==
  /\ pc[r] = "latest"
  /\ Goto(r, "persist")
  /\ UNCHANGED <<ping, stored, hwm, published, floor, heard>>
Latest(r) ==
  /\ pc[r] = "latest"
  /\ Goto(r, IF ping[r].ts < hwm[ping[r].vehicle] THEN "Stale" ELSE "persist")
  /\ UNCHANGED <<ping, stored, hwm, published, floor, heard>>

\* store.Persist: an error ends the request unacknowledged (500), with
\* nothing advanced and nothing published.
MutPersistPublishesFirst(r) ==
  /\ pc[r] = "persist"
  /\ Goto(r, "advance")
  /\ stored' = stored \cup {r}
  /\ published' = Append(published, r)
  /\ UNCHANGED <<ping, hwm, floor, heard>>
Persist(r) ==
  /\ pc[r] = "persist"
  /\ \/ /\ stored' = stored \cup {r}
        /\ Goto(r, "advance")
     \/ /\ Goto(r, "Error")
        /\ UNCHANGED stored
  /\ UNCHANGED <<ping, hwm, published, floor, heard>>

\* hwm.Advance: the mark moves only forward.
MutAdvanceOverwrites(r) ==
  /\ pc[r] = "advance"
  /\ hwm' = [hwm EXCEPT ![ping[r].vehicle] = ping[r].ts]
  /\ Goto(r, "publish")
  /\ UNCHANGED <<ping, stored, published, floor, heard>>
Advance(r) ==
  /\ pc[r] = "advance"
  /\ hwm' = [hwm EXCEPT ![ping[r].vehicle] =
               IF ping[r].ts > @ THEN ping[r].ts ELSE @]
  /\ Goto(r, "publish")
  /\ UNCHANGED <<ping, stored, published, floor, heard>>

\* publisher.Publish is best effort: a failure is logged and the request is
\* still acknowledged (200).
Publish(r) ==
  /\ pc[r] = "publish"
  /\ published' \in {published, Append(published, r)}
  /\ Goto(r, "Accepted")
  /\ UNCHANGED <<ping, stored, hwm, floor, heard>>

\* The replica that runs r dies between two steps; Store, HighWaterMark and
\* queue are shared by all replicas and keep what r did.
Crash(r) ==
  /\ pc[r] \in Running
  /\ Goto(r, "Crashed")
  /\ UNCHANGED <<ping, stored, hwm, published, floor, heard>>

Step(r) == Latest(r) \/ Persist(r) \/ Advance(r) \/ Publish(r)

\* Every request ends; the system stops when all of them have ended.
Next == \E r \in Request : ReceiveInvalid(r) \/ Receive(r) \/ Step(r) \/ Crash(r)

Spec == Init /\ [][Next]_vars

-----------------------------------------------------------------------------
(***************************************************************************)
(* Properties.                                                             *)
(***************************************************************************)

\* Types of the variables.
TypeOK ==
  /\ pc \in [Request -> {"idle"} \cup Running \cup Outcome]
  /\ ping \in [Request -> Ping]
  /\ stored \subseteq Request
  /\ hwm \in [Vehicle -> Timestamp \cup {NoMark}]
  /\ published \in Seq(Request)
  /\ floor \in [Request -> Timestamp \cup {NoMark}]
  /\ heard \in [Request -> Nat]

\* An acknowledged ping is durable and the mark covers it, whatever other
\* requests, crashes and failed publishes did meanwhile (Ingest persists and
\* advances before it acknowledges).
AckedIsDurable ==
  \A r \in Request : pc[r] = "Accepted" =>
    r \in stored /\ hwm[ping[r].vehicle] >= ping[r].ts

\* The mark of a vehicle is the timestamp of a ping of that vehicle that is in
\* the store: no mark is ever set for a ping that was not persisted.
MarkIsBacked ==
  \A v \in Vehicle : hwm[v] # NoMark =>
    \E r \in stored : ping[r].vehicle = v /\ ping[r].ts = hwm[v]

\* A stored ping is newer than the mark only while its own request is between
\* Persist and Advance, or died there: a lost update of the mark never hides one.
UnmarkedIsPending ==
  \A r \in stored : ping[r].ts > hwm[ping[r].vehicle] => pc[r] \in {"advance", "Crashed"}

\* A ping that arrives after the mark passed it is never stored, however the
\* requests interleave after that.
LateArrivalNeverStored == \A r \in stored : ping[r].ts >= floor[r]

\* What the geofence engine and the hub receive is in the store and under the
\* mark: an event never announces a ping that can still be refused.
PublishedIsDurable ==
  \A i \in DOMAIN published :
    LET r == published[i] IN r \in stored /\ hwm[ping[r].vehicle] >= ping[r].ts

\* Property 11 of the design: a ping older than the latest accepted one is
\* discarded.  Two overlapping requests break it: the mark may pass a ping
\* between its Latest and its Persist.
StaleDiscarded ==
  [][\A r \in stored' \ stored : ping[r].ts >= hwm[ping[r].vehicle]]_vars

\* What is left of Property 11 for the consumers of the queue, whatever the
\* phones do: an event comes after an event of the same vehicle with a newer
\* timestamp only when its request had arrived before that one was published.
\* A request that begins later is never published behind its time.
OvertakesOnlyOverlapping ==
  \A i, j \in DOMAIN published :
    /\ i <= heard[published[j]]
    /\ ping[published[i]].vehicle = ping[published[j]].vehicle
    => ping[published[i]].ts <= ping[published[j]].ts

\* The mark of a vehicle never moves backwards (Advance compares before it writes).
MarkMonotone == [][\A v \in Vehicle : hwm'[v] >= hwm[v]]_vars

\* Store and mark agree, whatever requests, failures and crashes did.
StoreAgrees ==
  /\ TypeOK /\ MarkIsBacked
  /\ UnmarkedIsPending /\ LateArrivalNeverStored

\* What has been said to the phone, or to the queue, is true and stays true.
SaidIsDurable == AckedIsDurable /\ PublishedIsDurable

\* Marks only go forward, and so do the events of requests that do not overlap.
MarksAdvance == MarkMonotone /\ []OvertakesOnlyOverlapping
=============================================================================
