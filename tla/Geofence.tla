------------------------------ MODULE Geofence ------------------------------
(***************************************************************************)
(* The geofence engine (services/geofence): OnAcceptedPing compares the    *)
(* zones that contain a ping with the vehicle's recorded membership and    *)
(* generates an Enter or Exit for each difference.                         *)
(*                                                                         *)
(* A call takes no lock of its own: the catalog query, the membership      *)
(* read, each membership write and each publish are steps of their own.    *)
(* Where the ping lies is abstracted to the set of zones that contain it,  *)
(* a zone's label to whether it has one.  Nothing orders the calls of one  *)
(* vehicle, and a restart may lose the store; together and forgotten       *)
(* record where that happened.                                             *)
(***************************************************************************)
EXTENDS Integers, Sequences

CONSTANTS
  Vehicle, Ping,
  Zone,      \* zone ids, ordered as the engine sorts them
  Labelled   \* the zones with an arrival label

ASSUME GeofenceAssumption ==
  /\ Zone \subseteq Nat
  /\ Labelled \subseteq Zone

VARIABLES
  catalog,    \* the zones that exist
  inside,     \* MembershipStore: the zones each vehicle is recorded inside
  call,       \* the OnAcceptedPing call of each ping
  history,    \* the events generated for each vehicle and zone, in order
  published,  \* the events the publisher took, in order
  together,   \* history: the calls that ran while another of their vehicle did
  forgotten   \* history: the vehicles a restart lost recorded zones of

vars == <<catalog, inside, call, history, published, together, forgotten>>

Running == {"evaluated", "changing", "publishing"}
NewCall(v) == [pc |-> "new", vehicle |-> v,
               current |-> {}, prior |-> {}, changed |-> {}, events |-> {}]

\* A call that is over leaves nothing behind.
Over(p, pc) == [NewCall(call[p].vehicle) EXCEPT !.pc = pc]

\* The other calls that are running for the vehicle of p.
Company(p) == {q \in Ping \ {p} : /\ call[q].vehicle = call[p].vehicle
                                  /\ call[q].pc \in Running}

\* What a call still has to change.
Enters(p) == (call[p].current \ call[p].prior) \ call[p].changed
Exits(p)  == (call[p].prior \ call[p].current) \ call[p].changed

Init ==
  /\ catalog = {}
  /\ inside = [v \in Vehicle |-> {}]
  /\ \E of \in [Ping -> Vehicle] : call = [p \in Ping |-> NewCall(of[p])]
  /\ history = [v \in Vehicle |-> [z \in Zone |-> <<>>]]
  /\ published = <<>>
  /\ together = {} /\ forgotten = {}

-----------------------------------------------------------------------------
\* The zone service stores a new zone; the code deletes none.
CreateZone(z) ==
  /\ catalog' = catalog \cup {z}
  /\ UNCHANGED <<inside, call, history, published, together, forgotten>>

\* catalog.Containing answers, or fails and the call with it.
Evaluate(p) ==
  /\ call[p].pc = "new"
  /\ \/ \E zones \in SUBSET catalog :
          /\ call' = [call EXCEPT ![p].pc = "evaluated", ![p].current = zones]
          /\ together' = IF Company(p) = {} THEN together
                         ELSE together \cup Company(p) \cup {p}
     \/ /\ call' = [call EXCEPT ![p].pc = "failed"]
        /\ UNCHANGED together
  /\ UNCHANGED <<catalog, inside, history, published, forgotten>>

MutReadPriorEmpty(p) ==
  /\ call[p].pc = "evaluated"
  /\ call' = [call EXCEPT ![p].pc = "changing", ![p].prior = {}]
  /\ UNCHANGED <<catalog, inside, history, published, together, forgotten>>
ReadPrior(p) ==
  /\ call[p].pc = "evaluated"
  /\ call' = [call EXCEPT ![p].pc = "changing", ![p].prior = inside[call[p].vehicle]]
  /\ UNCHANGED <<catalog, inside, history, published, together, forgotten>>

\* An event joins the call's slice; n is its place among the events of the
\* vehicle and zone.
Generate(p, z, type, label) ==
  LET v == call[p].vehicle
      e == [vehicle |-> v, zone |-> z, type |-> type, label |-> label,
            n |-> Len(history[v][z]) + 1] IN
  /\ history' = [history EXCEPT ![v][z] = Append(@, type)]
  /\ call' = [call EXCEPT ![p].events = @ \cup {e}, ![p].changed = @ \cup {z}]

Enter(p, z) ==
  /\ call[p].pc = "changing"
  /\ z \in Enters(p)
  /\ Generate(p, z, "Enter", z \in Labelled)
  /\ inside' = [inside EXCEPT ![call[p].vehicle] = @ \cup {z}]
  /\ UNCHANGED <<catalog, published, together, forgotten>>

\* The label of an Exit is looked up again; when the lookup fails there is none.
Exit(p, z) ==
  /\ call[p].pc = "changing"
  /\ Enters(p) = {}
  /\ z \in Exits(p)
  /\ \E found \in BOOLEAN : Generate(p, z, "Exit", found /\ z \in catalog \cap Labelled)
  /\ inside' = [inside EXCEPT ![call[p].vehicle] = @ \ {z}]
  /\ UNCHANGED <<catalog, published, together, forgotten>>

StartPublish(p) ==
  /\ call[p].pc = "changing"
  /\ Enters(p) = {} /\ Exits(p) = {}
  /\ call' = [call EXCEPT ![p].pc = "publishing"]
  /\ UNCHANGED <<catalog, inside, history, published, together, forgotten>>

\* The events go out by zone id; one that cannot be published is dropped.
MutPublishAgain(p, ok) ==
  \E e \in call[p].events :
    /\ call[p].pc = "publishing"
    /\ \A f \in call[p].events : e.zone <= f.zone
    /\ published' = Append(published, e)
    /\ call' = [call EXCEPT ![p].events = IF ok THEN @ \ {e} ELSE @]
    /\ UNCHANGED <<catalog, inside, history, together, forgotten>>
Publish(p, ok) ==
  \E e \in call[p].events :
    /\ call[p].pc = "publishing"
    /\ \A f \in call[p].events : e.zone <= f.zone
    /\ published' = IF ok THEN Append(published, e)
                    ELSE published
    /\ call' = [call EXCEPT ![p].events = @ \ {e}]
    /\ UNCHANGED <<catalog, inside, history, together, forgotten>>

Return(p) ==
  /\ call[p].pc = "publishing" /\ call[p].events = {}
  /\ call' = [call EXCEPT ![p] = Over(p, "done")]
  /\ UNCHANGED <<catalog, inside, history, published, together, forgotten>>

\* The process restarts: its calls are gone.  MemoryMembership, the store
\* main.go builds, goes with it; the production store it names would not.
Restart ==
  /\ call' = [p \in Ping |-> IF call[p].pc \in Running THEN Over(p, "stopped")
                            ELSE call[p]]
  /\ \/ UNCHANGED <<inside, forgotten>>
     \/ /\ inside' = [v \in Vehicle |-> {}]
        /\ forgotten' = forgotten \cup {v \in Vehicle : inside[v] # {}}
  /\ UNCHANGED <<catalog, history, published, together>>

Next ==
  \/ \E z \in Zone : CreateZone(z)
  \/ \E p \in Ping :
       \/ Evaluate(p)
       \/ ReadPrior(p)
       \/ \E z \in Zone : Enter(p, z) \/ Exit(p, z)
       \/ StartPublish(p)
       \/ \E ok \in BOOLEAN : Publish(p, ok)
       \/ Return(p)
  \/ Restart

Spec == Init /\ [][Next]_vars

-----------------------------------------------------------------------------
\* The state has the shape the Go types give it, and an event in a call's
\* slice is about that call's vehicle, a zone it changed, and has been
\* recorded.
ZoneEvent == [vehicle : Vehicle, zone : Zone, type : {"Enter", "Exit"},
              label : BOOLEAN, n : Nat]
EngineCall == [pc : Running \cup {"new", "done", "failed", "stopped"},
               vehicle : Vehicle, current : SUBSET Zone, prior : SUBSET Zone,
               changed : SUBSET Zone, events : SUBSET ZoneEvent]
TypeOK ==
  /\ catalog \subseteq Zone
  /\ inside \in [Vehicle -> SUBSET Zone]
  /\ call \in [Ping -> EngineCall]
  /\ \A p \in Ping : \A e \in call[p].events :
       /\ e.vehicle = call[p].vehicle
       /\ e.zone \in call[p].changed
       /\ e.n <= Len(history[e.vehicle][e.zone])
  /\ history \in [Vehicle -> [Zone -> Seq({"Enter", "Exit"})]]
  /\ published \in Seq(ZoneEvent)
  /\ together \subseteq Ping
  /\ forgotten \subseteq Vehicle

\* The vehicles two of whose calls ran at once.
Overlapped == {call[p].vehicle : p \in together}

\* A zone the store records was entered last: its newest event is an Enter,
\* however calls overlap and whatever a restart loses.  Only a loss leaves an
\* entered zone unrecorded (engine.go 84, 104).
StoreFollows ==
  \A v \in Vehicle, z \in Zone :
    LET n == Len(history[v][z])
        entered == n > 0 /\ history[v][z][n] = "Enter" IN
    /\ z \in inside[v] => entered
    /\ entered /\ v \notin forgotten => z \in inside[v]

\* As long as no two calls of a vehicle ran at once, an Exit of a zone follows
\* an Enter of it, restarts included; and an Enter follows an Exit, or is the
\* first event, unless a restart lost recorded zones of the vehicle.  A ping
\* that leaves membership as it is makes no event, each transition makes one
\* (engine.go OnAcceptedPing; requirements 6.3-6.5).
Alternates ==
  \A v \in Vehicle \ Overlapped, z \in Zone :
    \A i \in 1..Len(history[v][z]) :
      /\ history[v][z][i] = "Exit" => i > 1 /\ history[v][z][i - 1] = "Enter"
      /\ history[v][z][i] = "Enter" /\ i > 1 /\ v \notin forgotten
           => history[v][z][i - 1] = "Exit"

\* The same of every vehicle.  Two calls that read the same prior membership
\* break it, and so does a restart with the in-memory store.
AlternatesAlways ==
  \A v \in Vehicle, z \in Zone :
    \A i \in 1..Len(history[v][z]) :
      history[v][z][i] = IF i % 2 = 1 THEN "Enter" ELSE "Exit"

\* When a call that ran without another of its vehicle has made its changes,
\* the store records exactly the zones that contain its ping, whatever
\* overlapping calls or a restart had left there before.
MembershipIsThePings ==
  \A p \in Ping \ together :
    call[p].pc = "publishing" => inside[call[p].vehicle] = call[p].current

\* The publisher takes each event at most once; and as long as no two calls of
\* the vehicle ran at once, the events of a vehicle and a zone in the order
\* they were generated: losses and restarts leave gaps, never a stale event
\* after a newer one (engine.go's sorted publish loop).
PublishedInOrder ==
  \A i, j \in 1..Len(published) :
    i < j /\ published[i].vehicle = published[j].vehicle
          /\ published[i].zone = published[j].zone
      => /\ published[i].n # published[j].n
         /\ published[i].vehicle \notin Overlapped => published[i].n < published[j].n

\* An event carries a label exactly when its zone has one (design.md,
\* Property 18).  A lookup that fails breaks it.
LabelIffConfigured ==
  \A i \in 1..Len(published) : published[i].label = (published[i].zone \in Labelled)

\* Events and membership say the same.
EventsMatchMembership ==
  TypeOK /\ StoreFollows /\ Alternates /\ MembershipIsThePings
=============================================================================
