# Fleet Command Center in TLA+

TLA+ models of the services of this repository, TLC instances that check them,
and TLAPS proofs about them. Paths are relative to `src/`, the root of the
repository. `PROJECT.json` lists every run, every definition with the lines it
models, the hazards the properties are for, and the disagreements found between
the code and its documents.

    tlc -config MCGeofence.cfg MCGeofence.tla     # check an instance
    tlapm GeofenceProofs.tla                      # check the proofs

## 1. The system

Fleet Command Center tracks vehicles. Driver phones send location pings to the
ingestion service (Go), which stores them and announces each accepted one. The
geofence engine (Go) turns accepted pings into Enter and Exit events. The
streaming service (Go) pushes positions and events to dashboards and customers.
The management service (TypeScript) keeps drivers, vehicles, deliveries,
assignments, routes and zones. A Python service orders the stops of a route.
Two Flutter apps and a React dashboard are the clients.

| component | state it keeps | operations | talks to |
|---|---|---|---|
| Ingestion (`services/ingestion`) | `Store` of pings, `HighWaterMark` per vehicle | `POST /ping`: Validate, Latest, Persist, Advance, Publish | phones (HTTP), the accepted-ping queue |
| Geofence (`services/geofence`) | `MembershipStore`: the zones each vehicle is inside | `OnAcceptedPing` | the zone catalog, the accepted-ping queue, the zone-event queue |
| Streaming (`services/streaming`) | per replica: clients, rooms, sessions, status; retained zone events | Connect, Subscribe, Unsubscribe, Disconnect, Broadcast, deliverLocal; Deliver, Retry, DeliverWithRetries | WebSocket clients, Redis Pub/Sub |
| Management: drivers, vehicles, deliveries, assignments, routes | one repository each | register, setAvailability, update, deactivate; associateDriver; create, transition; create, accept, reassign; createOrUpdateRoute, completeIfAllStopsTerminal | each other by calls that await repositories; geocoder, optimizer |
| Management: notifications | none | handleZoneEvent | deliveries and assignments, a notifier |
| Management: zones, reporting, retention, auth, validation | zones; status history and pings; accounts | create; three queries; purge (SQL); login, refresh, tracking tokens, authorize; four validators | each other by imports |
| Optimizer (`services/optimizer`) | none | cluster_stops, solve | OR-tools |
| Driver app | shift, route, offline `PingQueue`, flushes | sign in and out, start, progress, submit, setOnline, flush | a ping sink |
| Customer app | the view of one delivery | resolve the link, apply status, position and arrival | a tracking service |
| Dashboard | `SocketClient`, fleet, traces, feed, map, hash route, branding, toasts, dialog | connect, disconnect, subscribe; effects and timers | the streaming service or its own simulation |

### What is hard here, and what makes each part correct

*Ingestion.* Every request is a goroutine, and each of its steps locks another
shared object: nothing is held from the staleness test to the store. An
acknowledged ping must be durable, a mark must stand for a stored ping and only
grow, a ping that arrives under the mark must not be stored, and an event must
be about a durable ping, with failures and crashes between any two steps.

*Dispatch (drivers, vehicles, deliveries, assignments, routes).* Each service
writes the records of others: create sets deliveries and a driver, completion
sets an assignment and a driver. Links must not dangle, terminal must be final,
and the driver's status must agree with the assignments. Each handler awaits the
repositories between its reads and its writes, and saves whole records.

*Route building.* It awaits the position, the optimizer with a timeout, two
repository calls and a publisher. Whatever the optimizer answers, the stored
route must visit each delivery once; what the driver has must be what is stored.

*Geofence.* One event per transition, from a membership that is read, compared
and written in separate steps; publishing is best effort.

*Streaming.* A session outlives its connections, a dropped socket is noticed
late, a broadcast goes through a channel that promises nothing, and one pump
goroutine serves all the clients of a replica. The retry queue is emptied and
refilled by goroutines that hold its lock only at the two ends.

*Notifications, auth, registers.* A snapshot that is used over several awaits,
tokens that outlive what they say, look-ups that another call overtakes.

*Phones.* Pings must be neither lost nor sent twice while submits, flushes,
failures and the connection interleave over one bounded queue; a customer must
not see a position outside of the trip.

*Dashboard.* JavaScript runs one callback at a time, so that the hazards are
orders of callbacks: a timer that fires after a call of the user, an answer
of an old request after that of a new one, an effect that runs for an old
closure, a hash change that is reported late.

## 2. The modules

| module | extends | what it is |
|---|---|---|
| `Ingestion` | | the requests of the ingestion service |
| `Dispatch` | | the management services, one action per call |
| `DispatchHistory` | `Dispatch` | the same calls, with a memory of those that bypass the workflow |
| `DispatchConcurrent` | `Dispatch` | the same handlers, split at their awaits |
| `Registers` | | the registers of drivers and vehicles: unique keys, stamps |
| `Ordering` | | sorting and filtering, by the position an element gets (operators) |
| `RouteBuilder` | `Ordering` | the stops of a route from an optimizer's answer (operators) |
| `Routes` | `RouteBuilder` | building routes, at each await |
| `Optimizer` | `RouteBuilder` | the clusters of stops, and their way into the route builder |
| `ArrivalNotices` | | telling customers of an arrival, at each await |
| `Sessions` | | accounts, tokens, roles against a clock |
| `Validation` | `Ordering` | the validators of requests |
| `Zones` | | creating a zone, with the polygon checks |
| `Reporting` | `Ordering` | the three queries over the logs |
| `StreamHub` | | the hubs of all replicas, the sockets and the Redis channel |
| `ZoneEventPromise` | | requirement 6.7 as an abstract specification |
| `ZoneEventDelivery` | | the retry queue, which implements it |
| `Geofence` | | the calls of the geofence engine |
| `DriverApp`, `Tracking` | | the driver's phone; the customer's page |
| `SocketClient` | | the dashboard's reconnecting client against sockets, timers, server |
| `FleetState` | | fleet, traces and feed made of the frames |
| `MapView`, `GlobeSpin` | | the live map; the turning globe |
| `Shell`, `Brand`, `Widgets` | | navigation; branding; toasts and dialog |
| `Tables`, `Roster` | (`Tables`) | the operations views; how they join records |
| `FleetSimulation` | | the simulated vehicle of the demo mode |
| `IngestionProofs`, `GeofenceProofs` | the module they are named for | theorems about it |
| `StreamHubProofs` | `StreamHub`, `ZoneEventDelivery`, `FleetState` | theorems about the hub, the retry queue and what the dashboard makes of the frames |
| `DispatchProofs` | `DispatchHistory`, `DispatchConcurrent` | theorems about the atomic calls, the interleaved ones, and how the second implement the first |
| `ManagementProofs` | `Registers`, `Sessions`, `ArrivalNotices`, `Routes`, `Reporting`, `Validation`, `Zones` | theorems about the rest of the management service |
| `OptimizerProofs` | `Optimizer` | theorems about the clusters and the answer |
| `ClientProofs` | `Shell`, `MapView`, `Brand`, `SocketClient`, `Widgets`, `Roster`, `FleetSimulation`, `GlobeSpin`, `Tracking`, `DriverApp` | theorems about the dashboard and the apps |
| `OrderingProofs` | `Ordering` | lemmas: what is put in order or selected, induction over numbers, recursive functions |
| `MC*` | one or several of them | instances for TLC |

A definition whose name begins with `Mut` is a plausible mistake in the code
beside it. No specification uses it; putting it in the place of the definition
that follows must break a property, which shows that the property depends on
that code.

### Ingestion

`pc[r]` is where the goroutine of request `r` is in `Service.Ingest`; `stored`,
`hwm` and `published` are `Store`, `HighWaterMark` and the queue. Each action is
one call on one of these, for each takes and releases its own lock. `Validate`
is one step that accepts or rejects. `Persist` may fail (500), `Publish` may
fail (logged, 200). `Crash` ends one request anywhere, and the shared stores
survive: the handler panics and `net/http` recovers, or its replica dies and the
stores are external. `floor` and `heard` are history variables: the mark, and how
much had been published, when the request arrived. Nothing is assumed of the
phones: the driver app calls `submit` without waiting for it
(`driver_state.dart:149`), so requests of one vehicle overlap, and what the model
claims of the order of events is what is left then: an event follows a newer one
of its vehicle only when their requests overlapped (`OvertakesOnlyOverlapping`).

### Dispatch and DispatchConcurrent

`driver`, `vehicle`, `delivery` and `assignment` are the four repositories. In
`Dispatch` a call of a service method is one action: its guard is the
conjunction of the method's rejections and its effect all its saves. A rejected
call changes nothing, so it is no action. The four repositories resolve at once,
as microtasks, and a call that is alone runs to its end. Calls that are started
in the same tick, or over repositories that do I/O, interleave at each `await`;
`DispatchConcurrent` gives every repository call a step of its own, with the
records a handler has read as a snapshot in `call[r]`. `AtomicCalls` says that
with one call at a time it implements `Dispatch`, under a mapping in which a
call takes effect at its first write.

`findByDriverId` returns the first vehicle in insertion order, which the model
leaves open as any vehicle of the driver. E-mail, plate and address checks only
decide whether an id stays absent; `Registers` has them. The services refuse
neither a status set by hand (`update`) nor accept and completion called again on
a completed assignment, and the model makes both. `DispatchHistory` remembers
them: `byHand` are the drivers, `repeated` the assignments they were made for.
The rules that tie a driver's status to the assignments hold for every driver
outside of these, whatever is done to the others (`StatusMatchesWork`).

### Registers

One module for the two registers, which are alike: `index` is the map from a
folded e-mail or identifier to an id, `calls[s]` what a call has read. The
look-up and the insert of a create are two steps, and so are the read and the
save of a change. `lastStamp` is `DriverService`'s map, `SaveElsewhere` the
saves of other services with the time their call began, `SetClock` a clock that
may go back.

### Routes, RouteBuilder, Optimizer

`builds[c]` is a call of `createOrUpdateRoute` with its locals; the steps are
its awaits. The list of deliveries is taken at the start, in the repository's
order. `Answered` lets the optimizer answer anything in `Answer`: good
sequences, repetitions, foreign deliveries, omissions, groups that overlap.
`FailedOrTimedOut` is its rejection and the 30 s timeout, which settle the same
promise. `Relink` is what the other services do to the assignment meanwhile.
`shownRoute` is the last event published. In `Optimizer`, `parent` is the
union-find and `todo` the pairs the two loops have still to compare; closeness
is an arbitrary relation, and OR-tools an arbitrary order of the clusters. Its
answer goes through the same `OptimizedStops` that `Routes` uses.

### ArrivalNotices, Sessions, Validation, Zones, Reporting

`handling[h]` is a call of `handleZoneEvent`: its snapshot of the deliveries,
where its loop is, whom it has told. `Others` is what the other services change
between its awaits, a complete assignment accepted again included; `due[h]` is
history, and its `back` what came back to the vehicle that way.

`tokens` are the JWTs somebody holds, as their claims; a forged one does not
verify and is left out. `clock` counts milliseconds, `Second` of them to a
second, because the claims are in whole seconds. Refreshing copies the role of
the refresh token. `Authorize` is the role matrix.

`Validation` is operators over absent, blank, textual, `NaN` and numeric values
scaled to small bounds. `Zones` reads a ring position by position on a grid and
checks it as `PurePolygonValidator` does; the property uses a second definition
of a simple polygon, by Cramer's rule. `Reporting` appends to two logs and
states its queries as operators over them.

### Geofence

`call[p]` is the `OnAcceptedPing` call of ping `p` with its local variables
`current`, `prior` and `events`; `changed` are the zones the loop has been
through. `inside` is the `MembershipStore`. The position of a ping is abstracted
to the set of zones that contain it, which `Evaluate` chooses; it also fails.
The order in which a Go map is walked is open, and the publish loop is in zone
order. `history` records the events as they are generated. The repository has no
consumer that would run the calls of a vehicle one by one, so they overlap at
every step; and the store that `main.go` builds is in memory, so `Restart` may
lose it (or keep it, as the production store that file names would). Two history
variables record where that happened, `together` (the calls that ran while
another of their vehicle did) and `forgotten` (the vehicles a restart lost zones
of), and each property says which of the two it survives: `StoreFollows` both,
`MembershipIsThePings` every restart and all overlaps but the call's own,
`Alternates` restarts of the other vehicles' stores, and half of it a lost one.

### StreamHub and ZoneEventDelivery

`members`, `session` and `status` are the maps of each replica's `Hub`, and
`conn[c]` is the connection's handler with its `Client` record. Each method of
`Hub` holds the hub's lock throughout and is one action. `deliverLocal` copies a
room under the read lock and writes without it: `FanStart`, a `FanDeliver` per
client, `FanDone`. A socket that has dropped is `"broken"` until the read loop
fails and the deferred `Disconnect` runs. `Broadcast` gives the message to any
subset of the replicas, since Redis Pub/Sub loses messages and keeps one order.
`SharedKeys` are the sessions that may have several connections at a time (a
reload before the old socket is noticed, two tabs), `Stalled` names the clients
that stop reading.

`pending` is the slice of the retry queue, `batch` and `keep` are a Retry's
local slices. Sends run without the lock and succeed or fail freely. An event is
handed in once, by `Deliver` or by `DeliverWithRetries`. `RetriesAsPromised` is
the refinement of `ZoneEventPromise`: whatever goroutines make them, the
attempts of an event are a first one and at most three retries, none after a
success.

### DriverApp and Tracking

`queue` is the bounded `PingQueue`, `sending` the submits that await the sink,
`flushes` the flushes in progress with what they have still to send and what has
failed. The sink's future ends in true, in false, or throws; nothing catches the
last, which takes along the ping of a submit, or all that a flush has drained and
not sent (`thrown`). The buttons that the screens offer bound what the user can
do. In `Tracking`, `streamed` are status changes on their way to the page,
`lookedUp` the answer of the look-up that was made when the link was resolved. Two
variables are history: `trip`, the first position that belongs to the present
trip, and `missed`, that a change came between the look-up and the view it leads
to.

### The dashboard

`SocketClient`: `phase[t]` is the state of a socket, `timers` the timers that
will fire, of which `reconnectHandle` remembers one; `wire` are the frames on
their way, `asked` what those that arrived ask for, taken in order, and `rooms`
what the server has made of them. That is nothing: the client puts the topic under
the key `payload` and the server looks for it under `data` (`FrameKeys`, `Found`),
so the room it computes has no kind and is ignored. What holds of the client is
therefore stated of the frames (`FramesFollowSubscriptions`), and what the
protocol promises is a run of its own, which ends in a violation. A simulated
transport is one of the two `kind`s. `FleetState`: a position is its timestamp, and
frames come in any order of theirs. `MapView`: updates and clicks only mark the
view dirty, `Commit` is the render with its effects in their order. `GlobeSpin`:
an animation ends with `moveend`, a new one replaces the old; `held` is how many
fingers and buttons are really down, each of which comes and goes with an event of
its own, unless it goes unreported (`ReleaseUnseen`), and `report` what the events
have said last. `Shell`: the
browser reports a hash change late, and several as one. `Brand`: a fetch answers
at any time, or not at all, and its effect's cleanup cancels it. `Widgets`: the
toasts' timers and the dialog's listener, which is replaced at every render.
`Tables` and `Roster`: filters, sorting and joins over any records the types
allow. `FleetSimulation`: the walk along a closed loop on a grid, with the ray
cast that is also the geofence's.

## 3. The runs

The properties of `PROJECT.json` are conjunctions with a name: `SocketSafe` is
`SocketTypeOK`, `OneSocket`, `NeverStranded` and `FramesFollowSubscriptions`,
each defined and explained in its module.

| run | properties | bounds |
|---|---|---|
| `ingestion` | acknowledged is durable, marks are backed and monotone, late pings are never stored, only overlapping requests overtake | 3 requests, 2 vehicles, 3 timestamps |
| `dispatch` | links, vehicles, finished assignments, final statuses; unless the workflow was bypassed for a driver, the driver of an active assignment is On_Delivery, with one at a time, and an On_Delivery driver has an unfinished one | 2 drivers, 2 vehicles, 2 deliveries, 2 assignments, any callers |
| `concurrent_one` | split handlers implement the atomic calls | one call slot |
| `concurrent_two` | links are real and nothing returns to Created | two call slots, 1 driver, 1 delivery, 2 assignments |
| `hub` | rooms and clients agree, connected means connected, what is persisted and resumed, order, relevance | 2 replicas, 2 connections, 2 keys (one shared), 2 rooms, 2 messages |
| `hub_served` | every subscriber is served | 2 connections, 2 messages, fair |
| `geofence` | the store follows the newest event; Enter and Exit take turns, membership is the ping's, published once and in order | 3 pings, 2 vehicles, 2 zones, overlapping calls, restarts with and without the store |
| `console` | the parts of the dashboard, one at a time | below |
| `services` | the other parts of the services and the two apps, one at a time | below |

`console` and `services` put several parts that do not interact into one
instance: `subject` names the part that runs, chosen at the start, and the
others stand still. Every behaviour of each part is one of the instance, so a
property of a part is checked over all of its states.

| part | bounds | properties |
|---|---|---|
| socket | 2 topics, 2 sockets, 2 timers, 3 frames on the wire, 2 steps of back-off | one socket, never stranded, frames ask for the subscriptions; offline stays offline; it returns |
| fleet | 2 vehicles (1 seeded), 4 frames, times to 3, window 1, cap and feed 2 | traces and feed are the recent frames; what is known stays known |
| map | 2 vehicles, 2 statuses, 1 zone | markers are the filtered fleet, the selection is visible, framed once |
| spin | 2 fingers or buttons at a time | yields to what is reported of the user, pauses end, left alone it turns |
| shell | 6 routes, 4 roles | permitted views only; address, tab and connection agree |
| brand | 2 URLs, 1 colour, 4 loads | the colours are those of the URL; no broken image |
| widgets | 3 toasts, 3 renders | ids, timers, one listener |
| simulation | a loop with a repeated corner, 2 zones that touch, ticks of 1, 2 and 12 metres | no metre lost; events and position agree |
| tables, roster | 2 rows, 2 drivers, 2 vehicles, 2 assignments | rows are the matches, stable; the panel tells one story |
| routes | 3 deliveries, 1 assignment, 2 builds at a time, limit 2 | the stored route is a plan; rebuilds advance; every build ends |
| optimizer | 4 stops, any closeness | trees are the components; the answer is accepted |
| notices | 2 deliveries, 2 assignments, 2 vehicles, 2 changes | those due are told, once and in order, and no others but what came back |
| sessions | 1 account, 2 roles, 2 tracked deliveries, clock to 9 ms of 2 to a second, 2 tokens | lifetimes, scope, and what a role outlives |
| phone | 2 stops, queue of 2, 2 flushes, 3 pings | each ping once, lost only by a full queue or a sink that throws, the queue recent, pings during a delivery; flushes and submits end |
| tracking | 3 positions | the vehicle on the trip only and the page follows, unless a change was missed |
| form | every field absent, blank, wrong or at each side of its bound | the error names exactly the faults |
| zones | rings of up to 5 positions over 5 grid points | stored polygons are simple, and simple ones are stored |
| reports | logs of 3, 2 subjects, 2 instants | queries exact; summaries add up |
| retries | 3 events, 2 retriers, 3 retries, fair | held exactly once; the promise of 6.7; oldest first; a Retry ends |
| registers | 1 account in 2 spellings, 2 owners, 2 records, 2 calls, clock to 1, 3 stamps | a subsequent create is refused; a key leads to its record; changes are ordered |

Why these bounds are enough to show what they should: every race in these
components is between two actors over one object, with at most one bystander.
Three requests or pings give two of one vehicle and one of another, or three in
sequence (enter, leave, enter). Two assignments and two deliveries give a
reassignment, a completion of one and a driver freed for the other. Two
connections give the old and the new socket of a session, or two sessions beside
each other; two timers give the one that is remembered and the one that is
forgotten. A queue, a trace and a feed of two overflow within three or four
insertions. Four stops are the fewest with two clusters that merge. A clock of
nine half-seconds passes both lifetimes, one after the other. Every constant set
is finite and used up, so no state constraint is needed; ids are used once as
the code's are (uuids, sequence numbers). Bounds that cap a counter (`MaxWire`,
`MaxFrames`, `MaxBuilds`, `MaxTokens` and their like) stand in the guards and
are marked as bounds where they are declared. Symmetry is used only over sets
whose elements the specification treats alike and only in runs of safety
properties.

`CHECK_DEADLOCK FALSE` stands where the program may stop: all requests
answered, all calls returned, all connections closed, a page at rest.

Three runs end in a violation. Each checks one statement of the documents or
comments against what the code does:

| run | statement | what happens |
|---|---|---|
| `concurrent_terminal` | terminal statuses are final | a stale whole record is saved over a terminal one |
| `hub_status` | disconnected means no live connection | the old socket of a session is noticed after the new one opened |
| `subscriptions` | the server has the rooms its client subscribed to | the topic is sent as `payload` and looked for as `data`, so every subscription is ignored |

The modules state more of what the documents say, or a reader may expect, and
the code does not keep. No run is kept for these; putting the property alone in
a copy of the cfg named here, with the constants changed as told, shows each:

| property | cfg, constants | what happens |
|---|---|---|
| `StaleDiscarded` (design, Property 11) | `MCIngestion` | two requests of a vehicle overlap between Latest and Persist |
| `StatusAlwaysMatchesWork` (requirement 2.5) | `MCDispatch` | a repeated completion frees a driver who has a new assignment; a status set by hand does the same |
| `OneVehiclePerDriver` (migration 0001) | `MCDispatch` | associateDriver does not look at the driver's vehicles |
| `CreateTakesUnlinked` (design, Property 23) | `MCConcurrentTwo` | two creates both find the delivery unassigned |
| `DeactivationSticks` (design, Property 5) | `MCConcurrentTwo` | an older snapshot of the driver is saved over the deactivation |
| `ResumesAnywhere` (requirement 14.4) | `MCStreamHub` | sessions are kept per replica |
| `EveryMemberIsServed` (design, Property 36) | `MCStreamHubServed`, `Stalled = {c1}` | a write without a deadline blocks the only pump |
| `AlternatesAlways` (one event per transition) | `MCGeofence` | two calls of a vehicle read the membership before either writes; a restart forgets the in-memory membership |
| `LabelIffConfigured` (design, Property 18) | `MCGeofence` | a failed lookup is taken for a zone without a label |
| `StopsReconnecting` (comment on disconnect) | `MCConsole` | a timer whose handle was overwritten outlives disconnect, when connect was called by hand while a timer was pending |
| `MarkerMovesForward` | `MCConsole` | a frame that is late moves the marker back |
| `NeverFightsInput` ("without fighting input") | `MCConsole` | one of two fingers that is lifted, or the wheel, starts the timer that resumes the spin under the other |
| `PausesOnlyWhileHeld` | `MCConsole` | a button released outside of the canvas pauses the spin until the next touch |
| `NoFlightAfterRemoval` | `MCConsole` | the timer of the first flight is not cleared by the cleanup |
| `AddressShowsRoute` (comment in routing.tsx) | `MCConsole` | a forbidden address that resolves to the open view stays in the bar |
| `ViewIsPermittedAlways` | `MCConsole` | a role without routes is shown the map |
| `LogoIsShown` | `MCConsole` | one logo that failed hides the next |
| `FocusStays` | `MCConsole` | a render with a new closure takes the focus from the field |
| `StartsWhereItIs` | `MCConsole` | a simulated vehicle is first reported at the start of its segment |
| `ChosenIsVisible`, `PositionIsOfTheVehicle` | `MCConsole` | the panel keeps a driver who is filtered out; its position is the assignment's vehicle, its name the driver's |
| `DriverHasStoredRouteAlways` (requirement 9.7) | `MCServices` | two builds save and publish in different orders |
| `NoticeIsCurrent`, `FailureIsLocal` | `MCServices` | the snapshot is old when it is used; one failure ends the loop |
| `RoleIsCurrent` | `MCServices` | tokens keep a role that was taken away, until they expire |
| `DropsTheOldest` (design, Property 13), `ReceivedInOrder` (requirement 4.9) | `MCServices` | failed pings are queued behind younger ones; a submit overtakes a flush |
| `NoneGoesAstray` (comment on flush: "Any ping that fails to send is re-buffered") | `MCServices` | a sink that throws ends the submit, or the flush with all it has drained |
| `PageAlwaysFollows` | `MCServices` | a change between the look-up and the view is lost |
| `PositionEndsWithTheTrip` (requirement 11.4) | `MCServices` | so is a completion, and the vehicle stays on display after its trip |
| `UpdatedAtAdvances`, `KeysAreUnique`, `OwnerStays` | `MCServices` | saves of other services carry older stamps; look-ups of overlapping calls are stale |

Three observations that no property states: nothing calls `createOrUpdateRoute`
when the set of deliveries of an assignment changes; nothing in the services
writes the status history or the ping repository that reporting reads; and
`lerpAngle` (`map/LiveMap.tsx`) turns the long way round once the heading drawn
is more than 540 degrees above the new one, since `%` keeps the sign.

## 4. Fairness

Nothing is assumed of users, of callers, of broadcasts or of failures.

`StreamHub`: weak fairness of each pump goroutine and of the Disconnect of a
broken socket, whose read has failed or will. `ZoneEventDelivery`
(`DeliveryFairness`): weak fairness of a Retry in progress; of when Retry is
called nothing, for no caller of it exists in the service.

`SocketClient` (`SocketFairness`): due timers fire and the close of a lost socket
is reported (weak); of handshakes that are
tried again and again one succeeds (strong), without which no client could
promise to return. `GlobeSpin` (`SpinFairness`): animations end and timers fire.
`Routes` (`RoutesFairness`): calls of the position, the repositories and the
publisher return, and the optimizer's timeout runs out; that the optimizer
answers is not assumed. `DriverApp` (`AppFairness`): the sink's future ends, in an
answer or by throwing. `Ingestion`, `Dispatch`, `Geofence` and the others have
safety properties only, and no fairness.

## 5. What is proved

For every value of the constants, under the assumptions named in each module
(`...Assumption`) and no others unless stated.

*IngestionProofs.* All its safety properties: types, `AckedIsDurable`,
`MarkIsBacked`, `UnmarkedIsPending`, `LateArrivalNeverStored`,
`PublishedIsDurable`, `MarkMonotone`, `OvertakesOnlyOverlapping`. What makes them
inductive is what each `pc` already implies (a request at Advance is stored, one
at Publish is under the mark), because marks only grow and the store only grows.
The last one follows because everything published is under the mark: a request
that arrives after an event is not behind its mark, or is refused.

*DispatchProofs.* `TypeOK`, `LinksAreReal`, `VehicleStaysWithDriver`,
`CompleteIsDone`, `TerminalIsFinal`, `DeactivationSticks`, `LinkMovesToActive`
for any callers, from `Inv`; its strengthening `Parties` says that an assignment
names a driver and a vehicle. Over `DispatchHistory`, and without assuming
anything of the callers: `BusyHasAssignment` for the drivers whose status was never
set by hand, repeated calls or not; and `ActiveIsOnDelivery` with
`OneActiveAssignment` for those for whom no call was repeated either. The two need
each other, for completion frees the driver and that is right only if the driver
had no other assignment. No call gives an assignment another driver, so that a
driver who was bypassed stays so, and the others' records are as the workflow left
them (`HistoryStep`).

*StreamHubProofs.* `TypeOK`, `RoomsAgree`, `ConnectedHasConnection`,
`SessionMirrorsRooms`, `ResumesAtReplica`, `TargetsAreMembers`. `Placed` says a
connection that is not new has a replica and a key, and `OnlyMirrors` that a
connection that is the only one its session ever had is in exactly the persisted
rooms, even after it has closed: that is what the next connection resumes.
`OrderedOnce` has an invariant of its own, `OrderInv`: a pump's queue and what a
connection was sent are in the order of the channel, a write in progress comes
after what its connection has and before what the pump still holds, and only one
replica's pump ever writes to a connection.

*GeofenceProofs.* `TypeOK`, `StoreFollows`, `Alternates`,
`MembershipIsThePings` and `PublishedInOrder`, for any overlap and any restart,
with the exceptions that each names by the history. The
invariant relates the store to the newest event (`StoreFollows`), says
that what a call has read stays true of the zones it has not yet changed unless
it met another of its vehicle (`ReadStillTrue`), and that the slices of a vehicle
whose calls never met hold only the newest event of a zone (`PendingIsNewest`).

*StreamHubProofs, the retry queue.* `DeliveryTypeOK`, `HeldOnce`, and the refinement of
`ZoneEventPromise` (`PromiseKept`), for any number of events and of goroutines
that call Retry. The invariant says that no slice holds an event twice
(`NoneTwice`), that no two of them share one (`Apart`), that the counter kept
with an event is one less than the attempts made (`AllCounted`), and what each
`at` implies (`Attempted`); a Retry that is not in progress has empty slices
(`IdleIsEmpty`). Facts about `Head`, `Tail`, `Append` and `\o` on slices of
distinct events are lemmas, cited in every step. `OldestFirst` follows from the
same invariant: while only one goroutine retries, what it has put aside, has still
to send and would put it before are one queue without repetition
(`LineIsDistinct`), and every step leaves out one event of it or adds one at its
end (`LineKeepsOrder`). So both safety parts of `DeliveryKept` are proved.

*What the dashboard shows of the fleet.* `FleetShowsTheFrames` as a whole
(`FleetCorrect`), for any vehicles, any frames with times in any order, any window
and any caps. A trace is cut at every frame, so that what it once was given is
gone; `FleetInv` relates it to the history of all that was received: it is what
was received at some positions, at least at those of the last `TraceCap` that are
in the window, and at no others while times ascend (`Trimmed`). Filtering,
appending and `slice` each keep it such a selection, because a selection of a
selection is one (`SelectAgain`, `SelectAppend`, `LastAreLast` of
*OrderingProofs*). Without the order of times the trace may keep more than one
cut would have left, never less of the last `TraceCap`.

The interleaved calls of `DispatchConcurrent` have two results. Whatever stale
record overwrites whichever newer one, `CallsKeepLinks` holds, for any number of
calls. `CallInv` says why: a snapshot is a whole record, a delivery record that
is about to be written has left Created, and an assignment that any record or
snapshot links to exists, for none is ever removed; so no write, however stale,
revives Created (`NeverBackToCreated`) or links to nothing. And with one call at
a time (`OneSlot`) the split handlers implement `Dispatch` (`AtomicCalls`). The
invariant `AloneInv` says that a call that is alone has snapshots equal to what
the repositories hold (`Current`); the refinement mapping shows the repositories
with the writes a call still owes already made (`DriverAs`, `DeliveryAs`), so
that the first write of a call maps to its atomic action and every other step
to a stutter.

*ManagementProofs, registers.* `SubsequentIsRefused`, `KeyLeadsToItsRecord` and
`ChangesAreOrdered`, for any number of records and overlapping calls. A key of a
record always has an index entry, and an entry always leads to a record of its
key (`IndexLeads`); no record a call could have seen has the key it is about to
insert (`LookedBefore`); `DriverService`'s stamp of a driver is not behind any of
its changes (`StampsAhead`).

*Sessions.* `ScopeIsKept`, `LivesItsLifetime`, `SessionEnds` and
`RoleTakenAwayExpires`, for any lifetimes. `Issued` says where a token comes
from: an expiry from the second it was made in, an access token from a login or
from a refresh token of that login that had not expired, and a role the account
had at the login; so a role outlives its removal by at most both lifetimes.

*Notices.* `NoticesSafe`, for any number of overlapping handlers and whatever
others do to the deliveries between their awaits. `NoticesInv` says that what a
handler's old records and the present assignments make look due was due when
the event came, and that what has been due ever since is as the handler read it
(`SnapshotHolds`); and that of the deliveries its loop has passed only due ones
were told, in order, and all that stayed due (`LoopIsRight`, `ToldSoFar`).

*Routes.* `RoutesSafe`, for any answer of the optimizer, and `RebuildsAdvance`,
the safety half of `RoutesAdvance`. `RoutesInv` says that the stops of a build,
and of a stored route, visit each delivery of its list exactly once
(`BuildsHavePlans`, `RoutesArePlans`), whatever sequence and groups the optimizer
made up; and that, while the builds of an assignment have never overlapped, the
one in progress is newer than the route stored and the event published is that
of the stored route (`CleanBuilds`, `RunsAhead`). The first needs that the
deliveries in the repository's order (`InOrder`) are each listed once.

*Ordering.* Sorts and filters are written by position: `OrderedBy` puts at `i`
the element with `i - 1` others before it, `SelectAt` keeps what a sequence has at
some positions, in their order. *OrderingProofs* shows for every finite set and
every total order of it that there is such an element, exactly one, that each
element has its place, and that no other numbering is in order
(`OrderedByIsNumbering`, `OrderedByIsUnique`). Optimizer, RouteBuilder, Routes,
Reporting, Validation, the phone's queue, tables and toasts all go through it.

*Reports.* `ReportsSafe`, for logs of any length with times in any order: a
query returns the rows of its subject and period, each once, by time, and those of
one instant in the order they were written (`QueryIsExact`), and the counts of
two adjoining periods add up to that of the whole.

*Validation.* `FieldsNameTheFaults`, for every request of the four kinds. What
`FieldCollector` keeps is each reported field once, whatever was reported twice
(`CollectIsSet`); what the validators report is then compared kind by kind.

*Zones.* `ZonesSafe`, for rings of any length with any integer coordinates.
`IntersectIsMeet`: the four turns and the box tests of `segmentsIntersect` find a
common point of two segments exactly if there is one by Cramer's rule. Its
nonlinear part is split into polynomial identities, which the SMT solver does
prove, and facts about the signs of products. `CheckedIsSimple` and
`SimpleIsChecked` then compare the loops with the definition: the pairs `i < j`
cover all by symmetry, and a position that comes twice, which no test looks for,
is found as two edges that touch or as an edge that runs back. The code computes in
floating point; the theorem is about the exact values.

*OptimizerProofs.* `OptimizerSafe`, for any number of stops and any close pairs.
Its invariant has two parts. No parent is above its child (`ParentsBelow`), which
`union` keeps by taking the smaller root; therefore `find` ends, is a root, and is
the same for every stop of a path, so that path compression moves parents and
leaves every root where it was. And two stops have one root exactly when the
pairs compared connect them (`TreesAreReached`): a close pair joins two classes
and leaves the others (`ReachGrows`), and a pair the loops still have to visit is
not among those already visited, because they visit each once. When
none is left, the clusters are the classes of closeness itself, disjoint and
together all stops, and the route builder finds in their concatenation what it
demands and the same groups in the same order (`FlattenGroups`, `GroupsAreStops`).
`Reach` is stated without the union-find or any path: the stops that are in every
set that has the first and breaks no pair.

*ClientProofs, dashboard.* `ShellSafe`: the sync effect has last run for the
route shown, or not yet. `MapSafe`: when nothing is to be rendered, the markers
are those of the filtered fleet, and a selection is framed at most once
(`MapInv`). `BrandSafe`: only the fetch of the current URL is not cancelled.
`SocketSafe`, for any number of topics, sockets and timers: a socket that is not
open carries nothing (`QuietUnlessOpen`), and each frame that is read decides its
own topic only, which is why the frames, in their order, ask for the subscriptions
whatever was read so far.
`StaysOffline`, the safety half of `SocketReturns`: unless connect() was called
while a timer was pending, there is one timer at most, whose handle is kept, and
none beside a socket or after disconnect() (`OneTimer`).
`WidgetsSafe`: toasts come in the order of their numbers, which the provider only
counts up, so that a timer or a click takes out one and no other; an effect
leaves one listener, that of the last render. `OperationsSafe`: the comparison of
`sortRows` is a total order of the rows, cells without a value after all others
and equal ones by position, either way; so a table has one order, with
every match in it once, and its tile counts the same set.

*The demo.* `SimulationSafe`, for any loop with repeated points, any rectangles as
zones and any distance of a tick. `WalkEnds` shows that the loop of `tick` stops,
because a segment has at least a metre (`segmentMetres(a, b) || 1`), and that the
recursive function `Walk` therefore exists; `WalkArrives` is an induction on the
metres to go: where it stops is where the sum of the metres, less whole rounds,
is. `RingIsRectangle` shows that the ray cast passes one side of a zone's ring
exactly when the point is in the half-open rectangle.

*The globe.* `SpinCorrect`, the safety half of `SpinYields`, for any number of
fingers and buttons. `SpinInv` says that after the report of a start there is no
timer and the spin is paused, and after that of an end a pause has its timer. It
says nothing of what is really held, for the code does not know.

*Customer's page and phone.* `TrackingSafe`, for any number of positions: the
view and the answer of a look-up may be of the past, but `TrackingInv` says that
the events still on the stream lead from either to the present of the delivery
(`LedTo`), unless one came between the two, and that a view has a position only if
its status is one that shows it, and one of this trip. Together they give that
the vehicle is shown only while the delivery is on its trip or the change that
ends it is under way: a status that shows it leads to the present one by changes
still on the stream, and the last of these is the present one.
`PhoneSafe`, for any number of pings and of flushes and any size of the queue:
`PingsInv` says that every ping emitted is at exactly one place, received,
queued, being sent, dropped, gone with a sink that threw, or in one flush (`AtOnePlace`), and, as long as no
send has failed, that the queue is in the order of time and newer than all that
was dropped.

## 6. What is only model-checked

Liveness (`EveryMemberIsServed`, `RetryEnds`, `Reconnects`, `LeftAloneItTurns`,
`EveryBuildEnds`, `FlushesEnd`): the prover handles neither fairness nor `ENABLED`. A property of a run that joins such a
half to a safety half is checked as a whole, and section 5 names the half that
is proved.

Every safety property of the passing runs is proved, under the assumptions that
section 5 names with it; none is left to TLC alone.

Induction over data is not out of reach where the data are numbers: a set of
numbers with an element outside of it has a least one (`EveryNumber`), which
also gives that a recursive function to smaller numbers exists
(`RecursionExists`, `GoingOnEnds`), and a sequence is an induction over its length. The model
uses recursive functions and no recursive operators for that reason.

## 7. What is not modelled, and why

- *Landing page, presentational components, design tokens, contrast*: layout
  and colour arithmetic, no state that changes. `LeftRail` is not used.
- *Marker easing, heading interpolation, map style and layers*: continuous
  drawing between two states that are modelled.
- *The in-process PubSub of the streaming service*: it calls deliverLocal
  inside Broadcast, a sequence the Redis form covers except for who is blocked.
- *Status listeners of the hub*: none is registered outside of tests.
- *HubZoneEventSender*: it tests a room and then broadcasts; the two halves are
  `StreamHub` and `ZoneEventDelivery`, their composition is not made.
- *The delivery status history and timestamps in Dispatch*: append-only records
  of the transitions that are modelled.
- *Field rules of the ingestion service's Validate*: the same rules as those of
  the management service, which `Validation` has.
- *The purge function, PostGIS validity and containment*: SQL, not called by
  the services' own code.
- *The solver and distances*: OR-tools may return any order; which stops are
  close is any relation.
- *Signatures, password hashes, HTTP decoding*: libraries.
- *Shared packages, deployment*: type declarations, constants, configuration.

## 8. Plan

Done: the core services with their proofs, and every component with state of its
own. What is left, in this order:

1. `ZoneEventStream`: `StreamHub` and `ZoneEventDelivery` composed by
   `HubZoneEventSender`.
2. `PhoneToStore`: `DriverApp` composed with `Ingestion`: which pings of an
   outage reach the store, and which are lost at the limit or under the mark.
3. The remaining steps of `DispatchConcurrent` (drivers' update, vehicles) in
   one instance with `Routes`.
