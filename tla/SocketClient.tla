---------------------------- MODULE SocketClient ----------------------------
(***************************************************************************)
(* The dashboard's reconnecting client (realtime/socketClient.ts) against  *)
(* what it talks to: the sockets its factory makes, the browser's timers   *)
(* and the rooms the streaming service keeps for a connection.             *)
(*                                                                         *)
(* JavaScript runs one callback at a time, so each callback (a call of the *)
(* user, a timer, a socket event) is one action.  Frames the client sends  *)
(* wait in wire[t] until the server reads them: an event and a topic, each *)
(* under a JSON key, and the server looks for the topic under another key  *)
(* than the client writes it.  asked[t] records what a reader of the       *)
(* client's key would have understood.  Pushed payloads and the listeners  *)
(* are FleetState's.                                                       *)
(***************************************************************************)
EXTENDS Naturals, Sequences, FiniteSets

CONSTANTS
  Topic,         \* what one can subscribe to: "<kind>:<id>"
  Transport,     \* sockets; one that is closed for good is used again
  Timer,         \* bound: reconnect timers pending at a time
  MaxWire,       \* bound: frames the server has not read
  ScheduleSize,  \* length of backoffScheduleMs: later attempts wait the same
  NoTransport, NoTimer

ASSUME SocketAssumption ==
  /\ NoTransport \notin Transport /\ NoTimer \notin Timer
  /\ MaxWire \in Nat /\ ScheduleSize \in Nat \ {0}

VARIABLES
  kind,          \* what the factory makes: "socket" or "simulation"
  state, attempt, transport, closedByUser, reconnectHandle,  \* the fields
  subscriptions, \* the keys of the map of the same name
  timers,        \* timers that will still fire
  phase,         \* phase[t] of each socket
  wire,          \* frames on their way to the server
  rooms,         \* the rooms the server keeps for a socket
  asked,         \* history: what the frames the server has read ask for
  byHand         \* history: connect() was called while a timer was pending

client  == <<state, attempt, transport, closedByUser, reconnectHandle, subscriptions>>
sockets == <<phase, wire, rooms, asked>>
socketVars == <<kind, client, timers, sockets, byHand>>

\* "lost": closed by the network or the server, the close event still to
\* come.  "leaked": a simulation that was closed before its setTimeout ran,
\* which then starts an interval that nothing stops.
Phase == {"closed", "opening", "open", "lost", "leaked"}
State == {"connecting", "connected", "reconnecting", "offline"}

\* The constructor connects at once (autoConnect).
SocketInit ==
  /\ kind \in {"socket", "simulation"}
  /\ \E t \in Transport :
       /\ transport = t
       /\ phase = [u \in Transport |-> IF u = t THEN "opening" ELSE "closed"]
  /\ state = "connecting" /\ attempt = 0
  /\ closedByUser = FALSE /\ reconnectHandle = NoTimer
  /\ subscriptions = {} /\ timers = {}
  /\ wire = [t \in Transport |-> <<>>]
  /\ rooms = [t \in Transport |-> {}]
  /\ asked = [t \in Transport |-> {}]
  /\ byHand = FALSE

-----------------------------------------------------------------------------
(***************************************************************************)
(* The private helpers.                                                    *)
(***************************************************************************)

\* The keys of a frame.
FrameKeys == {"event", "payload"}

\* send on an open socket; on a lost one the frame is dropped silently, and a
\* simulation ignores it.
Emit(op, topic) ==
  wire' = IF phase[transport] = "open" /\ kind = "socket"
          THEN [wire EXCEPT ![transport] = Append(@, <<op, topic>>)] ELSE wire

\* The phase of a socket after close(), its handlers already removed.
Closed(t) == IF kind = "simulation" /\ phase[t] = "opening" THEN "leaked" ELSE "closed"

TeardownTransport ==
  /\ transport' = NoTransport
  /\ IF transport = NoTransport THEN UNCHANGED sockets
     ELSE /\ phase' = [phase EXCEPT ![transport] = Closed(transport)]
          /\ wire' = [wire EXCEPT ![transport] = <<>>]
          /\ rooms' = [rooms EXCEPT ![transport] = {}]
          /\ asked' = [asked EXCEPT ![transport] = {}]

\* connect() without a transport: take a new one from the factory.
OpenTransport ==
  /\ state' = IF attempt = 0 THEN "connecting" ELSE "reconnecting"
  /\ \E t \in Transport :
       /\ phase[t] = "closed"
       /\ transport' = t
       /\ phase' = [phase EXCEPT ![t] = "opening"]
  /\ UNCHANGED <<wire, rooms, asked>>

ConnectBody ==
  /\ closedByUser' = FALSE
  /\ IF transport # NoTransport THEN UNCHANGED <<state, transport, sockets>>
     ELSE OpenTransport
  /\ UNCHANGED <<kind, attempt, subscriptions>>

-----------------------------------------------------------------------------
(***************************************************************************)
(* Calls of the user.                                                      *)
(***************************************************************************)

\* connect() does not look at a pending timer.
Connect ==
  /\ ConnectBody
  /\ byHand' = (byHand \/ (transport = NoTransport /\ timers # {}))
  /\ UNCHANGED <<timers, reconnectHandle>>

MutDisconnectKeepsTimer ==
  /\ closedByUser' = TRUE /\ state' = "offline"
  /\ TeardownTransport
  /\ UNCHANGED <<kind, attempt, subscriptions, timers, reconnectHandle, byHand>>
Disconnect ==
  /\ closedByUser' = TRUE /\ state' = "offline"
  /\ timers' = timers \ {reconnectHandle} /\ reconnectHandle' = NoTimer
  /\ TeardownTransport
  /\ UNCHANGED <<kind, attempt, subscriptions, byHand>>

SetSubscriptions(topics, op, topic) ==
  /\ \A t \in Transport : Len(wire[t]) < MaxWire
  /\ subscriptions' = topics
  /\ IF state = "connected" THEN Emit(op, topic) ELSE UNCHANGED wire
  /\ UNCHANGED <<kind, state, attempt, transport, closedByUser, reconnectHandle,
                 timers, phase, rooms, asked, byHand>>

Subscribe(topic)   == SetSubscriptions(subscriptions \cup {topic}, "subscribe", topic)
Unsubscribe(topic) == SetSubscriptions(subscriptions \ {topic}, "unsubscribe", topic)

-----------------------------------------------------------------------------
(***************************************************************************)
(* Socket events and timers.                                               *)
(***************************************************************************)

\* The handshake ends: onopen subscribes to everything again, in the order of
\* the map.
MutOpenedForgets(t) ==
  /\ phase[t] = "opening"
  /\ phase' = [phase EXCEPT ![t] = "open"]
  /\ attempt' = 0 /\ state' = "connected"
  /\ UNCHANGED <<kind, transport, closedByUser, reconnectHandle, subscriptions,
                 timers, wire, rooms, asked, byHand>>
Opened(t) ==
  /\ phase[t] = "opening"
  /\ phase' = [phase EXCEPT ![t] = "open"]
  /\ attempt' = 0 /\ state' = "connected"
  /\ \E order \in [1..Cardinality(subscriptions) -> subscriptions] :
       /\ \A topic \in subscriptions : \E i \in DOMAIN order : order[i] = topic
       /\ wire' = IF kind = "simulation" THEN wire
                  ELSE [wire EXCEPT ![t] = [i \in DOMAIN order |-> <<"subscribe", order[i]>>]]
  /\ UNCHANGED <<kind, transport, closedByUser, reconnectHandle, subscriptions,
                 timers, rooms, asked, byHand>>

\* A handshake fails, the server closes or the network drops the connection.
\* A simulation is never lost.
Lose(t) ==
  /\ kind = "socket" /\ phase[t] \in {"opening", "open"}
  /\ phase' = [phase EXCEPT ![t] = "lost"]
  /\ wire' = [wire EXCEPT ![t] = <<>>]
  /\ rooms' = [rooms EXCEPT ![t] = {}]
  /\ asked' = [asked EXCEPT ![t] = {}]
  /\ UNCHANGED <<kind, client, timers, byHand>>

\* handleClose.  The handle of an older timer is overwritten.  (Its branch for
\* closedByUser is never reached: disconnect has removed the handler.)
HandleClose(t) ==
  /\ phase[t] = "lost"
  /\ ~closedByUser
  /\ TeardownTransport
  /\ state' = "reconnecting"
  /\ attempt' = IF attempt < ScheduleSize THEN attempt + 1 ELSE attempt
  /\ \E i \in Timer \ timers :
       timers' = timers \cup {i} /\ reconnectHandle' = i
  /\ UNCHANGED <<kind, closedByUser, subscriptions, byHand>>

\* The callback clears the field, whichever timer it belongs to, and connects.
TimerFires(i) ==
  /\ i \in timers
  /\ timers' = timers \ {i} /\ reconnectHandle' = NoTimer
  /\ ConnectBody
  /\ UNCHANGED byHand

\* The topic the server finds in a frame.  json.Unmarshal leaves the fields of
\* a key that is not there empty, and RoomFor has no room for an empty kind.
Found(frame) == IF "data" \in FrameKeys THEN {frame[2]} ELSE {}

Applied(have, op, topics) == IF op = "subscribe" THEN have \cup topics ELSE have \ topics

\* The read loop of the streaming service takes a frame to Hub.Subscribe or
\* Hub.Unsubscribe.
ServerReads(t) ==
  /\ phase[t] = "open" /\ wire[t] # <<>>
  /\ LET frame == Head(wire[t]) IN
       /\ rooms' = [rooms EXCEPT ![t] = Applied(@, frame[1], Found(frame))]
       /\ asked' = [asked EXCEPT ![t] = Applied(@, frame[1], {frame[2]})]
  /\ wire' = [wire EXCEPT ![t] = Tail(@)]
  /\ UNCHANGED <<kind, client, timers, phase, byHand>>

SocketNext ==
  \/ Connect
  \/ Disconnect
  \/ \E topic \in Topic : Subscribe(topic) \/ Unsubscribe(topic)
  \/ \E t \in Transport : Opened(t) \/ Lose(t) \/ HandleClose(t) \/ ServerReads(t)
  \/ \E i \in Timer : TimerFires(i)

SocketSpec == SocketInit /\ [][SocketNext]_socketVars

\* The browser runs the timers that are due and reports the close of a lost
\* socket; of the handshakes that can succeed again and again, one does.
SocketFairness ==
  /\ \A i \in Timer : WF_socketVars(TimerFires(i))
  /\ \A t \in Transport : WF_socketVars(HandleClose(t)) /\ SF_socketVars(Opened(t))

-----------------------------------------------------------------------------
(***************************************************************************)
(* Properties.                                                             *)
(***************************************************************************)

\* Types of the variables: the client's, and the server's rooms.
ClientTypeOK ==
  /\ kind \in {"socket", "simulation"}
  /\ state \in State
  /\ attempt \in 0..ScheduleSize
  /\ transport \in Transport \cup {NoTransport}
  /\ closedByUser \in BOOLEAN
  /\ reconnectHandle \in Timer \cup {NoTimer}
  /\ subscriptions \subseteq Topic
  /\ timers \subseteq Timer
  /\ phase \in [Transport -> Phase]
  /\ wire \in [Transport -> Seq({"subscribe", "unsubscribe"} \X Topic)]
  /\ asked \in [Transport -> SUBSET Topic]
  /\ byHand \in BOOLEAN

SocketTypeOK == ClientTypeOK /\ rooms \in [Transport -> SUBSET Topic]

\* What the frames of a socket ask for once the server has read them all.
SubscribesLast(s, topic) ==
  \E i \in DOMAIN s : /\ s[i] = <<"subscribe", topic>>
                      /\ \A j \in i + 1 .. Len(s) : s[j][2] # topic
Mentions(s, topic) == \E i \in DOMAIN s : s[i][2] = topic
AskedFor(t) ==
  {topic \in Topic : \/ SubscribesLast(wire[t], topic)
                     \/ topic \in asked[t] /\ ~Mentions(wire[t], topic)}

\* However subscribe, unsubscribe, drops and reconnects interleave, the frames
\* of an open connection ask, taken in order, for exactly the subscriptions.
FramesFollowSubscriptions ==
  kind = "socket" =>
    \A t \in Transport : phase[t] = "open" => AskedFor(t) = subscriptions

\* "clients send {event:"subscribe"|"unsubscribe", data:{kind,id}} frames"
\* (websocket.go): a server that has read everything has the rooms of the
\* client's subscriptions.
RoomsFollowSubscriptions ==
  kind = "socket" =>
    \A t \in Transport :
      phase[t] = "open" /\ wire[t] = <<>> => rooms[t] = subscriptions

\* No socket is left behind: one that is not closed is the client's, and the
\* client says connected only of one that has opened.
OneSocket ==
  /\ \A t \in Transport : phase[t] \in {"opening", "open", "lost"} => t = transport
  /\ \A t \in Transport : phase[t] = "open" => state = "connected"
  /\ state = "connected" => transport # NoTransport /\ phase[transport] \in {"open", "lost"}

\* A client that is neither offline nor on a socket has a timer that will
\* bring it back: it is never stranded between two attempts.
NeverStranded ==
  transport = NoTransport => state = "offline" \/ timers # {}

\* disconnect() is final, provided connect() is not called while a reconnect
\* timer is pending (the dashboard never does).
StaysOffline ==
  [][state = "offline" /\ state' # "offline" => Connect \/ byHand]_socketVars

\* The comment on disconnect, "Close the connection and stop reconnecting":
\* no timer outlives it.
StopsReconnecting == closedByUser => timers = {}

\* A client that is not told to stop gets connected again, from every state.
Reconnects == ~closedByUser ~> state = "connected" \/ closedByUser

\* What holds of the client and its sockets in every state.
SocketSafe ==
  /\ SocketTypeOK /\ OneSocket /\ NeverStranded
  /\ FramesFollowSubscriptions
=============================================================================
