------------------------------ MODULE StreamHub ------------------------------
(***************************************************************************)
(* The streaming service: one Hub per replica (internal/hub/hub.go), the   *)
(* WebSocket handler that drives it, and the Redis channel that carries a  *)
(* broadcast to every replica (redis.go).                                  *)
(*                                                                         *)
(* Every method of Hub holds the hub's lock from start to end and is one   *)
(* action; deliverLocal gives the lock up between its snapshot of a room   *)
(* and the writes, and is three.  Message payloads are abstracted: an id   *)
(* stands for a message, and log records the order of the broadcasts.      *)
(***************************************************************************)
EXTENDS Naturals, Sequences

CONSTANTS
  Replica, Key, Room, Message,
  Conn,        \* connection ids; each is a fresh uuid, so used once
  Stalled,     \* connections whose peer stops reading: a write to it blocks
  SharedKeys,  \* session keys that may have several connections at a time
  None

ASSUME StreamHubAssumption ==
  /\ Stalled \subseteq Conn
  /\ SharedKeys \subseteq Key
  /\ None \notin Replica \cup Key \cup Room \cup Message

VARIABLES
  conn,     \* the handler of each connection, and its Client record
  members,  \* Hub.rooms of each replica: who is in a room
  session,  \* Hub.sessions of each replica: the rooms to resume per key
  status,   \* Hub.status of each replica
  log,      \* the broadcasts, in the order of the Redis channel
  sentTo,   \* the room each message was broadcast to
  queue,    \* what the channel still has for each replica's pump
  fan,      \* the deliverLocal call in progress at each replica
  inbox     \* the frames written to each connection

hubVars == <<conn, members, session, status>>
busVars == <<log, sentTo, queue, fan, inbox>>
vars == <<conn, members, session, status, log, sentTo, queue, fan, inbox>>

\* "broken": the socket has dropped and the read loop has not noticed yet.
Live(c)  == conn[c].state \in {"open", "broken"}
At(r, k) == {c \in Conn : Live(c) /\ conn[c].replica = r /\ conn[c].key = k}
NoFan    == [message |-> None, targets |-> {}]

Init ==
  /\ conn = [c \in Conn |-> [state |-> "new", replica |-> None, key |-> None, rooms |-> {}]]
  /\ members = [r \in Replica |-> [room \in Room |-> {}]]
  /\ session = [r \in Replica |-> [k \in Key |-> {}]]
  /\ status = [r \in Replica |-> [k \in Key |-> "disconnected"]]
  /\ log = <<>>
  /\ sentTo = [m \in Message |-> None]
  /\ queue = [r \in Replica |-> <<>>]
  /\ fan = [r \in Replica |-> NoFan]
  /\ inbox = [c \in Conn |-> <<>>]

-----------------------------------------------------------------------------
(***************************************************************************)
(* Connections.                                                            *)
(***************************************************************************)

\* A connection opens at some replica and resumes what that replica holds of
\* its session.
MutConnectForgets(c, r, k) ==
  /\ conn[c].state = "new"
  /\ k \in SharedKeys \/ \A s \in Replica : At(s, k) = {}
  /\ conn' = [conn EXCEPT ![c] = [state |-> "open", replica |-> r, key |-> k, rooms |-> {}]]
  /\ status' = [status EXCEPT ![r][k] = "connected"]
  /\ UNCHANGED <<members, session, busVars>>
Connect(c, r, k) ==
  LET prior == session[r][k] IN
  /\ conn[c].state = "new"
  /\ k \in SharedKeys \/ \A s \in Replica : At(s, k) = {}
  /\ conn' = [conn EXCEPT ![c] = [state |-> "open", replica |-> r, key |-> k, rooms |-> prior]]
  /\ members' = [members EXCEPT ![r] = [room \in Room |->
                   IF room \in prior THEN @[room] \cup {c} ELSE @[room]]]
  /\ status' = [status EXCEPT ![r][k] = "connected"]
  /\ UNCHANGED <<session, busVars>>

\* A subscribe frame, or the dashboard flag of the request.
Subscribe(c, room) ==
  /\ Live(c)
  /\ LET r == conn[c].replica IN
       /\ members' = [members EXCEPT ![r][room] = @ \cup {c}]
       /\ session' = [session EXCEPT ![r][conn[c].key] = @ \cup {room}]
  /\ conn' = [conn EXCEPT ![c].rooms = @ \cup {room}]
  /\ UNCHANGED <<status, busVars>>

Unsubscribe(c, room) ==
  /\ Live(c)
  /\ LET r == conn[c].replica IN
       /\ members' = [members EXCEPT ![r][room] = @ \ {c}]
       /\ session' = [session EXCEPT ![r][conn[c].key] = @ \ {room}]
  /\ conn' = [conn EXCEPT ![c].rooms = @ \ {room}]
  /\ UNCHANGED <<status, busVars>>

\* The peer closes, or the network drops the socket.
Drop(c) ==
  /\ conn[c].state = "open"
  /\ conn' = [conn EXCEPT ![c].state = "broken"]
  /\ UNCHANGED <<members, session, status, busVars>>

\* The read loop fails and the deferred Disconnect runs.  The session keeps
\* its rooms; the Client record, which keeps its own, is forgotten.
MutDisconnectKeepsRooms(c) ==
  LET r == conn[c].replica IN
  /\ conn[c].state = "broken"
  /\ conn' = [conn EXCEPT ![c].state = "closed"]
  /\ status' = [status EXCEPT ![r][conn[c].key] = "disconnected"]
  /\ UNCHANGED <<members, session, busVars>>
Disconnect(c) ==
  LET r == conn[c].replica IN
  /\ conn[c].state = "broken"
  /\ conn' = [conn EXCEPT ![c].state = "closed"]
  /\ members' = [members EXCEPT ![r] = [room \in Room |-> @[room] \ {c}]]
  /\ status' = [status EXCEPT ![r][conn[c].key] = "disconnected"]
  /\ UNCHANGED <<session, busVars>>

-----------------------------------------------------------------------------
(***************************************************************************)
(* Broadcasts.                                                             *)
(***************************************************************************)

\* Publish appends to the channel, which keeps one order for every replica
\* and promises delivery to none: reached is who gets it, nobody if Publish
\* returns an error.
Broadcast(m, room, reached) ==
  /\ sentTo[m] = None
  /\ sentTo' = [sentTo EXCEPT ![m] = room]
  /\ log' = Append(log, m)
  /\ queue' = [r \in Replica |-> IF r \in reached THEN Append(queue[r], m) ELSE queue[r]]
  /\ UNCHANGED <<hubVars, fan, inbox>>

\* The pump takes the next envelope and copies the room's members.
MutFanStartKeepsHead(r) ==
  /\ fan[r] = NoFan
  /\ queue[r] # <<>>
  /\ fan' = [fan EXCEPT ![r] = [message |-> Head(queue[r]),
                                targets |-> members[r][sentTo[Head(queue[r])]]]]
  /\ UNCHANGED <<hubVars, log, sentTo, queue, inbox>>
FanStart(r) ==
  /\ fan[r] = NoFan
  /\ queue[r] # <<>>
  /\ fan' = [fan EXCEPT ![r] = [message |-> Head(queue[r]),
                                targets |-> members[r][sentTo[Head(queue[r])]]]]
  /\ queue' = [queue EXCEPT ![r] = Tail(@)]
  /\ UNCHANGED <<hubVars, log, sentTo, inbox>>

\* One write, without a deadline.  A dropped socket swallows the frame.
MutFanDeliverOnlyFirst(r, c) ==
  /\ c \in fan[r].targets
  /\ inbox' = [inbox EXCEPT ![c] = Append(@, fan[r].message)]
  /\ fan' = [fan EXCEPT ![r].targets = {}]
  /\ UNCHANGED <<hubVars, log, sentTo, queue>>
FanDeliver(r, c) ==
  /\ c \in fan[r].targets
  /\ c \in Stalled => conn[c].state # "open"
  /\ inbox' = IF conn[c].state = "open"
              THEN [inbox EXCEPT ![c] = Append(@, fan[r].message)] ELSE inbox
  /\ fan' = [fan EXCEPT ![r].targets = @ \ {c}]
  /\ UNCHANGED <<hubVars, log, sentTo, queue>>

FanDone(r) ==
  /\ fan[r] # NoFan
  /\ fan[r].targets = {}
  /\ fan' = [fan EXCEPT ![r] = NoFan]
  /\ UNCHANGED <<hubVars, log, sentTo, queue, inbox>>

Pump(r) == FanStart(r) \/ FanDone(r) \/ \E c \in Conn : FanDeliver(r, c)

Next ==
  \/ \E c \in Conn :
       \/ \E r \in Replica, k \in Key : Connect(c, r, k)
       \/ \E room \in Room : Subscribe(c, room) \/ Unsubscribe(c, room)
       \/ Drop(c)
       \/ Disconnect(c)
  \/ \E m \in Message, room \in Room, reached \in SUBSET Replica : Broadcast(m, room, reached)
  \/ \E r \in Replica : Pump(r)

Spec == Init /\ [][Next]_vars

\* A replica's pump goroutine keeps running, and a read on a dropped socket
\* eventually fails.  Nothing is assumed of clients and of broadcasts.
FairSpec ==
  /\ Spec
  /\ \A r \in Replica : WF_vars(Pump(r))
  /\ \A c \in Conn : WF_vars(Disconnect(c))

-----------------------------------------------------------------------------
(***************************************************************************)
(* Properties.                                                             *)
(***************************************************************************)

\* Types of the variables.
TypeOK ==
  /\ conn \in [Conn -> [state : {"new", "open", "broken", "closed"},
                        replica : Replica \cup {None}, key : Key \cup {None},
                        rooms : SUBSET Room]]
  /\ members \in [Replica -> [Room -> SUBSET Conn]]
  /\ session \in [Replica -> [Key -> SUBSET Room]]
  /\ status \in [Replica -> [Key -> {"connected", "disconnected"}]]
  /\ log \in Seq(Message)
  /\ sentTo \in [Message -> Room \cup {None}]
  /\ queue \in [Replica -> Seq(Message)]
  /\ fan \in [Replica -> [message : Message \cup {None}, targets : SUBSET Conn]]
  /\ inbox \in [Conn -> Seq(Message)]

\* Hub.rooms and the rooms of the Clients say the same, and a connection that
\* is gone is in no room of any replica (requirement 14.3: its resources are
\* released).
RoomsAgree ==
  \A r \in Replica, room \in Room :
    members[r][room] = {c \in Conn : /\ Live(c)
                                     /\ conn[c].replica = r
                                     /\ room \in conn[c].rooms}

\* A session the hub reports connected has a connection.
ConnectedHasConnection ==
  \A r \in Replica, k \in Key : status[r][k] = "connected" => At(r, k) # {}

\* The comment on StatusDisconnected: no live connection for the session.
DisconnectedHasNone ==
  \A r \in Replica, k \in Key : status[r][k] = "disconnected" => At(r, k) = {}

\* For a session that has one connection at a time, the hub persists exactly
\* the rooms that connection is in: what will be resumed is what is subscribed.
SessionMirrorsRooms ==
  \A c \in Conn : Live(c) /\ conn[c].key \notin SharedKeys =>
    session[conn[c].replica][conn[c].key] = conn[c].rooms

\* c opens a session whose only earlier connection was b.
Reopens(c, b) ==
  /\ conn[c].state = "new" /\ conn'[c].state = "open"
  /\ conn[b].state = "closed" /\ conn[b].key = conn'[c].key
  /\ \A e \in Conn \ {b, c} : conn[e].key # conn'[c].key

\* A session that reconnects to the replica it left is in exactly the rooms it
\* was in when its connection dropped, whatever others did meanwhile.
ResumesAtReplica ==
  [][\A b, c \in Conn : Reopens(c, b) /\ conn'[c].replica = conn[b].replica =>
       conn'[c].rooms = conn[b].rooms]_vars

\* Requirement 14.4, for a session that reconnects to whatever replica.
ResumesAnywhere ==
  [][\A b, c \in Conn : Reopens(c, b) => conn'[c].rooms = conn[b].rooms]_vars

Position(m, s) == CHOOSE i \in DOMAIN s : s[i] = m

\* A client sees no message twice, and the messages it sees in the order of
\* the broadcasts.
OrderedOnce ==
  \A c \in Conn : \A i, j \in DOMAIN inbox[c] :
    i < j => Position(inbox[c][i], log) < Position(inbox[c][j], log)

\* Property 36, "no irrelevant one": a write of a message is only ever begun
\* for connections that are subscribed to its room at that moment.  (A write
\* begun before an unsubscribe may still end after it.)
TargetsAreMembers ==
  [][\A r \in Replica : fan[r] = NoFan /\ fan'[r] # NoFan =>
       \A c \in fan'[r].targets : sentTo[fan'[r].message] \in conn[c].rooms]_vars

\* Property 36, "every relevant update": a message the channel has brought to
\* a replica is written to each subscriber there, unless it drops or
\* unsubscribes.
EveryMemberIsServed ==
  \A m \in Message, c \in Conn :
    (/\ conn[c].state = "open"
     /\ \E i \in DOMAIN queue[conn[c].replica] : queue[conn[c].replica][i] = m
     /\ sentTo[m] \in conn[c].rooms)
    ~> \/ \E i \in DOMAIN inbox[c] : inbox[c][i] = m
       \/ conn[c].state # "open"
       \/ sentTo[m] \notin conn[c].rooms

\* Rooms, sessions, statuses and connections agree with each other.
SessionsAgree ==
  /\ TypeOK /\ RoomsAgree
  /\ ConnectedHasConnection /\ SessionMirrorsRooms

\* What a step of the hub never does: write to a stranger, or resume a session
\* in other rooms than it left.
StepsAreRelevant == TargetsAreMembers /\ ResumesAtReplica
=============================================================================
