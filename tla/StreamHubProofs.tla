--------------------------- MODULE StreamHubProofs ---------------------------
(***************************************************************************)
(* Theorems about StreamHub, for any number of replicas, sessions,         *)
(* connections, rooms and messages, about the events it delivers again     *)
(* (ZoneEventDelivery), and about what the dashboard makes of the frames   *)
(* that reach it (FleetState).  Placed (a connection that is not new       *)
(* has a replica and a key) and OnlyMirrors (a connection that is the only *)
(* one its session ever had is in exactly the rooms its session persists)  *)
(* make the invariant of the hub inductive.                                *)
(***************************************************************************)
EXTENDS StreamHub, ZoneEventDelivery, FleetState, OrderingProofs

Placed ==
  \A c \in Conn :
    /\ conn[c].state = "new" => conn[c].key = None
    /\ conn[c].state # "new" => conn[c].replica \in Replica /\ conn[c].key \in Key

OnlyMirrors ==
  \A b \in Conn :
    (conn[b].state # "new" /\ \A e \in Conn \ {b} : conn[e].key # conn[b].key) =>
      session[conn[b].replica][conn[b].key] = conn[b].rooms

\* Without shared keys a session has at most one connection anywhere.
OneAtATime ==
  \A b, c \in Conn : Live(b) /\ Live(c) /\ b # c /\ conn[b].key = conn[c].key =>
    conn[b].key \in SharedKeys

\* What the pumps hold has been broadcast to a room, and a pump that has
\* someone to write to has something to write.
QueuedIsSent ==
  \A r \in Replica :
    /\ \A i \in 1..Len(queue[r]) : sentTo[queue[r][i]] \in Room
    /\ fan[r].targets # {} => fan[r].message \in Message

HubInv == RoomsAgree /\ ConnectedHasConnection /\ SessionMirrorsRooms
            /\ Placed /\ OnlyMirrors /\ OneAtATime
Inv == TypeOK /\ QueuedIsSent /\ HubInv

HubTypeOK ==
  /\ conn \in [Conn -> [state : {"new", "open", "broken", "closed"},
                        replica : Replica \cup {None}, key : Key \cup {None},
                        rooms : SUBSET Room]]
  /\ members \in [Replica -> [Room -> SUBSET Conn]]
  /\ session \in [Replica -> [Key -> SUBSET Room]]
  /\ status \in [Replica -> [Key -> {"connected", "disconnected"}]]

BusTypeOK ==
  /\ log \in Seq(Message)
  /\ sentTo \in [Message -> Room \cup {None}]
  /\ queue \in [Replica -> Seq(Message)]
  /\ fan \in [Replica -> [message : Message \cup {None}, targets : SUBSET Conn]]
  /\ inbox \in [Conn -> Seq(Message)]

LEMMA TypeParts == TypeOK <=> HubTypeOK /\ BusTypeOK
  BY DEF TypeOK, HubTypeOK, BusTypeOK

-----------------------------------------------------------------------------
(***************************************************************************)
(* What the hub's operations do.                                           *)
(***************************************************************************)
LEMMA ConnectStep ==
  ASSUME HubTypeOK, NEW c \in Conn, NEW r \in Replica, NEW k \in Key, Connect(c, r, k)
  PROVE  /\ HubTypeOK' /\ UNCHANGED busVars /\ session' = session
         /\ conn[c].state = "new"
         /\ k \in SharedKeys \/ \A s \in Replica : At(s, k) = {}
         /\ conn'[c] = [state |-> "open", replica |-> r, key |-> k, rooms |-> session[r][k]]
         /\ \A e \in Conn \ {c} : conn'[e] = conn[e]
  <1> USE DEF HubTypeOK
  <1>1. /\ UNCHANGED busVars /\ session' = session
        /\ conn[c].state = "new"
        /\ k \in SharedKeys \/ \A s \in Replica : At(s, k) = {}
        /\ conn' = [conn EXCEPT ![c] = [state |-> "open", replica |-> r, key |-> k,
                                        rooms |-> session[r][k]]]
        /\ members' = [members EXCEPT ![r] = [room \in Room |->
             IF room \in session[r][k] THEN @[room] \cup {c} ELSE @[room]]]
        /\ status' = [status EXCEPT ![r][k] = "connected"]
    BY DEF Connect
  <1>2. session[r][k] \in SUBSET Room
    OBVIOUS
  <1>3. /\ conn' \in [Conn -> [state : {"new", "open", "broken", "closed"},
                               replica : Replica \cup {None}, key : Key \cup {None},
                               rooms : SUBSET Room]]
        /\ conn'[c] = [state |-> "open", replica |-> r, key |-> k, rooms |-> session[r][k]]
        /\ \A e \in Conn \ {c} : conn'[e] = conn[e]
    BY <1>1, <1>2
  <1>4. /\ members' \in [Replica -> [Room -> SUBSET Conn]]
        /\ \A s \in Replica, room \in Room :
             members'[s][room] = IF s = r /\ room \in session[r][k]
                                 THEN members[s][room] \cup {c} ELSE members[s][room]
    BY <1>1
  <1>5. /\ status' \in [Replica -> [Key -> {"connected", "disconnected"}]]
        /\ \A s \in Replica, q \in Key :
             status'[s][q] = IF s = r /\ q = k THEN "connected" ELSE status[s][q]
    BY <1>1
  <1> QED BY <1>1, <1>3, <1>4, <1>5

LEMMA ConnectEffect ==
  ASSUME HubTypeOK, NEW c \in Conn, NEW r \in Replica, NEW k \in Key, Connect(c, r, k)
  PROVE  /\ \A s \in Replica, room \in Room :
              members'[s][room] = IF s = r /\ room \in session[r][k]
                                  THEN members[s][room] \cup {c} ELSE members[s][room]
         /\ \A s \in Replica, q \in Key :
              status'[s][q] = IF s = r /\ q = k THEN "connected" ELSE status[s][q]
  BY DEF Connect, HubTypeOK

\* Subscribe and Unsubscribe move one room in or out, in the three places
\* that hold it.
LEMMA SubscriptionStep ==
  ASSUME HubTypeOK, Placed, NEW c \in Conn, NEW room \in Room,
         Subscribe(c, room) \/ Unsubscribe(c, room)
  PROVE  /\ HubTypeOK' /\ UNCHANGED busVars /\ status' = status
         /\ Live(c)
         /\ \A e \in Conn : /\ conn'[e].state = conn[e].state
                            /\ conn'[e].replica = conn[e].replica
                            /\ conn'[e].key = conn[e].key
                            /\ e # c => conn'[e].rooms = conn[e].rooms
         /\ \A q \in Room \ {room} : q \in conn'[c].rooms <=> q \in conn[c].rooms
         /\ \A s \in Replica, q \in Room : s # conn[c].replica \/ q # room =>
              members'[s][q] = members[s][q]
         /\ \A s \in Replica, k \in Key : s # conn[c].replica \/ k # conn[c].key =>
              session'[s][k] = session[s][k]
         /\ \A q \in Room \ {room} : q \in session'[conn[c].replica][conn[c].key] <=>
                                     q \in session[conn[c].replica][conn[c].key]
         /\ \/ /\ room \in conn'[c].rooms
               /\ members'[conn[c].replica][room] = members[conn[c].replica][room] \cup {c}
               /\ room \in session'[conn[c].replica][conn[c].key]
            \/ /\ room \notin conn'[c].rooms
               /\ members'[conn[c].replica][room] = members[conn[c].replica][room] \ {c}
               /\ room \notin session'[conn[c].replica][conn[c].key]
  <1> DEFINE r == conn[c].replica
             k == conn[c].key
  <1>0. r \in Replica /\ k \in Key /\ Live(c)
    BY DEF Placed, Live, Subscribe, Unsubscribe
  <1>1. CASE Subscribe(c, room)
    <2>1. /\ members' = [members EXCEPT ![r][room] = @ \cup {c}]
          /\ session' = [session EXCEPT ![r][k] = @ \cup {room}]
          /\ conn' = [conn EXCEPT ![c].rooms = @ \cup {room}]
          /\ UNCHANGED <<status, busVars>>
      BY <1>1 DEF Subscribe
    <2> HIDE DEF r, k
    <2>2. /\ conn' \in [Conn -> [state : {"new", "open", "broken", "closed"},
                                 replica : Replica \cup {None}, key : Key \cup {None},
                                 rooms : SUBSET Room]]
          /\ \A e \in Conn : /\ conn'[e].state = conn[e].state
                             /\ conn'[e].replica = conn[e].replica
                             /\ conn'[e].key = conn[e].key
                             /\ e # c => conn'[e].rooms = conn[e].rooms
          /\ conn'[c].rooms = conn[c].rooms \cup {room}
      BY <2>1 DEF HubTypeOK
    <2>3. /\ members' \in [Replica -> [Room -> SUBSET Conn]]
          /\ \A s \in Replica, q \in Room : s # r \/ q # room => members'[s][q] = members[s][q]
          /\ members'[r][room] = members[r][room] \cup {c}
      BY <1>0, <2>1 DEF HubTypeOK
    <2>4. /\ session' \in [Replica -> [Key -> SUBSET Room]]
          /\ \A s \in Replica, q \in Key : s # r \/ q # k => session'[s][q] = session[s][q]
          /\ session'[r][k] = session[r][k] \cup {room}
      BY <1>0, <2>1 DEF HubTypeOK
    <2>5. HubTypeOK'
      BY <2>1, <2>2, <2>3, <2>4 DEF HubTypeOK
    <2> QED BY <1>0, <2>1, <2>2, <2>3, <2>4, <2>5 DEF r, k
  <1>2. CASE Unsubscribe(c, room)
    <2>1. /\ members' = [members EXCEPT ![r][room] = @ \ {c}]
          /\ session' = [session EXCEPT ![r][k] = @ \ {room}]
          /\ conn' = [conn EXCEPT ![c].rooms = @ \ {room}]
          /\ UNCHANGED <<status, busVars>>
      BY <1>2 DEF Unsubscribe
    <2> HIDE DEF r, k
    <2>2. /\ conn' \in [Conn -> [state : {"new", "open", "broken", "closed"},
                                 replica : Replica \cup {None}, key : Key \cup {None},
                                 rooms : SUBSET Room]]
          /\ \A e \in Conn : /\ conn'[e].state = conn[e].state
                             /\ conn'[e].replica = conn[e].replica
                             /\ conn'[e].key = conn[e].key
                             /\ e # c => conn'[e].rooms = conn[e].rooms
          /\ conn'[c].rooms = conn[c].rooms \ {room}
      BY <2>1 DEF HubTypeOK
    <2>3. /\ members' \in [Replica -> [Room -> SUBSET Conn]]
          /\ \A s \in Replica, q \in Room : s # r \/ q # room => members'[s][q] = members[s][q]
          /\ members'[r][room] = members[r][room] \ {c}
      BY <1>0, <2>1 DEF HubTypeOK
    <2>4. /\ session' \in [Replica -> [Key -> SUBSET Room]]
          /\ \A s \in Replica, q \in Key : s # r \/ q # k => session'[s][q] = session[s][q]
          /\ session'[r][k] = session[r][k] \ {room}
      BY <1>0, <2>1 DEF HubTypeOK
    <2>5. HubTypeOK'
      BY <2>1, <2>2, <2>3, <2>4 DEF HubTypeOK
    <2> QED BY <1>0, <2>1, <2>2, <2>3, <2>4, <2>5 DEF r, k
  <1> QED BY <1>1, <1>2

\* Drop and Disconnect change the state of one connection; a Disconnect also
\* takes it out of every room and marks its session.
LEMMA DropStep ==
  ASSUME HubTypeOK, NEW c \in Conn, Drop(c)
  PROVE  /\ HubTypeOK' /\ UNCHANGED <<members, session, status, busVars>>
         /\ conn[c].state = "open" /\ conn'[c].state = "broken"
         /\ \A e \in Conn : /\ e # c => conn'[e].state = conn[e].state
                            /\ conn'[e].replica = conn[e].replica
                            /\ conn'[e].key = conn[e].key
                            /\ conn'[e].rooms = conn[e].rooms
  BY DEF Drop, HubTypeOK

LEMMA DisconnectStep ==
  ASSUME HubTypeOK, Placed, NEW c \in Conn, Disconnect(c)
  PROVE  /\ HubTypeOK' /\ UNCHANGED <<session, busVars>>
         /\ conn[c].state = "broken" /\ conn'[c].state = "closed"
         /\ \A e \in Conn : /\ e # c => conn'[e].state = conn[e].state
                            /\ conn'[e].replica = conn[e].replica
                            /\ conn'[e].key = conn[e].key
                            /\ conn'[e].rooms = conn[e].rooms
         /\ \A s \in Replica, room \in Room :
              members'[s][room] = IF s = conn[c].replica
                                  THEN members[s][room] \ {c} ELSE members[s][room]
         /\ \A s \in Replica, q \in Key :
              status'[s][q] = IF s = conn[c].replica /\ q = conn[c].key
                              THEN "disconnected" ELSE status[s][q]
  <1> DEFINE r == conn[c].replica
             k == conn[c].key
  <1>0. r \in Replica /\ k \in Key /\ conn[c].state = "broken"
    BY DEF Placed, Disconnect
  <1>1. /\ conn' = [conn EXCEPT ![c].state = "closed"]
        /\ members' = [members EXCEPT ![r] = [room \in Room |-> @[room] \ {c}]]
        /\ status' = [status EXCEPT ![r][k] = "disconnected"]
        /\ UNCHANGED <<session, busVars>>
    BY DEF Disconnect
  <1>2. /\ conn' \in [Conn -> [state : {"new", "open", "broken", "closed"},
                               replica : Replica \cup {None}, key : Key \cup {None},
                               rooms : SUBSET Room]]
        /\ conn'[c].state = "closed"
        /\ \A e \in Conn : /\ e # c => conn'[e].state = conn[e].state
                           /\ conn'[e].replica = conn[e].replica
                           /\ conn'[e].key = conn[e].key
                           /\ conn'[e].rooms = conn[e].rooms
    BY <1>1 DEF HubTypeOK
  <1> HIDE DEF r, k
  <1>3. /\ members' \in [Replica -> [Room -> SUBSET Conn]]
        /\ \A s \in Replica, room \in Room :
             members'[s][room] = IF s = r THEN members[s][room] \ {c} ELSE members[s][room]
    BY <1>0, <1>1 DEF HubTypeOK
  <1>4. /\ status' \in [Replica -> [Key -> {"connected", "disconnected"}]]
        /\ \A s \in Replica, q \in Key :
             status'[s][q] = IF s = r /\ q = k THEN "disconnected" ELSE status[s][q]
    BY <1>0, <1>1 DEF HubTypeOK
  <1>5. HubTypeOK'
    BY <1>1, <1>2, <1>3, <1>4 DEF HubTypeOK
  <1> QED BY <1>0, <1>1, <1>2, <1>3, <1>4, <1>5 DEF r, k

-----------------------------------------------------------------------------
(***************************************************************************)
(* The hub's operations preserve its invariant, the bus does not touch it. *)
(***************************************************************************)
LEMMA ConnectInv ==
  ASSUME HubTypeOK, HubInv, NEW c \in Conn, NEW r \in Replica, NEW k \in Key, Connect(c, r, k)
  PROVE  HubInv'
  <1> USE DEF HubInv
  <1>1. /\ conn[c].state = "new" /\ conn[c].key = None /\ ~Live(c)
        /\ conn'[c] = [state |-> "open", replica |-> r, key |-> k, rooms |-> session[r][k]]
        /\ \A e \in Conn \ {c} : conn'[e] = conn[e]
        /\ session' = session
    BY ConnectStep DEF Placed, Live
  <1>2. Live(c)' /\ \A e \in Conn \ {c} : Live(e)' <=> Live(e)
    BY <1>1 DEF Live
  <1>a. \A s \in Replica, room \in Room :
          members'[s][room] = IF s = r /\ room \in session[r][k]
                              THEN members[s][room] \cup {c} ELSE members[s][room]
    BY SMTT(30), ConnectEffect
  <1>b. \A s \in Replica, q \in Key :
          status'[s][q] = IF s = r /\ q = k THEN "connected" ELSE status[s][q]
    BY ConnectEffect
  <1>3. RoomsAgree'
    <2> SUFFICES ASSUME NEW s \in Replica, NEW room \in Room
                 PROVE  members'[s][room] = {e \in Conn : /\ Live(e)'
                                                          /\ conn'[e].replica = s
                                                          /\ room \in conn'[e].rooms}
      BY DEF RoomsAgree
    <2>1. members[s][room] = {e \in Conn : /\ Live(e)
                                           /\ conn[e].replica = s
                                           /\ room \in conn[e].rooms}
      BY DEF RoomsAgree
    <2>2. members'[s][room] = IF s = r /\ room \in session[r][k]
                              THEN members[s][room] \cup {c} ELSE members[s][room]
      BY <1>a
    <2>3. c \notin members[s][room]
      BY <1>1, <2>1
    <2> QED BY <1>1, <1>2, <2>1, <2>2, <2>3
  <1>4. ConnectedHasConnection'
    <2> SUFFICES ASSUME NEW s \in Replica, NEW q \in Key, status'[s][q] = "connected"
                 PROVE  \E e \in Conn : Live(e)' /\ conn'[e].replica = s /\ conn'[e].key = q
      BY DEF ConnectedHasConnection, At
    <2>1. CASE s = r /\ q = k
      BY <1>1, <1>2, <2>1
    <2>2. CASE ~(s = r /\ q = k)
      <3>1. status[s][q] = "connected"
        BY <1>b, <2>2
      <3>2. PICK e \in Conn : Live(e) /\ conn[e].replica = s /\ conn[e].key = q
        BY <3>1 DEF ConnectedHasConnection, At
      <3> QED BY <1>1, <1>2, <3>2
    <2> QED BY <2>1, <2>2
  <1>5. SessionMirrorsRooms'
    BY <1>1, <1>2 DEF SessionMirrorsRooms
  <1>6. Placed'
    BY <1>1 DEF Placed
  <1>7. OnlyMirrors'
    <2> SUFFICES ASSUME NEW b \in Conn, conn'[b].state # "new",
                        \A e \in Conn \ {b} : conn'[e].key # conn'[b].key
                 PROVE  session[conn'[b].replica][conn'[b].key] = conn'[b].rooms
      BY <1>1 DEF OnlyMirrors
    <2>1. CASE b = c
      BY <1>1, <2>1
    <2>2. CASE b # c
      <3>1. conn[b].key \in Key /\ conn[c].key = None
        BY <1>1, <2>2 DEF Placed
      <3>2. \A e \in Conn \ {b} : conn[e].key # conn[b].key
        BY <1>1, <2>2, <3>1, StreamHubAssumption
      <3> QED BY <1>1, <2>2, <3>2 DEF OnlyMirrors
    <2> QED BY <2>1, <2>2
  <1>8. OneAtATime'
    <2> SUFFICES ASSUME NEW b \in Conn, NEW e \in Conn, Live(b)', Live(e)', b # e,
                        conn'[b].key = conn'[e].key, conn'[b].key \notin SharedKeys
                 PROVE  FALSE
      BY DEF OneAtATime
    <2>1. k \notin SharedKeys => \A s \in Replica : At(s, k) = {}
      BY ConnectStep
    <2>2. k \notin SharedKeys => \A d \in Conn : Live(d) => conn[d].key # k
      BY <2>1 DEF At, Placed, Live
    <2> QED BY <1>1, <1>2, <2>2 DEF OneAtATime
  <1> QED BY <1>3, <1>4, <1>5, <1>6, <1>7, <1>8

LEMMA SubscriptionInv ==
  ASSUME HubTypeOK, HubInv, NEW c \in Conn, NEW room \in Room,
         Subscribe(c, room) \/ Unsubscribe(c, room)
  PROVE  HubInv'
  <1> USE DEF HubInv
  <1>1. /\ Live(c)
        /\ \A e \in Conn : /\ conn'[e].state = conn[e].state
                           /\ conn'[e].replica = conn[e].replica
                           /\ conn'[e].key = conn[e].key
                           /\ e # c => conn'[e].rooms = conn[e].rooms
    BY SubscriptionStep
  <1>2. \A e \in Conn : Live(e)' <=> Live(e)
    BY <1>1 DEF Live
  <1>3. conn[c].replica \in Replica /\ conn[c].key \in Key
    BY <1>1 DEF Placed, Live
  <1>4. RoomsAgree'
    <2> SUFFICES ASSUME NEW s \in Replica, NEW q \in Room
                 PROVE  members'[s][q] = {e \in Conn : /\ Live(e)'
                                                       /\ conn'[e].replica = s
                                                       /\ q \in conn'[e].rooms}
      BY DEF RoomsAgree
    <2>1. members[s][q] = {e \in Conn : /\ Live(e)
                                        /\ conn[e].replica = s
                                        /\ q \in conn[e].rooms}
      BY DEF RoomsAgree
    <2>2. CASE s = conn[c].replica /\ q = room
      <3>1. CASE room \in conn'[c].rooms
        <4>1. members'[s][q] = members[s][q] \cup {c}
          BY <2>2, <3>1, <1>3, SubscriptionStep
        <4> QED BY <1>1, <1>2, <2>1, <2>2, <3>1, <4>1
      <3>2. CASE room \notin conn'[c].rooms
        <4>1. members'[s][q] = members[s][q] \ {c}
          BY <2>2, <3>2, <1>3, SubscriptionStep
        <4> QED BY <1>1, <1>2, <2>1, <2>2, <3>2, <4>1
      <3> QED BY <3>1, <3>2
    <2>3. CASE s # conn[c].replica \/ q # room
      <3>1. members'[s][q] = members[s][q]
        BY <2>3, SubscriptionStep
      <3>2. \A e \in Conn : conn[e].replica = s =>
              (q \in conn'[e].rooms <=> q \in conn[e].rooms)
        BY <1>1, <2>3, SubscriptionStep
      <3> QED BY <1>1, <1>2, <2>1, <3>1, <3>2
    <2> QED BY <2>2, <2>3
  <1>5. ConnectedHasConnection'
    <2>1. status' = status
      BY SubscriptionStep
    <2>2. \A s \in Replica, q \in Key : At(s, q)' = At(s, q)
      BY <1>1, <1>2 DEF At
    <2> QED BY <2>1, <2>2 DEF ConnectedHasConnection
  <1>6. session[conn[c].replica][conn[c].key] = conn[c].rooms =>
          session'[conn[c].replica][conn[c].key] = conn'[c].rooms
    <2>1. /\ conn'[c].rooms \in SUBSET Room /\ conn[c].rooms \in SUBSET Room
          /\ session[conn[c].replica][conn[c].key] \in SUBSET Room
          /\ session'[conn[c].replica][conn[c].key] \in SUBSET Room
      BY <1>3, SubscriptionStep DEF HubTypeOK
    <2>2. room \in session'[conn[c].replica][conn[c].key] <=> room \in conn'[c].rooms
      BY SubscriptionStep
    <2>3. \A q \in Room \ {room} :
            /\ q \in conn'[c].rooms <=> q \in conn[c].rooms
            /\ q \in session'[conn[c].replica][conn[c].key] <=>
               q \in session[conn[c].replica][conn[c].key]
      BY SubscriptionStep
    <2>4. ASSUME session[conn[c].replica][conn[c].key] = conn[c].rooms
          PROVE  \A q \in Room : q \in session'[conn[c].replica][conn[c].key]
                                <=> q \in conn'[c].rooms
      BY <2>2, <2>3, <2>4
    <2> QED BY <2>1, <2>4
  <1>7. SessionMirrorsRooms'
    <2> SUFFICES ASSUME NEW e \in Conn, Live(e), conn[e].key \notin SharedKeys
                 PROVE  session'[conn[e].replica][conn[e].key] = conn'[e].rooms
      BY <1>1, <1>2 DEF SessionMirrorsRooms
    <2>1. session[conn[e].replica][conn[e].key] = conn[e].rooms
      BY DEF SessionMirrorsRooms
    <2>2. CASE e = c
      BY <1>6, <2>1, <2>2
    <2>3. CASE e # c
      <3>1. conn[e].key # conn[c].key
        BY <1>1, <2>3 DEF OneAtATime
      <3>2. conn[e].replica \in Replica /\ conn[e].key \in Key
        BY DEF Placed, Live
      <3>3. session'[conn[e].replica][conn[e].key] = session[conn[e].replica][conn[e].key]
        BY <3>1, <3>2, SubscriptionStep
      <3> QED BY <1>1, <2>1, <2>3, <3>3
    <2> QED BY <2>2, <2>3
  <1>8. OnlyMirrors'
    <2> SUFFICES ASSUME NEW b \in Conn, conn[b].state # "new",
                        \A e \in Conn \ {b} : conn[e].key # conn[b].key
                 PROVE  session'[conn[b].replica][conn[b].key] = conn'[b].rooms
      BY <1>1 DEF OnlyMirrors
    <2>1. session[conn[b].replica][conn[b].key] = conn[b].rooms
      BY DEF OnlyMirrors
    <2>2. CASE b = c
      BY <1>6, <2>1, <2>2
    <2>3. CASE b # c
      <3>1. conn[b].replica \in Replica /\ conn[b].key \in Key /\ conn[b].key # conn[c].key
        BY <2>3 DEF Placed
      <3>2. session'[conn[b].replica][conn[b].key] = session[conn[b].replica][conn[b].key]
        BY <3>1, SubscriptionStep
      <3> QED BY <1>1, <2>1, <2>3, <3>2
    <2> QED BY <2>2, <2>3
  <1>9. Placed' /\ OneAtATime'
    BY <1>1, <1>2 DEF Placed, OneAtATime
  <1> QED BY <1>4, <1>5, <1>7, <1>8, <1>9

LEMMA DropInv ==
  ASSUME HubTypeOK, HubInv, NEW c \in Conn, Drop(c)
  PROVE  HubInv'
  <1> USE DEF HubInv
  <1>1. /\ UNCHANGED <<members, session, status>>
        /\ conn[c].state = "open" /\ conn'[c].state = "broken"
        /\ \A e \in Conn : /\ e # c => conn'[e].state = conn[e].state
                           /\ conn'[e].replica = conn[e].replica
                           /\ conn'[e].key = conn[e].key
                           /\ conn'[e].rooms = conn[e].rooms
    BY DropStep
  <1>2. \A e \in Conn : Live(e)' <=> Live(e)
    BY <1>1 DEF Live
  <1>3. RoomsAgree'
    <2> SUFFICES ASSUME NEW s \in Replica, NEW q \in Room
                 PROVE  members'[s][q] = {e \in Conn : /\ Live(e)'
                                                       /\ conn'[e].replica = s
                                                       /\ q \in conn'[e].rooms}
      BY DEF RoomsAgree
    <2>1. members[s][q] = {e \in Conn : /\ Live(e)
                                        /\ conn[e].replica = s
                                        /\ q \in conn[e].rooms}
      BY DEF RoomsAgree
    <2> QED BY <1>1, <1>2, <2>1
  <1>4. ConnectedHasConnection'
    <2>1. \A s \in Replica, q \in Key : At(s, q)' = At(s, q)
      BY <1>1, <1>2 DEF At
    <2> QED BY <1>1, <2>1 DEF ConnectedHasConnection
  <1>5. SessionMirrorsRooms' /\ Placed' /\ OneAtATime'
    BY <1>1, <1>2 DEF SessionMirrorsRooms, Placed, OneAtATime
  <1>6. OnlyMirrors'
    BY <1>1 DEF OnlyMirrors
  <1> QED BY <1>3, <1>4, <1>5, <1>6

LEMMA DisconnectInv ==
  ASSUME HubTypeOK, HubInv, NEW c \in Conn, Disconnect(c)
  PROVE  HubInv'
  <1> USE DEF HubInv
  <1>1. /\ session' = session
        /\ conn[c].state = "broken" /\ conn'[c].state = "closed"
        /\ \A e \in Conn : /\ e # c => conn'[e].state = conn[e].state
                           /\ conn'[e].replica = conn[e].replica
                           /\ conn'[e].key = conn[e].key
                           /\ conn'[e].rooms = conn[e].rooms
    BY DisconnectStep
  <1>a. \A s \in Replica, room \in Room :
          members'[s][room] = IF s = conn[c].replica
                              THEN members[s][room] \ {c} ELSE members[s][room]
    BY DisconnectStep
  <1>b. \A s \in Replica, q \in Key :
          status'[s][q] = IF s = conn[c].replica /\ q = conn[c].key
                          THEN "disconnected" ELSE status[s][q]
    BY DisconnectStep
  <1>2. Live(c) /\ ~Live(c)' /\ \A e \in Conn \ {c} : Live(e)' <=> Live(e)
    BY <1>1 DEF Live
  <1>3. RoomsAgree'
    <2> SUFFICES ASSUME NEW s \in Replica, NEW q \in Room
                 PROVE  members'[s][q] = {e \in Conn : /\ Live(e)'
                                                       /\ conn'[e].replica = s
                                                       /\ q \in conn'[e].rooms}
      BY DEF RoomsAgree
    <2>1. members[s][q] = {e \in Conn : /\ Live(e)
                                        /\ conn[e].replica = s
                                        /\ q \in conn[e].rooms}
      BY DEF RoomsAgree
    <2>2. members'[s][q] = IF s = conn[c].replica
                           THEN members[s][q] \ {c} ELSE members[s][q]
      BY <1>a
    <2> QED BY <1>1, <1>2, <2>1, <2>2
  <1>4. ConnectedHasConnection'
    <2> SUFFICES ASSUME NEW s \in Replica, NEW q \in Key, status'[s][q] = "connected"
                 PROVE  \E e \in Conn : Live(e)' /\ conn'[e].replica = s /\ conn'[e].key = q
      BY DEF ConnectedHasConnection, At
    <2>1. ~(s = conn[c].replica /\ q = conn[c].key) /\ status[s][q] = "connected"
      BY <1>b
    <2>2. PICK e \in Conn : Live(e) /\ conn[e].replica = s /\ conn[e].key = q
      BY <2>1 DEF ConnectedHasConnection, At
    <2> QED BY <1>1, <1>2, <2>1, <2>2
  <1>5. SessionMirrorsRooms' /\ Placed' /\ OneAtATime'
    BY <1>1, <1>2 DEF SessionMirrorsRooms, Placed, OneAtATime
  <1>6. OnlyMirrors'
    BY <1>1 DEF OnlyMirrors
  <1> QED BY <1>3, <1>4, <1>5, <1>6

LEMMA HubUnchanged ==
  ASSUME HubTypeOK, HubInv, UNCHANGED hubVars
  PROVE  HubTypeOK' /\ HubInv'
  BY DEF hubVars, HubTypeOK, HubInv, RoomsAgree, ConnectedHasConnection,
         SessionMirrorsRooms, Placed, OnlyMirrors, OneAtATime, Live, At

LEMMA BroadcastBus ==
  ASSUME BusTypeOK, QueuedIsSent, NEW m \in Message, NEW room \in Room,
         NEW reached \in SUBSET Replica, Broadcast(m, room, reached)
  PROVE  BusTypeOK' /\ QueuedIsSent' /\ UNCHANGED <<hubVars, fan>>
  <1>1. /\ UNCHANGED <<hubVars, fan, inbox>>
        /\ sentTo' = [sentTo EXCEPT ![m] = room]
        /\ log' = Append(log, m)
        /\ queue' = [r \in Replica |-> IF r \in reached THEN Append(queue[r], m) ELSE queue[r]]
    BY DEF Broadcast
  <1>2. sentTo' \in [Message -> Room \cup {None}] /\ log' \in Seq(Message)
    BY <1>1, AppendProperties DEF BusTypeOK
  <1>3. ASSUME NEW r \in Replica
        PROVE  /\ queue'[r] \in Seq(Message)
               /\ \A i \in 1..Len(queue'[r]) : sentTo'[queue'[r][i]] \in Room
    <2>1. queue[r] \in Seq(Message) /\ \A i \in 1..Len(queue[r]) : sentTo[queue[r][i]] \in Room
      BY DEF BusTypeOK, QueuedIsSent
    <2>2. \A q \in Message : sentTo[q] \in Room => sentTo'[q] \in Room
      BY <1>1 DEF BusTypeOK
    <2>3. CASE r \in reached
      <3>1. queue'[r] = Append(queue[r], m)
        BY <1>1, <2>3
      <3>2. /\ queue'[r] \in Seq(Message)
            /\ Len(queue'[r]) = Len(queue[r]) + 1
            /\ \A i \in 1..Len(queue[r]) : queue'[r][i] = queue[r][i]
            /\ queue'[r][Len(queue[r]) + 1] = m
        BY <2>1, <3>1, AppendProperties
      <3>3. sentTo'[m] = room
        BY <1>1 DEF BusTypeOK
      <3>4. \A i \in 1..Len(queue[r]) : queue[r][i] \in Message
        BY <2>1
      <3>5. Len(queue[r]) \in Nat
        BY <2>1
      <3> QED BY <2>1, <2>2, <3>2, <3>3, <3>4, <3>5
    <2>4. CASE r \notin reached
      <3>1. queue'[r] = queue[r]
        BY <1>1, <2>4
      <3> QED BY <2>1, <2>2, <3>1
    <2> QED BY <2>3, <2>4
  <1>4. queue' \in [Replica -> Seq(Message)]
    BY <1>1, <1>3
  <1> QED BY <1>1, <1>2, <1>3, <1>4 DEF BusTypeOK, QueuedIsSent

LEMMA FanStartBus ==
  ASSUME HubTypeOK, BusTypeOK, QueuedIsSent, NEW r \in Replica, FanStart(r)
  PROVE  /\ BusTypeOK' /\ QueuedIsSent' /\ UNCHANGED hubVars /\ sentTo' = sentTo
         /\ fan'[r].message \in Message
         /\ sentTo[fan'[r].message] \in Room
         /\ fan'[r].targets = members[r][sentTo[fan'[r].message]]
         /\ \A s \in Replica \ {r} : fan'[s] = fan[s]
  <1> DEFINE m == Head(queue[r])
  <1>1. /\ queue[r] # <<>>
        /\ fan' = [fan EXCEPT ![r] = [message |-> m, targets |-> members[r][sentTo[m]]]]
        /\ queue' = [queue EXCEPT ![r] = Tail(@)]
        /\ UNCHANGED <<hubVars, log, sentTo, inbox>>
    BY DEF FanStart
  <1>2. queue[r] \in Seq(Message) /\ \A i \in 1..Len(queue[r]) : sentTo[queue[r][i]] \in Room
    BY DEF BusTypeOK, QueuedIsSent
  <1>3. /\ m \in Message
        /\ m = queue[r][1] /\ Len(queue[r]) \in Nat \ {0}
        /\ Tail(queue[r]) \in Seq(Message)
        /\ Len(Tail(queue[r])) = Len(queue[r]) - 1
        /\ \A i \in 1..Len(Tail(queue[r])) : Tail(queue[r])[i] = queue[r][i + 1]
    BY <1>1, <1>2, HeadTailProperties
  <1>4. sentTo[m] \in Room
    BY <1>2, <1>3
  <1>5. members[r][sentTo[m]] \in SUBSET Conn
    BY <1>4 DEF HubTypeOK
  <1>6. /\ fan' \in [Replica -> [message : Message \cup {None}, targets : SUBSET Conn]]
        /\ fan'[r] = [message |-> m, targets |-> members[r][sentTo[m]]]
        /\ \A s \in Replica \ {r} : fan'[s] = fan[s]
    <2> HIDE DEF m
    <2> QED BY <1>1, <1>3, <1>5 DEF BusTypeOK
  <1>7. /\ queue' \in [Replica -> Seq(Message)]
        /\ \A s \in Replica : queue'[s] = IF s = r THEN Tail(queue[r]) ELSE queue[s]
    BY <1>1, <1>3 DEF BusTypeOK
  <1>8. QueuedIsSent'
    <2> SUFFICES ASSUME NEW s \in Replica, NEW i \in 1..Len(queue'[s])
                 PROVE  sentTo[queue'[s][i]] \in Room
      BY <1>1, <1>3, <1>6 DEF QueuedIsSent
    <2>1. CASE s = r
      <3>1. queue'[s] = Tail(queue[r])
        BY <1>7, <2>1
      <3>2. i + 1 \in 1..Len(queue[r]) /\ queue'[s][i] = queue[r][i + 1]
        BY <1>3, <3>1
      <3> QED BY <1>2, <3>2
    <2>2. CASE s # r
      BY <1>7, <2>2 DEF QueuedIsSent
    <2> QED BY <2>1, <2>2
  <1> QED BY <1>1, <1>3, <1>4, <1>6, <1>7, <1>8 DEF BusTypeOK

LEMMA FanOtherBus ==
  ASSUME BusTypeOK, QueuedIsSent, NEW r \in Replica,
         FanDone(r) \/ \E c \in Conn : FanDeliver(r, c)
  PROVE  /\ BusTypeOK' /\ QueuedIsSent' /\ UNCHANGED <<hubVars, sentTo>>
         /\ \A s \in Replica : fan[s] = NoFan => fan'[s] = NoFan
  <1>1. CASE FanDone(r)
    BY <1>1 DEF FanDone, NoFan, BusTypeOK, QueuedIsSent
  <1>2. ASSUME NEW c \in Conn, FanDeliver(r, c)
        PROVE  /\ BusTypeOK' /\ QueuedIsSent' /\ UNCHANGED <<hubVars, sentTo>>
               /\ \A s \in Replica : fan[s] = NoFan => fan'[s] = NoFan
    <2>1. /\ c \in fan[r].targets
          /\ inbox' = IF conn[c].state = "open"
                      THEN [inbox EXCEPT ![c] = Append(@, fan[r].message)] ELSE inbox
          /\ fan' = [fan EXCEPT ![r].targets = @ \ {c}]
          /\ UNCHANGED <<hubVars, log, sentTo, queue>>
      BY <1>2 DEF FanDeliver
    <2>2. fan[r].message \in Message /\ inbox[c] \in Seq(Message)
      BY <2>1 DEF QueuedIsSent, BusTypeOK
    <2>3. Append(inbox[c], fan[r].message) \in Seq(Message)
      BY <2>2, AppendProperties
    <2>4. inbox' \in [Conn -> Seq(Message)]
      BY <2>1, <2>3 DEF BusTypeOK
    <2>5. /\ fan' \in [Replica -> [message : Message \cup {None}, targets : SUBSET Conn]]
          /\ fan'[r].message = fan[r].message
          /\ \A s \in Replica \ {r} : fan'[s] = fan[s]
      <3>1. fan \in [Replica -> [message : Message \cup {None}, targets : SUBSET Conn]]
        BY DEF BusTypeOK
      <3> QED BY <2>1, <3>1
    <2>6. fan[r] # NoFan
      BY <2>1 DEF NoFan
    <2>7. BusTypeOK'
      BY <2>1, <2>4, <2>5 DEF BusTypeOK
    <2>8. QueuedIsSent'
      BY <2>1, <2>2, <2>5 DEF QueuedIsSent
    <2>9. \A s \in Replica : fan[s] = NoFan => fan'[s] = NoFan
      BY <2>5, <2>6
    <2> QED BY <2>1, <2>7, <2>8, <2>9
  <1> QED BY <1>1, <1>2

-----------------------------------------------------------------------------
(***************************************************************************)
(* The invariant and the theorems.                                         *)
(***************************************************************************)
LEMMA InitInv == Init => Inv
  <1> SUFFICES ASSUME Init
               PROVE  Inv
    OBVIOUS
  <1>1. TypeOK
    BY EmptySeq DEF Init, TypeOK, NoFan
  <1>2. QueuedIsSent
    <2>1. \A r \in Replica : queue[r] = <<>> /\ fan[r].targets = {}
      BY DEF Init, NoFan
    <2>2. 1..Len(<<>>) = {}
      OBVIOUS
    <2> QED BY <2>1, <2>2 DEF QueuedIsSent
  <1>3. \A c \in Conn : ~Live(c) /\ conn[c].state = "new" /\ conn[c].key = None
    BY DEF Init, Live
  <1>4. RoomsAgree
    <2>1. \A r \in Replica, room \in Room : members[r][room] = {}
      BY DEF Init
    <2> QED BY <1>3, <2>1 DEF RoomsAgree
  <1>5. ConnectedHasConnection
    <2>1. \A r \in Replica, k \in Key : status[r][k] # "connected"
      BY DEF Init
    <2> QED BY <2>1 DEF ConnectedHasConnection
  <1>6. SessionMirrorsRooms /\ Placed /\ OnlyMirrors /\ OneAtATime
    BY <1>3 DEF SessionMirrorsRooms, Placed, OnlyMirrors, OneAtATime
  <1> QED BY <1>1, <1>2, <1>4, <1>5, <1>6 DEF Inv, HubInv

LEMMA HubCall ==
  ASSUME HubTypeOK, HubInv, NEW c \in Conn,
         \/ \E r \in Replica, k \in Key : Connect(c, r, k)
         \/ \E room \in Room : Subscribe(c, room) \/ Unsubscribe(c, room)
         \/ Drop(c)
         \/ Disconnect(c)
  PROVE  HubTypeOK' /\ HubInv' /\ UNCHANGED busVars
  <1> USE DEF HubInv
  <1>1. ASSUME NEW r \in Replica, NEW k \in Key, Connect(c, r, k)
        PROVE  HubTypeOK' /\ HubInv' /\ UNCHANGED busVars
    BY <1>1, ConnectStep, ConnectInv
  <1>2. ASSUME NEW room \in Room, Subscribe(c, room) \/ Unsubscribe(c, room)
        PROVE  HubTypeOK' /\ HubInv' /\ UNCHANGED busVars
    BY <1>2, SubscriptionStep, SubscriptionInv
  <1>3. CASE Drop(c)
    BY <1>3, DropStep, DropInv
  <1>4. CASE Disconnect(c)
    BY <1>4, DisconnectStep, DisconnectInv
  <1> QED BY <1>1, <1>2, <1>3, <1>4

LEMMA NextInv == Inv /\ [Next]_vars => Inv'
  <1> SUFFICES ASSUME Inv, [Next]_vars
               PROVE  Inv'
    OBVIOUS
  <1>0. HubTypeOK /\ BusTypeOK /\ QueuedIsSent /\ HubInv
    BY TypeParts DEF Inv
  <1>a. ASSUME HubTypeOK', BusTypeOK', QueuedIsSent', HubInv'
        PROVE  Inv'
    BY <1>a DEF Inv, TypeOK, HubTypeOK, BusTypeOK
  <1>1. ASSUME NEW c \in Conn,
               \/ \E r \in Replica, k \in Key : Connect(c, r, k)
               \/ \E room \in Room : Subscribe(c, room) \/ Unsubscribe(c, room)
               \/ Drop(c)
               \/ Disconnect(c)
        PROVE  Inv'
    <2>1. HubTypeOK' /\ HubInv' /\ UNCHANGED busVars
      BY <1>0, <1>1, HubCall
    <2>2. BusTypeOK' /\ QueuedIsSent'
      BY <1>0, <2>1 DEF busVars, BusTypeOK, QueuedIsSent
    <2> QED BY <1>a, <2>1, <2>2
  <1>2. ASSUME NEW m \in Message, NEW room \in Room, NEW reached \in SUBSET Replica,
               Broadcast(m, room, reached)
        PROVE  Inv'
    <2>1. BusTypeOK' /\ QueuedIsSent' /\ UNCHANGED hubVars
      BY <1>0, <1>2, BroadcastBus
    <2> QED BY <1>0, <1>a, <2>1, HubUnchanged
  <1>3. ASSUME NEW r \in Replica, Pump(r)
        PROVE  Inv'
    <2>1. BusTypeOK' /\ QueuedIsSent' /\ UNCHANGED hubVars
      BY <1>0, <1>3, FanStartBus, FanOtherBus DEF Pump
    <2> QED BY <1>0, <1>a, <2>1, HubUnchanged
  <1>4. CASE UNCHANGED vars
    <2>1. UNCHANGED hubVars /\ UNCHANGED busVars
      BY <1>4 DEF vars, hubVars, busVars
    <2>2. BusTypeOK' /\ QueuedIsSent'
      BY <1>0, <2>1 DEF busVars, BusTypeOK, QueuedIsSent
    <2> QED BY <1>0, <1>a, <2>1, <2>2, HubUnchanged
  <1> QED BY <1>1, <1>2, <1>3, <1>4 DEF Next

LEMMA Invariance == Spec => []Inv
  <1> QED BY InitInv, NextInv, PTL DEF Spec

\* The maps of every Hub, the channel and the sinks are always of their types.
THEOREM TypeCorrect == Spec => []TypeOK
  <1>1. Inv => TypeOK
    BY DEF Inv
  <1> QED BY <1>1, Invariance, PTL

\* Requirement 14.3: a disconnected connection is in no room, and Hub.rooms
\* lists exactly what the Clients list.
THEOREM RoomsAgreeCorrect == Spec => []RoomsAgree
  <1>1. Inv => RoomsAgree
    BY DEF Inv, HubInv
  <1> QED BY <1>1, Invariance, PTL

\* A session reported connected has a connection.
THEOREM ConnectedHasConnectionCorrect == Spec => []ConnectedHasConnection
  <1>1. Inv => ConnectedHasConnection
    BY DEF Inv, HubInv
  <1> QED BY <1>1, Invariance, PTL

\* What the hub persists for a session with one connection at a time is what
\* that connection is subscribed to.
THEOREM SessionMirrorsRoomsCorrect == Spec => []SessionMirrorsRooms
  <1>1. Inv => SessionMirrorsRooms
    BY DEF Inv, HubInv
  <1> QED BY <1>1, Invariance, PTL

\* Requirement 14.4 on one replica: a reconnecting session is in the rooms it
\* was in.  Shared keys elsewhere do not disturb it.
THEOREM ResumesAtReplicaCorrect == Spec => ResumesAtReplica
  <1> DEFINE Resumes == \A b, c \in Conn :
               Reopens(c, b) /\ conn'[c].replica = conn[b].replica =>
                 conn'[c].rooms = conn[b].rooms
  <1>1. Inv /\ [Next]_vars => [Resumes]_vars
    <2> SUFFICES ASSUME Inv, Next, NEW b \in Conn, NEW c \in Conn,
                        Reopens(c, b), conn'[c].replica = conn[b].replica
                 PROVE  conn'[c].rooms = conn[b].rooms
      OBVIOUS
    <2>0. HubTypeOK /\ BusTypeOK /\ QueuedIsSent /\ HubInv /\ Placed /\ OnlyMirrors
      BY TypeParts DEF Inv, HubInv
    <2>1. conn[c].state = "new" /\ conn'[c].state = "open" /\ conn' # conn
      BY DEF Reopens
    <2>2. PICK r \in Replica, k \in Key : Connect(c, r, k)
      <3>1. ASSUME NEW d \in Conn, NEW r \in Replica, NEW k \in Key, Connect(d, r, k)
            PROVE  d = c
        BY <2>0, <2>1, <3>1, ConnectStep
      <3>2. ASSUME NEW d \in Conn, NEW room \in Room,
                   Subscribe(d, room) \/ Unsubscribe(d, room)
            PROVE  FALSE
        BY <2>0, <2>1, <3>2, SubscriptionStep
      <3>3. ASSUME NEW d \in Conn, Drop(d) \/ Disconnect(d)
            PROVE  FALSE
        BY <2>0, <2>1, <3>3, DropStep, DisconnectStep
      <3>4. ASSUME NEW m \in Message, NEW room \in Room, NEW reached \in SUBSET Replica,
                   Broadcast(m, room, reached)
            PROVE  FALSE
        BY <2>1, <3>4 DEF Broadcast, hubVars
      <3>5. ASSUME NEW r \in Replica, Pump(r)
            PROVE  FALSE
        BY <2>1, <3>5 DEF Pump, FanStart, FanDone, FanDeliver, hubVars
      <3> QED BY <3>1, <3>2, <3>3, <3>4, <3>5 DEF Next
    <2>3. conn'[c] = [state |-> "open", replica |-> r, key |-> k, rooms |-> session[r][k]]
      BY <2>0, <2>2, ConnectStep
    <2>4. /\ conn[b].state # "new" /\ conn[b].key = k /\ conn[b].replica = r
          /\ conn[c].key # k
      BY <2>0, <2>1, <2>3, StreamHubAssumption DEF Reopens, Placed
    <2>5. \A e \in Conn \ {b} : conn[e].key # conn[b].key
      BY <2>3, <2>4 DEF Reopens
    <2>6. session[conn[b].replica][conn[b].key] = conn[b].rooms
      BY <2>0, <2>4, <2>5 DEF OnlyMirrors
    <2> QED BY <2>3, <2>4, <2>6
  <1> QED BY <1>1, Invariance, PTL DEF Spec, ResumesAtReplica

\* Property 36: a write of a message is begun only for subscribers of its room.
THEOREM TargetsAreMembersCorrect == Spec => TargetsAreMembers
  <1> DEFINE Targets == \A r \in Replica : fan[r] = NoFan /\ fan'[r] # NoFan =>
               \A c \in fan'[r].targets : sentTo[fan'[r].message] \in conn[c].rooms
  <1>1. Inv /\ [Next]_vars => [Targets]_vars
    <2> SUFFICES ASSUME Inv, Next, NEW r \in Replica, fan[r] = NoFan, fan'[r] # NoFan,
                        NEW c \in fan'[r].targets
                 PROVE  sentTo[fan'[r].message] \in conn[c].rooms
      OBVIOUS
    <2>0. HubTypeOK /\ BusTypeOK /\ QueuedIsSent /\ HubInv /\ RoomsAgree
      BY TypeParts DEF Inv, HubInv
    <2>1. FanStart(r)
      <3>1. ASSUME NEW d \in Conn,
                   \/ \E s \in Replica, k \in Key : Connect(d, s, k)
                   \/ \E room \in Room : Subscribe(d, room) \/ Unsubscribe(d, room)
                   \/ Drop(d)
                   \/ Disconnect(d)
            PROVE  FALSE
        BY <2>0, <3>1, HubCall DEF busVars
      <3>2. ASSUME NEW m \in Message, NEW room \in Room, NEW reached \in SUBSET Replica,
                   Broadcast(m, room, reached)
            PROVE  FALSE
        BY <3>2 DEF Broadcast
      <3>3. ASSUME NEW s \in Replica, FanDone(s) \/ \E d \in Conn : FanDeliver(s, d)
            PROVE  FALSE
        BY <2>0, <3>3, FanOtherBus
      <3>4. ASSUME NEW s \in Replica, FanStart(s)
            PROVE  s = r
        BY <2>0, <3>4, FanStartBus
      <3> QED BY <3>1, <3>2, <3>3, <3>4 DEF Next, Pump
    <2>2. c \in members[r][sentTo[fan'[r].message]] /\ sentTo[fan'[r].message] \in Room
      BY <2>0, <2>1, FanStartBus
    <2> QED BY <2>0, <2>2 DEF RoomsAgree
  <1> QED BY <1>1, Invariance, PTL DEF Spec, TargetsAreMembers

-----------------------------------------------------------------------------
(***************************************************************************)
(* The order of the messages.  What a pump holds and what a connection has *)
(* been sent is in the order of the channel, a write in progress comes     *)
(* after what its connection has and before what the pump still holds, and *)
(* only one replica's pump ever writes to a connection.                    *)
(***************************************************************************)

Occurs(m, s) == \E i \in DOMAIN s : s[i] = m

LoggedOnce ==
  /\ \A i, j \in DOMAIN log : log[i] = log[j] => i = j
  /\ \A i \in DOMAIN log : sentTo[log[i]] # None

QueuesInOrder ==
  \A r \in Replica :
    /\ \A i \in DOMAIN queue[r] : Occurs(queue[r][i], log)
    /\ \A i, j \in DOMAIN queue[r] :
         i < j => Position(queue[r][i], log) < Position(queue[r][j], log)

FansInOrder ==
  \A r \in Replica :
    /\ fan[r] # NoFan =>
         /\ Occurs(fan[r].message, log)
         /\ \A i \in DOMAIN queue[r] : Position(fan[r].message, log) < Position(queue[r][i], log)
    /\ \A c \in fan[r].targets : conn[c].state # "new" /\ conn[c].replica = r

InboxesInOrder ==
  \A c \in Conn :
    /\ \A i \in DOMAIN inbox[c] : Occurs(inbox[c][i], log)
    /\ conn[c].state = "new" => DOMAIN inbox[c] = {}
    /\ \A r \in Replica : conn[c].replica = r =>
         \A i \in DOMAIN inbox[c] :
           /\ \A j \in DOMAIN queue[r] : Position(inbox[c][i], log) < Position(queue[r][j], log)
           /\ c \in fan[r].targets => Position(inbox[c][i], log) < Position(fan[r].message, log)

OrderInv == LoggedOnce /\ QueuesInOrder /\ FansInOrder /\ InboxesInOrder /\ OrderedOnce

LEMMA PlaceOfLogged ==
  ASSUME NEW m, Occurs(m, log)
  PROVE  Position(m, log) \in DOMAIN log /\ log[Position(m, log)] = m
  BY DEF Occurs, Position

LEMMA OrderInit == Init => OrderInv
  <1> SUFFICES ASSUME Init PROVE OrderInv
    OBVIOUS
  <1>1. /\ DOMAIN log = {}
        /\ \A r \in Replica : DOMAIN queue[r] = {} /\ fan[r] = NoFan
        /\ \A c \in Conn : DOMAIN inbox[c] = {}
    <2>1. DOMAIN <<>> = {}
      OBVIOUS
    <2> QED BY <2>1 DEF Init
  <1>2. \A r \in Replica : fan[r].targets = {}
    <2>1. NoFan.targets = {}
      BY DEF NoFan
    <2> QED BY <1>1, <2>1
  <1>3. LoggedOnce
    BY <1>1 DEF LoggedOnce
  <1>4. QueuesInOrder
    BY <1>1 DEF QueuesInOrder
  <1>5. FansInOrder
    BY <1>1, <1>2 DEF FansInOrder
  <1>6. InboxesInOrder
    BY <1>1 DEF InboxesInOrder
  <1>7. OrderedOnce
    BY <1>1 DEF OrderedOnce
  <1> QED BY <1>3, <1>4, <1>5, <1>6, <1>7 DEF OrderInv

\* A connection that is not new stays at its replica.
LEMMA OrderHubCall ==
  ASSUME HubTypeOK, BusTypeOK, HubInv, OrderInv, NEW c \in Conn,
         \/ \E r \in Replica, k \in Key : Connect(c, r, k)
         \/ \E room \in Room : Subscribe(c, room) \/ Unsubscribe(c, room)
         \/ Drop(c)
         \/ Disconnect(c)
  PROVE  OrderInv'
  <1>1. UNCHANGED busVars
    BY HubCall
  <1>2. \A e \in Conn : conn[e].state # "new" =>
          conn'[e].state # "new" /\ conn'[e].replica = conn[e].replica
    <2> USE DEF HubInv
    <2>1. ASSUME NEW r \in Replica, NEW k \in Key, Connect(c, r, k)
          PROVE  \A e \in Conn : conn[e].state # "new" =>
                   conn'[e].state # "new" /\ conn'[e].replica = conn[e].replica
      BY <2>1, ConnectStep
    <2>2. ASSUME NEW room \in Room, Subscribe(c, room) \/ Unsubscribe(c, room)
          PROVE  \A e \in Conn : conn[e].state # "new" =>
                   conn'[e].state # "new" /\ conn'[e].replica = conn[e].replica
      BY <2>2, SubscriptionStep
    <2>3. CASE Drop(c)
      BY <2>3, DropStep
    <2>4. CASE Disconnect(c)
      BY <2>4, DisconnectStep
    <2> QED BY <2>1, <2>2, <2>3, <2>4
  <1>3. LoggedOnce' /\ QueuesInOrder' /\ OrderedOnce'
    BY <1>1 DEF busVars, OrderInv, LoggedOnce, QueuesInOrder, OrderedOnce
  <1>4. FansInOrder'
    <2>1. \A r \in Replica : fan[r].targets \subseteq Conn
      BY DEF BusTypeOK
    <2> QED BY <1>1, <1>2, <2>1 DEF busVars, OrderInv, FansInOrder
  <1>5. InboxesInOrder'
    BY <1>1, <1>2 DEF busVars, OrderInv, InboxesInOrder
  <1> QED BY <1>3, <1>4, <1>5 DEF OrderInv

\* A message that is broadcast comes after all that have been.
LEMMA OrderBroadcast ==
  ASSUME BusTypeOK, OrderInv, NEW m \in Message, NEW room \in Room,
         NEW reached \in SUBSET Replica, Broadcast(m, room, reached)
  PROVE  OrderInv'
  <1>1. /\ UNCHANGED <<hubVars, fan, inbox>> /\ sentTo[m] = None
        /\ sentTo' = [sentTo EXCEPT ![m] = room]
        /\ log' = Append(log, m)
        /\ queue' = [r \in Replica |-> IF r \in reached THEN Append(queue[r], m) ELSE queue[r]]
    BY DEF Broadcast
  <1> DEFINE n == Len(log)
  <1>2. /\ n \in Nat /\ DOMAIN log = 1..n /\ DOMAIN log' = 1..(n + 1)
        /\ \A i \in 1..n : log'[i] = log[i] /\ log[i] \in Message
        /\ log'[n + 1] = m
    <2>1. log \in Seq(Message)
      BY DEF BusTypeOK
    <2>2. Append(log, m) \in Seq(Message) /\ Len(Append(log, m)) = n + 1
      BY <2>1, AppendProperties
    <2> QED BY <1>1, <2>1, <2>2, AppendProperties, LenProperties, ElementOfSeq
  <1> HIDE DEF n
  <1>3. \A i \in 1..n : log[i] # m
    BY <1>1, <1>2 DEF OrderInv, LoggedOnce
  <1>4. LoggedOnce'
    <2>1. \A i, j \in DOMAIN log' : log'[i] = log'[j] => i = j
      BY <1>2, <1>3 DEF OrderInv, LoggedOnce
    <2>2. room # None
      BY StreamHubAssumption
    <2>3. \A x \in Message : sentTo'[x] = IF x = m THEN room ELSE sentTo[x]
      BY <1>1 DEF BusTypeOK
    <2>4. \A i \in DOMAIN log' : sentTo'[log'[i]] # None
      BY <1>2, <1>3, <2>2, <2>3 DEF OrderInv, LoggedOnce
    <2> QED BY <2>1, <2>4 DEF LoggedOnce
  <1>5. ASSUME NEW i \in DOMAIN log' PROVE Position(log'[i], log') = i
    BY <1>4 DEF LoggedOnce, Position
  <1>6. ASSUME NEW x, Occurs(x, log)
        PROVE  Occurs(x, log') /\ Position(x, log') = Position(x, log) /\ Position(x, log) < n + 1
    <2>1. PICK i \in 1..n : log[i] = x
      BY <1>2, <1>6 DEF Occurs
    <2>2. Position(x, log) \in 1..n /\ log[Position(x, log)] = x
      BY <1>2, <1>6, PlaceOfLogged
    <2>3. log'[Position(x, log)] = x /\ Position(x, log) \in DOMAIN log'
      BY <1>2, <2>2
    <2>4. Position(x, log') = Position(x, log)
      BY <1>5, <2>3
    <2> QED BY <1>2, <2>2, <2>3, <2>4 DEF Occurs
  <1>7. Occurs(m, log') /\ Position(m, log') = n + 1
    <2>1. n + 1 \in DOMAIN log'
      BY <1>2
    <2> QED BY <1>2, <1>5, <2>1 DEF Occurs
  <1>8. ASSUME NEW r \in Replica
        PROVE  /\ \A i \in DOMAIN queue'[r] :
                    \/ i \in DOMAIN queue[r] /\ queue'[r][i] = queue[r][i]
                    \/ queue'[r][i] = m /\ \A j \in DOMAIN queue'[r] : j <= i
               /\ \A i \in DOMAIN queue'[r] : i \in Nat
    <2>1. queue[r] \in Seq(Message) /\ Len(queue[r]) \in Nat /\ DOMAIN queue[r] = 1..Len(queue[r])
      BY LenProperties DEF BusTypeOK
    <2>2. CASE r \in reached
      <3>1. queue'[r] = Append(queue[r], m)
        BY <1>1, <2>2
      <3>2. /\ Len(Append(queue[r], m)) = Len(queue[r]) + 1
            /\ DOMAIN Append(queue[r], m) = 1..(Len(queue[r]) + 1)
            /\ \A i \in 1..Len(queue[r]) : Append(queue[r], m)[i] = queue[r][i]
            /\ Append(queue[r], m)[Len(queue[r]) + 1] = m
        <4>1. Append(queue[r], m) \in Seq(Message) /\ Len(Append(queue[r], m)) = Len(queue[r]) + 1
          BY <2>1, AppendProperties
        <4> QED BY <2>1, <4>1, AppendProperties, LenProperties
      <3> QED BY <2>1, <3>1, <3>2
    <2>3. CASE r \notin reached
      BY <1>1, <2>1, <2>3
    <2> QED BY <2>2, <2>3
  <1>9. QueuesInOrder'
    <2>1. ASSUME NEW r \in Replica, NEW i \in DOMAIN queue'[r]
          PROVE  Occurs(queue'[r][i], log')
      BY <1>6, <1>7, <1>8 DEF OrderInv, QueuesInOrder
    <2>2. ASSUME NEW r \in Replica, NEW i \in DOMAIN queue'[r], NEW j \in DOMAIN queue'[r], i < j
          PROVE  Position(queue'[r][i], log') < Position(queue'[r][j], log')
      <3>1. i \in DOMAIN queue[r] /\ queue'[r][i] = queue[r][i]
        BY <1>8, <2>2
      <3>2. Occurs(queue[r][i], log) /\ Position(queue'[r][i], log') = Position(queue[r][i], log)
            /\ Position(queue[r][i], log) < n + 1
        BY <1>6, <3>1 DEF OrderInv, QueuesInOrder
      <3>3. CASE queue'[r][j] = m
        BY <1>7, <3>2, <3>3
      <3>4. CASE j \in DOMAIN queue[r] /\ queue'[r][j] = queue[r][j]
        <4>1. Occurs(queue[r][j], log) /\ Position(queue[r][i], log) < Position(queue[r][j], log)
          BY <2>2, <3>1, <3>4 DEF OrderInv, QueuesInOrder
        <4>2. Position(queue'[r][j], log') = Position(queue[r][j], log)
          BY <1>6, <3>4, <4>1
        <4> QED BY <3>2, <4>1, <4>2
      <3> QED BY <1>8, <3>3, <3>4
    <2> QED BY <2>1, <2>2 DEF QueuesInOrder
  <1>10. ASSUME NEW x, Occurs(x, log), NEW r \in Replica,
                \A i \in DOMAIN queue[r] : Position(x, log) < Position(queue[r][i], log)
         PROVE  \A i \in DOMAIN queue'[r] : Position(x, log') < Position(queue'[r][i], log')
    <2>1. \A i \in DOMAIN queue[r] : Position(queue[r][i], log') = Position(queue[r][i], log)
      BY <1>6 DEF OrderInv, QueuesInOrder
    <2>2. Position(x, log') = Position(x, log) /\ Position(x, log) < n + 1
      BY <1>6, <1>10
    <2>3. ASSUME NEW i \in DOMAIN queue'[r] PROVE Position(x, log') < Position(queue'[r][i], log')
      <3>1. CASE queue'[r][i] = m
        BY <1>7, <2>2, <3>1
      <3>2. CASE i \in DOMAIN queue[r] /\ queue'[r][i] = queue[r][i]
        BY <1>10, <2>1, <2>2, <3>2
      <3> QED BY <1>8, <3>1, <3>2
    <2> QED BY <2>3
  <1>11. FansInOrder'
    <2>1. ASSUME NEW r \in Replica, fan[r] # NoFan
          PROVE  /\ Occurs(fan[r].message, log')
                 /\ \A i \in DOMAIN queue'[r] :
                      Position(fan[r].message, log') < Position(queue'[r][i], log')
      <3>1. /\ Occurs(fan[r].message, log)
            /\ \A i \in DOMAIN queue[r] : Position(fan[r].message, log) < Position(queue[r][i], log)
        BY <2>1 DEF OrderInv, FansInOrder
      <3> QED BY <1>1, <1>6, <1>10, <3>1
    <2> QED BY <1>1, <2>1 DEF OrderInv, FansInOrder, hubVars
  <1>12. InboxesInOrder' /\ OrderedOnce'
    <2>1. ASSUME NEW c \in Conn, NEW i \in DOMAIN inbox[c]
          PROVE  /\ Occurs(inbox[c][i], log) /\ Occurs(inbox[c][i], log')
                 /\ Position(inbox[c][i], log') = Position(inbox[c][i], log)
      BY <1>1, <1>6 DEF OrderInv, InboxesInOrder
    <2>2. OrderedOnce'
      BY <1>1, <2>1 DEF OrderInv, OrderedOnce
    <2>3. ASSUME NEW c \in Conn, NEW r \in Replica, conn[c].replica = r, NEW i \in DOMAIN inbox[c]
          PROVE  /\ \A j \in DOMAIN queue'[r] :
                      Position(inbox[c][i], log') < Position(queue'[r][j], log')
                 /\ c \in fan[r].targets =>
                      Position(inbox[c][i], log') < Position(fan[r].message, log')
      <3>1. /\ \A j \in DOMAIN queue[r] : Position(inbox[c][i], log) < Position(queue[r][j], log)
            /\ c \in fan[r].targets => Position(inbox[c][i], log) < Position(fan[r].message, log)
        BY <2>3 DEF OrderInv, InboxesInOrder
      <3>2. \A j \in DOMAIN queue'[r] : Position(inbox[c][i], log') < Position(queue'[r][j], log')
        BY <1>1, <1>10, <2>1, <3>1
      <3>3. ASSUME c \in fan[r].targets
            PROVE  Position(fan[r].message, log') = Position(fan[r].message, log)
        <4>1. fan[r] # NoFan
          BY <3>3 DEF NoFan
        <4>2. Occurs(fan[r].message, log)
          BY <4>1 DEF OrderInv, FansInOrder
        <4> QED BY <1>1, <1>6, <4>2
      <3> QED BY <1>1, <2>1, <3>1, <3>2, <3>3
    <2>4. conn' = conn /\ inbox' = inbox /\ fan' = fan
      BY <1>1 DEF hubVars
    <2>5. \A c \in Conn : conn[c].state = "new" => DOMAIN inbox[c] = {}
      BY DEF OrderInv, InboxesInOrder
    <2>6. InboxesInOrder'
      BY <2>1, <2>3, <2>4, <2>5 DEF InboxesInOrder
    <2> QED BY <2>2, <2>6
  <1> QED BY <1>4, <1>9, <1>11, <1>12 DEF OrderInv

\* The pump takes the first of what it holds: it is after all that has been
\* written by it, and before what it still holds.
LEMMA OrderFanStart ==
  ASSUME BusTypeOK, HubTypeOK, QueuedIsSent, Placed, RoomsAgree, OrderInv,
         NEW r \in Replica, FanStart(r)
  PROVE  OrderInv'
  <1> DEFINE m == Head(queue[r])
  <1>1. /\ fan[r] = NoFan /\ queue[r] # <<>>
        /\ queue' = [queue EXCEPT ![r] = Tail(@)]
        /\ UNCHANGED <<hubVars, log, sentTo, inbox>>
    BY DEF FanStart
  <1>2. /\ fan'[r].targets = members[r][sentTo[m]] /\ fan'[r].message = m
        /\ sentTo[m] \in Room
        /\ \A s \in Replica \ {r} : fan'[s] = fan[s]
    <2>1. fan' = [fan EXCEPT ![r] = [message |-> m, targets |-> members[r][sentTo[m]]]]
      BY DEF FanStart
    <2>2. fan'[r].message = m
      BY <2>1 DEF BusTypeOK
    <2> QED BY <2>2, FanStartBus
  <1>3. /\ 1 \in DOMAIN queue[r] /\ m = queue[r][1]
        /\ \A i \in DOMAIN queue'[r] : /\ i \in Nat \ {0} /\ i + 1 \in DOMAIN queue[r]
                                       /\ queue'[r][i] = queue[r][i + 1]
    <2>1. queue[r] \in Seq(Message) /\ queue'[r] = Tail(queue[r])
      BY <1>1 DEF BusTypeOK
    <2>2. /\ m = queue[r][1] /\ Len(queue[r]) \in Nat \ {0}
          /\ Tail(queue[r]) \in Seq(Message)
          /\ Len(Tail(queue[r])) = Len(queue[r]) - 1
          /\ \A i \in 1..Len(Tail(queue[r])) : Tail(queue[r])[i] = queue[r][i + 1]
      BY <1>1, <2>1, HeadTailProperties
    <2>3. DOMAIN queue[r] = 1..Len(queue[r]) /\ DOMAIN queue'[r] = 1..(Len(queue[r]) - 1)
      BY <2>1, <2>2, LenProperties
    <2> QED BY <2>1, <2>2, <2>3
  <1>4. \A s \in Replica \ {r} : queue'[s] = queue[s]
    BY <1>1 DEF BusTypeOK
  <1> HIDE DEF m
  <1>5. \A i, j \in DOMAIN queue[r] : i < j =>
          Position(queue[r][i], log) < Position(queue[r][j], log)
    BY DEF OrderInv, QueuesInOrder
  <1>6. ASSUME NEW s \in Replica, NEW i \in DOMAIN queue'[s]
        PROVE  \E k \in DOMAIN queue[s] : queue'[s][i] = queue[s][k]
    BY <1>3, <1>4
  <1>7. LoggedOnce' /\ OrderedOnce'
    BY <1>1 DEF OrderInv, LoggedOnce, OrderedOnce
  <1>8. QueuesInOrder'
    <2>1. ASSUME NEW s \in Replica, NEW i \in DOMAIN queue'[s]
          PROVE  Occurs(queue'[s][i], log')
      BY <1>1, <1>6 DEF OrderInv, QueuesInOrder
    <2>2. ASSUME NEW s \in Replica, NEW i \in DOMAIN queue'[s], NEW j \in DOMAIN queue'[s], i < j
          PROVE  Position(queue'[s][i], log') < Position(queue'[s][j], log')
      <3>1. CASE s = r
        <4>1. i \in Nat /\ j \in Nat /\ i + 1 < j + 1
          BY <1>3, <2>2, <3>1
        <4> QED BY <1>1, <1>3, <1>5, <3>1, <4>1
      <3>2. CASE s # r
        BY <1>1, <1>4, <2>2, <3>2 DEF OrderInv, QueuesInOrder
      <3> QED BY <3>1, <3>2
    <2> QED BY <2>1, <2>2 DEF QueuesInOrder
  <1>9. FansInOrder'
    <2>1. ASSUME NEW s \in Replica, fan'[s] # NoFan
          PROVE  /\ Occurs(fan'[s].message, log')
                 /\ \A i \in DOMAIN queue'[s] :
                      Position(fan'[s].message, log') < Position(queue'[s][i], log')
      <3>1. CASE s = r
        <4>1. Occurs(m, log)
          BY <1>3 DEF OrderInv, QueuesInOrder
        <4>2. \A i \in DOMAIN queue'[r] : Position(m, log) < Position(queue'[r][i], log)
          BY <1>3, <1>5
        <4> QED BY <1>1, <1>2, <3>1, <4>1, <4>2
      <3>2. CASE s # r
        BY <1>1, <1>2, <1>4, <2>1, <3>2 DEF OrderInv, FansInOrder
      <3> QED BY <3>1, <3>2
    <2>2. ASSUME NEW s \in Replica, NEW c \in fan'[s].targets
          PROVE  conn'[c].state # "new" /\ conn'[c].replica = s
      <3>1. CASE s = r
        <4>1. Live(c) /\ conn[c].replica = r
          BY <1>2, <2>2, <3>1 DEF RoomsAgree
        <4> QED BY <1>1, <3>1, <4>1 DEF Live, hubVars
      <3>2. CASE s # r
        BY <1>1, <1>2, <2>2, <3>2 DEF OrderInv, FansInOrder, hubVars
      <3> QED BY <3>1, <3>2
    <2> QED BY <2>1, <2>2 DEF FansInOrder
  <1>10. InboxesInOrder'
    <2>1. ASSUME NEW c \in Conn, NEW s \in Replica, conn[c].replica = s, NEW i \in DOMAIN inbox[c]
          PROVE  /\ \A j \in DOMAIN queue'[s] :
                      Position(inbox[c][i], log) < Position(queue'[s][j], log)
                 /\ c \in fan'[s].targets =>
                      Position(inbox[c][i], log) < Position(fan'[s].message, log)
      <3>1. /\ \A j \in DOMAIN queue[s] : Position(inbox[c][i], log) < Position(queue[s][j], log)
            /\ c \in fan[s].targets => Position(inbox[c][i], log) < Position(fan[s].message, log)
        BY <2>1 DEF OrderInv, InboxesInOrder
      <3>2. \A j \in DOMAIN queue'[s] : Position(inbox[c][i], log) < Position(queue'[s][j], log)
        BY <1>6, <3>1
      <3>3. CASE s = r
        BY <1>2, <1>3, <3>1, <3>2, <3>3
      <3>4. CASE s # r
        BY <1>2, <3>1, <3>2, <3>4
      <3> QED BY <3>3, <3>4
    <2> QED BY <1>1, <2>1 DEF OrderInv, InboxesInOrder, hubVars
  <1> QED BY <1>7, <1>8, <1>9, <1>10 DEF OrderInv

LEMMA OrderFanDone ==
  ASSUME BusTypeOK, OrderInv, NEW r \in Replica, FanDone(r)
  PROVE  OrderInv'
  <1>1. fan' = [fan EXCEPT ![r] = NoFan] /\ UNCHANGED <<hubVars, log, sentTo, queue, inbox>>
    BY DEF FanDone
  <1>2. \A s \in Replica : fan'[s] = fan[s] \/ (fan'[s] = NoFan /\ fan'[s].targets = {})
    BY <1>1 DEF BusTypeOK, NoFan
  <1>3. LoggedOnce' /\ QueuesInOrder' /\ OrderedOnce'
    BY <1>1 DEF OrderInv, LoggedOnce, QueuesInOrder, OrderedOnce
  <1>4. FansInOrder'
    BY <1>1, <1>2 DEF OrderInv, FansInOrder, hubVars
  <1>5. InboxesInOrder'
    BY <1>1, <1>2 DEF OrderInv, InboxesInOrder, hubVars
  <1> QED BY <1>3, <1>4, <1>5 DEF OrderInv

\* A write: the message comes after everything the connection has been sent.
LEMMA OrderFanDeliver ==
  ASSUME BusTypeOK, OrderInv, NEW r \in Replica, NEW c \in Conn, FanDeliver(r, c)
  PROVE  OrderInv'
  <1> DEFINE m == fan[r].message
  <1>1. /\ c \in fan[r].targets
        /\ inbox' = IF conn[c].state = "open" THEN [inbox EXCEPT ![c] = Append(@, m)] ELSE inbox
        /\ fan' = [fan EXCEPT ![r].targets = @ \ {c}]
        /\ UNCHANGED <<hubVars, log, sentTo, queue>>
    BY DEF FanDeliver
  <1>2. /\ \A s \in Replica : /\ fan'[s].message = fan[s].message
                              /\ fan'[s].targets \subseteq fan[s].targets
                              /\ s # r => fan'[s] = fan[s]
        /\ fan'[r].targets = fan[r].targets \ {c}
    <2>1. fan \in [Replica -> [message : Message \cup {None}, targets : SUBSET Conn]]
      BY DEF BusTypeOK
    <2> QED BY <1>1, <2>1
  <1>3. /\ conn[c].state # "new" /\ conn[c].replica = r
        /\ fan[r] # NoFan /\ Occurs(m, log)
        /\ \A i \in DOMAIN queue[r] : Position(m, log) < Position(queue[r][i], log)
    <2>1. fan[r] # NoFan
      BY <1>1 DEF NoFan
    <2> QED BY <1>1, <2>1 DEF OrderInv, FansInOrder
  <1>4. \A i \in DOMAIN inbox[c] : /\ Occurs(inbox[c][i], log)
                                   /\ Position(inbox[c][i], log) < Position(m, log)
    BY <1>1, <1>3 DEF OrderInv, InboxesInOrder
  <1>5. m \in Message
    <2>1. PICK i \in DOMAIN log : log[i] = m
      BY <1>3 DEF Occurs
    <2> QED BY <2>1, LenProperties, ElementOfSeq DEF BusTypeOK
  <1> HIDE DEF m
  <1>6. /\ \A e \in Conn \ {c} : inbox'[e] = inbox[e]
        /\ \A i \in DOMAIN inbox'[c] :
             \/ i \in DOMAIN inbox[c] /\ inbox'[c][i] = inbox[c][i]
             \/ inbox'[c][i] = m /\ \A j \in DOMAIN inbox'[c] : j <= i
        /\ \A i \in DOMAIN inbox'[c] : i \in Nat
    <2>1. inbox[c] \in Seq(Message) /\ Len(inbox[c]) \in Nat /\ DOMAIN inbox[c] = 1..Len(inbox[c])
      BY LenProperties DEF BusTypeOK
    <2>2. CASE conn[c].state = "open"
      <3>1. inbox'[c] = Append(inbox[c], m) /\ \A e \in Conn \ {c} : inbox'[e] = inbox[e]
        BY <1>1, <2>2 DEF BusTypeOK
      <3>2. Append(inbox[c], m) \in Seq(Message) /\ Len(Append(inbox[c], m)) = Len(inbox[c]) + 1
        BY <1>5, <2>1, AppendProperties
      <3>3. /\ DOMAIN Append(inbox[c], m) = 1..(Len(inbox[c]) + 1)
            /\ \A i \in 1..Len(inbox[c]) : Append(inbox[c], m)[i] = inbox[c][i]
            /\ Append(inbox[c], m)[Len(inbox[c]) + 1] = m
        BY <1>5, <2>1, <3>2, AppendProperties, LenProperties
      <3> QED BY <2>1, <3>1, <3>3
    <2>3. CASE conn[c].state # "open"
      BY <1>1, <2>1, <2>3
    <2> QED BY <2>2, <2>3
  <1>7. LoggedOnce' /\ QueuesInOrder'
    BY <1>1 DEF OrderInv, LoggedOnce, QueuesInOrder
  <1>8. FansInOrder'
    <2>1. ASSUME NEW s \in Replica, fan'[s] # NoFan PROVE fan[s] # NoFan
      BY <1>2, <1>3, <2>1
    <2> QED BY <1>1, <1>2, <2>1 DEF OrderInv, FansInOrder, hubVars
  <1>9. InboxesInOrder'
    <2>1. ASSUME NEW e \in Conn, NEW i \in DOMAIN inbox'[e]
          PROVE  /\ Occurs(inbox'[e][i], log)
                 /\ conn[e].state # "new"
                 /\ \A s \in Replica : conn[e].replica = s =>
                      /\ \A j \in DOMAIN queue[s] :
                           Position(inbox'[e][i], log) < Position(queue[s][j], log)
                      /\ e \in fan'[s].targets =>
                           Position(inbox'[e][i], log) < Position(fan[s].message, log)
      <3>1. CASE i \in DOMAIN inbox[e] /\ inbox'[e][i] = inbox[e][i]
        BY <1>2, <3>1 DEF OrderInv, InboxesInOrder
      <3>2. CASE e = c /\ inbox'[e][i] = m
        BY <1>2, <1>3, <3>2
      <3> QED BY <1>6, <3>1, <3>2
    <2>2. /\ conn' = conn /\ queue' = queue /\ log' = log
          /\ \A s \in Replica : fan'[s].message = fan[s].message
      BY <1>1, <1>2 DEF hubVars
    <2> QED BY <2>1, <2>2 DEF InboxesInOrder
  <1>10. OrderedOnce'
    <2>1. ASSUME NEW e \in Conn, NEW i \in DOMAIN inbox'[e], NEW j \in DOMAIN inbox'[e], i < j
          PROVE  Position(inbox'[e][i], log) < Position(inbox'[e][j], log)
      <3>1. CASE e # c
        BY <1>6, <2>1, <3>1 DEF OrderInv, OrderedOnce
      <3>2. CASE e = c
        <4>1. i \in DOMAIN inbox[c] /\ inbox'[c][i] = inbox[c][i]
          BY <1>6, <2>1, <3>2
        <4>2. CASE j \in DOMAIN inbox[c] /\ inbox'[c][j] = inbox[c][j]
          BY <2>1, <3>2, <4>1, <4>2 DEF OrderInv, OrderedOnce
        <4>3. CASE inbox'[c][j] = m
          BY <1>4, <3>2, <4>1, <4>3
        <4> QED BY <1>6, <3>2, <4>2, <4>3
      <3> QED BY <3>1, <3>2
    <2> QED BY <1>1, <2>1 DEF OrderedOnce
  <1> QED BY <1>7, <1>8, <1>9, <1>10 DEF OrderInv

LEMMA OrderNext == Inv /\ OrderInv /\ [Next]_vars => OrderInv'
  <1> SUFFICES ASSUME Inv, OrderInv, [Next]_vars PROVE OrderInv'
    OBVIOUS
  <1>0. HubTypeOK /\ BusTypeOK /\ QueuedIsSent /\ HubInv /\ Placed /\ RoomsAgree
    BY TypeParts DEF Inv, HubInv
  <1>1. ASSUME NEW c \in Conn,
               \/ \E r \in Replica, k \in Key : Connect(c, r, k)
               \/ \E room \in Room : Subscribe(c, room) \/ Unsubscribe(c, room)
               \/ Drop(c)
               \/ Disconnect(c)
        PROVE  OrderInv'
    BY <1>0, <1>1, OrderHubCall
  <1>2. ASSUME NEW m \in Message, NEW room \in Room, NEW reached \in SUBSET Replica,
               Broadcast(m, room, reached)
        PROVE  OrderInv'
    BY <1>0, <1>2, OrderBroadcast
  <1>3. ASSUME NEW r \in Replica, Pump(r) PROVE OrderInv'
    BY <1>0, <1>3, OrderFanStart, OrderFanDone, OrderFanDeliver DEF Pump
  <1>4. CASE UNCHANGED vars
    BY <1>4 DEF vars, OrderInv, LoggedOnce, QueuesInOrder, FansInOrder, InboxesInOrder, OrderedOnce
  <1> QED BY <1>1, <1>2, <1>3, <1>4 DEF Next

\* No client sees a message twice or two of them out of the order of the
\* broadcasts, whatever connects, drops and pumps meanwhile, for any number of
\* replicas, connections and messages.
THEOREM OrderedOnceCorrect == Spec => []OrderedOnce
  <1>1. OrderInv => OrderedOnce
    BY DEF OrderInv
  <1> QED BY <1>1, OrderInit, OrderNext, InitInv, NextInv, PTL DEF Spec

-----------------------------------------------------------------------------
\* Rooms, sessions, statuses and connections agree in every state.
THEOREM SessionsAgreeCorrect == Spec => []SessionsAgree
  BY TypeCorrect, RoomsAgreeCorrect, ConnectedHasConnectionCorrect,
     SessionMirrorsRoomsCorrect, PTL DEF SessionsAgree

\* Writes begin only for members, and sessions resume in their rooms.
THEOREM StepsAreRelevantCorrect == Spec => StepsAreRelevant
  BY TargetsAreMembersCorrect, ResumesAtReplicaCorrect, PTL DEF StepsAreRelevant

-----------------------------------------------------------------------------
(***************************************************************************)
(* Proofs about ZoneEventDelivery for any events, retriers and budget: an  *)
(* event is retained once or not at all, and its attempts are those of     *)
(* ZoneEventPromise.  Both follow from one invariant: the slices hold      *)
(* different events, and the count in an entry is the number of attempts   *)
(* made of its event, less the first.                                      *)
(***************************************************************************)

\* The events of a slice, and that it has no event twice.
Held(s)     == {s[i].event : i \in DOMAIN s}
Distinct(s) == \A i, j \in DOMAIN s : s[i].event = s[j].event => i = j

\* Every entry of a slice is of an event whose delivery has returned, failed at
\* all its attempts, and has been tried once more than it was retried.
Counted(s, where, sends, successes) ==
  \A i \in DOMAIN s :
    /\ where[s[i].event] = "returned" /\ successes[s[i].event] = 0
    /\ sends[s[i].event] = s[i].retries + 1
    /\ s[i].retries < MaxZoneEventRetries

\* No slice has an event twice.
NoneTwice ==
  /\ Distinct(pending)
  /\ \A p \in Retrier : Distinct(batch[p]) /\ Distinct(keep[p])

\* No two slices have an event in common.
Apart ==
  /\ \A p \in Retrier : Held(pending) \cap (Held(batch[p]) \cup Held(keep[p])) = {}
  /\ \A p, q \in Retrier : Held(batch[p]) \cap Held(keep[q]) = {}
  /\ \A p, q \in Retrier : p # q => /\ Held(batch[p]) \cap Held(batch[q]) = {}
                                    /\ Held(keep[p]) \cap Held(keep[q]) = {}

\* The entries of all slices tell the truth.
AllCounted ==
  /\ Counted(pending, at, tries, sent)
  /\ \A p \in Retrier : Counted(batch[p], at, tries, sent) /\ Counted(keep[p], at, tries, sent)

\* Some slice has the event.
IsHeld(e) == e \in Held(pending) \/ \E p \in Retrier : e \in Held(batch[p]) \cup Held(keep[p])

\* Where a delivery stands says what has been attempted; one that has returned
\* and is neither delivered nor given up is retained.
Attempted(e) ==
  /\ at[e] = "new"      => tries[e] = 0 /\ sent[e] = 0
  /\ at[e] = "failed"   => tries[e] = 1 /\ sent[e] = 0
  /\ at[e] = "retrying" => tries[e] \in 1..MaxZoneEventRetries /\ sent[e] = 0
  /\ at[e] = "returned" => (Open(e) => IsHeld(e))

\* A Retry that is not in progress holds nothing.
IdleIsEmpty == \A p \in Retrier : ~busy[p] => batch[p] = <<>> /\ keep[p] = <<>>

DeliveryInv ==
  /\ DeliveryTypeOK /\ NoneTwice /\ Apart /\ AllCounted
  /\ \A e \in Event : Attempted(e)
  /\ IdleIsEmpty

-----------------------------------------------------------------------------
(***************************************************************************)
(* Slices.                                                                 *)
(***************************************************************************)

LEMMA EmptySlice == Held(<<>>) = {} /\ Distinct(<<>>) /\
                    \A w, k, n : Counted(<<>>, w, k, n)
  BY DEF Held, Distinct, Counted

LEMMA EventsOfSlice ==
  ASSUME NEW s \in Seq(Retained)
  PROVE  /\ Held(s) \subseteq Event
         /\ \A i \in DOMAIN s : s[i] \in Retained /\ s[i].event \in Held(s)
         /\ DOMAIN s = 1..Len(s)
<1>1. DOMAIN s = 1..Len(s) /\ \A i \in DOMAIN s : s[i] \in Retained
  BY LenProperties, ElementOfSeq
<1>2. \A i \in DOMAIN s : s[i].event \in Event
  BY <1>1 DEF Retained
<1> QED BY <1>1, <1>2 DEF Held

LEMMA AppendSlice ==
  ASSUME NEW s \in Seq(Retained), NEW x \in Retained
  PROVE  /\ Append(s, x) \in Seq(Retained)
         /\ Held(Append(s, x)) = Held(s) \cup {x.event}
         /\ Distinct(s) /\ x.event \notin Held(s) => Distinct(Append(s, x))
         /\ \A w, k, n : Counted(Append(s, x), w, k, n) <=>
              Counted(s, w, k, n) /\ Counted(<<x>>, w, k, n)
<1> DEFINE t == Append(s, x)
<1>1. /\ t \in Seq(Retained) /\ Len(t) = Len(s) + 1
      /\ \A i \in 1..Len(s) : t[i] = s[i]
      /\ t[Len(s) + 1] = x
  BY AppendProperties
<1>2. /\ DOMAIN s = 1..Len(s) /\ DOMAIN t = 1..Len(s) + 1 /\ Len(s) \in Nat
  BY <1>1, LenProperties
<1>3. DOMAIN <<x>> = {1} /\ <<x>>[1] = x
  OBVIOUS
<1> HIDE DEF t
<1>4. Held(t) = Held(s) \cup {x.event}
  <2>1. \A i \in DOMAIN t : t[i].event \in Held(s) \cup {x.event}
    BY <1>1, <1>2 DEF Held
  <2>2. \A i \in DOMAIN s : i \in DOMAIN t /\ t[i] = s[i]
    BY <1>1, <1>2
  <2>3. Len(s) + 1 \in DOMAIN t
    BY <1>2
  <2> QED BY <2>1, <2>2, <2>3, <1>1 DEF Held
<1>5. Distinct(s) /\ x.event \notin Held(s) => Distinct(t)
  BY <1>1, <1>2 DEF Distinct, Held
<1>6. \A w, k, n : Counted(t, w, k, n) <=> Counted(s, w, k, n) /\ Counted(<<x>>, w, k, n)
  <2> TAKE w, k, n
  <2> DEFINE C(y) == /\ w[y.event] = "returned" /\ n[y.event] = 0
                     /\ k[y.event] = y.retries + 1 /\ y.retries < MaxZoneEventRetries
  <2>1. Counted(t, w, k, n) <=> \A i \in DOMAIN t : C(t[i])
    BY DEF Counted
  <2>2. Counted(s, w, k, n) <=> \A i \in DOMAIN s : C(s[i])
    BY DEF Counted
  <2>3. Counted(<<x>>, w, k, n) <=> C(x)
    BY <1>3 DEF Counted
  <2> HIDE DEF C
  <2> QED BY <2>1, <2>2, <2>3, <1>1, <1>2
<1> QED BY <1>1, <1>4, <1>5, <1>6 DEF t

LEMMA TailSlice ==
  ASSUME NEW s \in Seq(Retained), s # <<>>
  PROVE  /\ Head(s) \in Retained /\ Tail(s) \in Seq(Retained)
         /\ Held(s) = Held(Tail(s)) \cup {Head(s).event}
         /\ Distinct(s) => Distinct(Tail(s)) /\ Head(s).event \notin Held(Tail(s))
         /\ \A w, k, n : Counted(s, w, k, n) <=>
              Counted(Tail(s), w, k, n) /\ Counted(<<Head(s)>>, w, k, n)
<1> DEFINE t == Tail(s)
           x == Head(s)
<1>1. /\ x \in Retained /\ t \in Seq(Retained) /\ Len(t) = Len(s) - 1
      /\ \A i \in 1..Len(t) : t[i] = s[i + 1]
  BY HeadTailProperties
<1>2. x = s[1]
  OBVIOUS
<1>3. DOMAIN s = 1..Len(s) /\ DOMAIN t = 1..Len(t) /\ Len(s) \in Nat \ {0} /\ Len(t) \in Nat
  BY <1>1, LenProperties, EmptySeq
<1>4. DOMAIN <<x>> = {1} /\ <<x>>[1] = x
  OBVIOUS
<1> HIDE DEF t, x
<1>5. /\ \A i \in DOMAIN t : i + 1 \in DOMAIN s /\ t[i] = s[i + 1]
      /\ \A i \in DOMAIN s : i = 1 \/ (i - 1 \in DOMAIN t /\ t[i - 1] = s[i])
      /\ 1 \in DOMAIN s
  BY <1>1, <1>3
<1>6. Held(s) = Held(t) \cup {x.event}
  BY <1>2, <1>5 DEF Held
<1>7. Distinct(s) => Distinct(t) /\ x.event \notin Held(t)
  <2> SUFFICES ASSUME Distinct(s) PROVE Distinct(t) /\ x.event \notin Held(t)
    OBVIOUS
  <2>1. ASSUME NEW i \in DOMAIN t, NEW j \in DOMAIN t, t[i].event = t[j].event PROVE i = j
    BY <2>1, <1>3, <1>5 DEF Distinct
  <2>2. ASSUME NEW i \in DOMAIN t, t[i].event = x.event PROVE FALSE
    BY <2>2, <1>2, <1>3, <1>5 DEF Distinct
  <2> QED BY <2>1, <2>2 DEF Distinct, Held
<1>8. \A w, k, n : Counted(s, w, k, n) <=> Counted(t, w, k, n) /\ Counted(<<x>>, w, k, n)
  <2> TAKE w, k, n
  <2> DEFINE C(y) == /\ w[y.event] = "returned" /\ n[y.event] = 0
                     /\ k[y.event] = y.retries + 1 /\ y.retries < MaxZoneEventRetries
  <2>1. Counted(t, w, k, n) <=> \A i \in DOMAIN t : C(t[i])
    BY DEF Counted
  <2>2. Counted(s, w, k, n) <=> \A i \in DOMAIN s : C(s[i])
    BY DEF Counted
  <2>3. Counted(<<x>>, w, k, n) <=> C(x)
    BY <1>4 DEF Counted
  <2> HIDE DEF C
  <2> QED BY <2>1, <2>2, <2>3, <1>2, <1>5
<1> QED BY <1>1, <1>6, <1>7, <1>8 DEF t, x

LEMMA JoinSlices ==
  ASSUME NEW s \in Seq(Retained), NEW t \in Seq(Retained)
  PROVE  /\ s \o t \in Seq(Retained)
         /\ Held(s \o t) = Held(s) \cup Held(t)
         /\ Distinct(s) /\ Distinct(t) /\ Held(s) \cap Held(t) = {} => Distinct(s \o t)
         /\ \A w, k, n : Counted(s, w, k, n) /\ Counted(t, w, k, n) => Counted(s \o t, w, k, n)
<1> DEFINE u == s \o t
<1>1. /\ u \in Seq(Retained) /\ Len(u) = Len(s) + Len(t)
      /\ \A i \in 1..Len(s) + Len(t) : u[i] = IF i <= Len(s) THEN s[i] ELSE t[i - Len(s)]
  BY ConcatProperties
<1>2. /\ DOMAIN s = 1..Len(s) /\ DOMAIN t = 1..Len(t) /\ DOMAIN u = 1..Len(s) + Len(t)
      /\ Len(s) \in Nat /\ Len(t) \in Nat
  BY <1>1, LenProperties
<1> HIDE DEF u
<1>3. /\ \A i \in DOMAIN s : i \in DOMAIN u /\ u[i] = s[i]
      /\ \A i \in DOMAIN t : i + Len(s) \in DOMAIN u /\ u[i + Len(s)] = t[i]
      /\ \A i \in DOMAIN u : \/ i \in DOMAIN s /\ u[i] = s[i]
                             \/ i - Len(s) \in DOMAIN t /\ u[i] = t[i - Len(s)]
  BY <1>1, <1>2
<1>4. Held(u) = Held(s) \cup Held(t)
  BY <1>3 DEF Held
<1>5. ASSUME Distinct(s), Distinct(t), Held(s) \cap Held(t) = {},
             NEW i \in DOMAIN u, NEW j \in DOMAIN u, u[i].event = u[j].event
      PROVE  i = j
  <2>1. CASE i \in DOMAIN s /\ u[i] = s[i] /\ j \in DOMAIN s /\ u[j] = s[j]
    BY <2>1, <1>5 DEF Distinct
  <2>2. CASE /\ i - Len(s) \in DOMAIN t /\ u[i] = t[i - Len(s)]
             /\ j - Len(s) \in DOMAIN t /\ u[j] = t[j - Len(s)]
    BY <2>2, <1>2, <1>5 DEF Distinct
  <2>3. CASE i \in DOMAIN s /\ u[i] = s[i] /\ j - Len(s) \in DOMAIN t /\ u[j] = t[j - Len(s)]
    BY <2>3, <1>5 DEF Held
  <2>4. CASE j \in DOMAIN s /\ u[j] = s[j] /\ i - Len(s) \in DOMAIN t /\ u[i] = t[i - Len(s)]
    BY <2>4, <1>5 DEF Held
  <2> QED BY <1>3, <2>1, <2>2, <2>3, <2>4
<1>6. \A w, k, n : Counted(s, w, k, n) /\ Counted(t, w, k, n) => Counted(u, w, k, n)
  <2> TAKE w, k, n
  <2> DEFINE C(y) == /\ w[y.event] = "returned" /\ n[y.event] = 0
                     /\ k[y.event] = y.retries + 1 /\ y.retries < MaxZoneEventRetries
  <2>1. /\ Counted(t, w, k, n) <=> \A i \in DOMAIN t : C(t[i])
        /\ Counted(s, w, k, n) <=> \A i \in DOMAIN s : C(s[i])
        /\ Counted(u, w, k, n) <=> \A i \in DOMAIN u : C(u[i])
    BY DEF Counted
  <2> HIDE DEF C
  <2> QED BY <2>1, <1>3
<1>7. Distinct(s) /\ Distinct(t) /\ Held(s) \cap Held(t) = {} => Distinct(u)
  BY <1>5 DEF Distinct
<1> QED BY <1>1, <1>4, <1>6, <1>7 DEF u

\* Counting goes on for the events that nothing happens to.
LEMMA CountedElsewhere ==
  ASSUME NEW s \in Seq(Retained), NEW e,
         NEW w, NEW k, NEW n, NEW w2, NEW k2, NEW n2,
         Counted(s, w, k, n), e \notin Held(s),
         \A f \in Event : f # e => w2[f] = w[f] /\ k2[f] = k[f] /\ n2[f] = n[f]
  PROVE  Counted(s, w2, k2, n2)
<1>1. \A i \in DOMAIN s : s[i].event \in Event /\ s[i].event # e
  BY EventsOfSlice
<1> QED BY <1>1 DEF Counted

-----------------------------------------------------------------------------
(***************************************************************************)
(* Each step preserves the invariant.                                      *)
(***************************************************************************)

\* The types of the slices, for the lemmas above.
LEMMA SliceTypes ==
  ASSUME DeliveryTypeOK
  PROVE  pending \in Seq(Retained) /\ \A p \in Retrier : batch[p] \in Seq(Retained)
                                                      /\ keep[p] \in Seq(Retained)
  BY DEF DeliveryTypeOK

LEMMA HeldHasReturned ==
  ASSUME DeliveryInv, NEW e \in Event, IsHeld(e)
  PROVE  at[e] = "returned" /\ sent[e] = 0 /\ tries[e] \in 1..MaxZoneEventRetries
<1>1. ASSUME NEW s \in Seq(Retained), Counted(s, at, tries, sent), e \in Held(s)
      PROVE  at[e] = "returned" /\ sent[e] = 0 /\ tries[e] \in 1..MaxZoneEventRetries
  <2>1. PICK i \in DOMAIN s : s[i].event = e
    BY <1>1 DEF Held
  <2>2. s[i].retries \in 0..MaxZoneEventRetries
    BY <2>1, <1>1, EventsOfSlice DEF Retained
  <2> QED BY <2>1, <2>2, <1>1, ZoneEventAssumption DEF Counted
<1> QED BY <1>1, SliceTypes DEF DeliveryInv, AllCounted, IsHeld

\* A send outside of Retry, or a change of at, for an event that is in no slice.
LEMMA OthersKeep ==
  ASSUME DeliveryInv, NEW e \in Event, at[e] # "returned",
         UNCHANGED <<pending, batch, keep, busy>>,
         \A f \in Event : f # e => at'[f] = at[f] /\ tries'[f] = tries[f] /\ sent'[f] = sent[f]
  PROVE  /\ NoneTwice' /\ Apart' /\ AllCounted' /\ IdleIsEmpty'
         /\ \A f \in Event : f # e => Attempted(f)'
<1>1. ~IsHeld(e)
  BY HeldHasReturned
<1>2. ASSUME NEW s \in Seq(Retained), Counted(s, at, tries, sent), e \notin Held(s)
      PROVE  Counted(s, at', tries', sent')
  BY <1>2, CountedElsewhere
<1>3. AllCounted'
  BY <1>1, <1>2, SliceTypes DEF DeliveryInv, AllCounted, IsHeld
<1>4. \A f \in Event : f # e => Attempted(f)'
  BY DEF DeliveryInv, Attempted, Open, IsHeld
<1> QED BY <1>3, <1>4 DEF DeliveryInv, NoneTwice, Apart, IdleIsEmpty

LEMMA SendType ==
  ASSUME DeliveryTypeOK, NEW e \in Event, NEW ok \in BOOLEAN, Send(e, ok)
  PROVE  /\ tries' \in [Event -> Nat] /\ sent' \in [Event -> Nat]
         /\ tries'[e] = tries[e] + 1
         /\ sent'[e] = IF ok THEN sent[e] + 1 ELSE sent[e]
         /\ \A f \in Event : f # e => tries'[f] = tries[f] /\ sent'[f] = sent[f]
  BY DEF DeliveryTypeOK, Send

LEMMA DeliverStep ==
  ASSUME DeliveryInv, NEW e \in Event, NEW ok \in BOOLEAN, Deliver(e, ok)
  PROVE  DeliveryInv'
<1>1. Send(e, ok) /\ DeliveryTypeOK /\ at[e] = "new" /\ tries[e] = 0 /\ sent[e] = 0
  BY DEF Deliver, DeliveryInv, Attempted
<1>2. /\ at' \in [Event -> {"new", "failed", "retrying", "returned"}]
      /\ at'[e] = IF ok THEN "returned" ELSE "failed"
      /\ \A f \in Event : f # e => at'[f] = at[f]
      /\ UNCHANGED <<pending, batch, keep, busy>>
  BY <1>1 DEF Deliver, DeliveryTypeOK
<1>3. DeliveryTypeOK'
  BY <1>1, <1>2, SendType DEF DeliveryTypeOK
<1>4. Attempted(e)'
  BY <1>1, <1>2, SendType DEF Attempted, Open
<1> QED BY <1>1, <1>2, <1>3, <1>4, SendType, OthersKeep DEF DeliveryInv

LEMMA DeliverWithRetriesStep ==
  ASSUME DeliveryInv, NEW e \in Event, NEW ok \in BOOLEAN, DeliverWithRetries(e, ok)
  PROVE  DeliveryInv'
<1>1. /\ Send(e, ok) /\ DeliveryTypeOK /\ at[e] \in {"new", "retrying"}
      /\ tries[e] \in 0..MaxZoneEventRetries /\ sent[e] = 0
  BY ZoneEventAssumption DEF DeliverWithRetries, DeliveryInv, Attempted
<1>2. /\ at' \in [Event -> {"new", "failed", "retrying", "returned"}]
      /\ at'[e] = IF ok \/ tries[e] = MaxZoneEventRetries THEN "returned" ELSE "retrying"
      /\ \A f \in Event : f # e => at'[f] = at[f]
      /\ UNCHANGED <<pending, batch, keep, busy>>
  BY <1>1 DEF DeliverWithRetries, DeliveryTypeOK
<1>3. DeliveryTypeOK'
  BY <1>1, <1>2, SendType DEF DeliveryTypeOK
<1>4. Attempted(e)'
  BY <1>1, <1>2, SendType, ZoneEventAssumption DEF Attempted, Open
<1> QED BY <1>1, <1>2, <1>3, <1>4, SendType, OthersKeep DEF DeliveryInv

LEMMA RetainStep ==
  ASSUME DeliveryInv, NEW e \in Event, Retain(e)
  PROVE  DeliveryInv'
<1> DEFINE x == [event |-> e, retries |-> 0]
<1>1. /\ DeliveryTypeOK /\ at[e] = "failed" /\ tries[e] = 1 /\ sent[e] = 0
      /\ pending' = Append(pending, x) /\ at'[e] = "returned"
      /\ UNCHANGED <<tries, sent, batch, keep, busy>>
      /\ at' \in [Event -> {"new", "failed", "retrying", "returned"}]
      /\ \A f \in Event : f # e => at'[f] = at[f]
  BY DEF Retain, DeliveryInv, Attempted, DeliveryTypeOK
<1>2. x \in Retained /\ x.event = e /\ x.retries = 0
  BY ZoneEventAssumption DEF Retained
<1>3. ~IsHeld(e)
  BY <1>1, HeldHasReturned
<1>4. pending \in Seq(Retained)
  BY <1>1, SliceTypes
<1> HIDE DEF x
<1>5. /\ pending' \in Seq(Retained)
      /\ Held(pending)' = Held(pending) \cup {e}
      /\ Distinct(pending) /\ e \notin Held(pending) => Distinct(pending)'
      /\ Counted(pending', at', tries', sent') <=>
           Counted(pending, at', tries', sent') /\ Counted(<<x>>, at', tries', sent')
  BY <1>1, <1>2, <1>4, AppendSlice
<1>6. DeliveryTypeOK'
  BY <1>1, <1>5 DEF DeliveryTypeOK
<1>7. NoneTwice' /\ Apart'
  <2>1. NoneTwice /\ Apart
    BY DEF DeliveryInv
  <2>2. NoneTwice'
    BY <1>1, <1>3, <1>5, <2>1 DEF NoneTwice, IsHeld
  <2>3. ASSUME NEW p \in Retrier
        PROVE  Held(pending)' \cap (Held(batch[p])' \cup Held(keep[p])') = {}
    BY <1>1, <1>3, <1>5, <2>1 DEF Apart, IsHeld
  <2>4. batch' = batch /\ keep' = keep
    BY <1>1
  <2> QED BY <2>1, <2>2, <2>3, <2>4 DEF Apart
<1>8. AllCounted'
  <2>1. Counted(<<x>>, at', tries', sent')
    BY <1>1, <1>2, ZoneEventAssumption DEF Counted
  <2>2. ASSUME NEW s \in Seq(Retained), Counted(s, at, tries, sent), e \notin Held(s)
        PROVE  Counted(s, at', tries', sent')
    BY <1>1, <2>2, CountedElsewhere
  <2> QED BY <1>1, <1>3, <1>5, <2>1, <2>2, SliceTypes DEF DeliveryInv, AllCounted, IsHeld
<1>9. \A f \in Event : Attempted(f)'
  BY <1>1, <1>5 DEF DeliveryInv, Attempted, Open, IsHeld
<1> QED BY <1>1, <1>6, <1>7, <1>8, <1>9 DEF DeliveryInv, IdleIsEmpty

LEMMA RetryTakeStep ==
  ASSUME DeliveryInv, NEW p \in Retrier, RetryTake(p)
  PROVE  DeliveryInv'
<1>1. /\ DeliveryTypeOK /\ batch[p] = <<>> /\ keep[p] = <<>>
      /\ busy'[p] /\ batch'[p] = pending /\ pending' = <<>>
      /\ busy' \in [Retrier -> BOOLEAN]
      /\ \A q \in Retrier : q # p => batch'[q] = batch[q] /\ busy'[q] = busy[q]
      /\ UNCHANGED <<at, tries, sent, keep>>
  BY DEF RetryTake, DeliveryInv, DeliveryTypeOK, IdleIsEmpty
<1>2. DeliveryTypeOK'
  <2>1. batch' \in [Retrier -> Seq(Retained)]
    BY <1>1 DEF RetryTake, DeliveryTypeOK
  <2>2. pending' \in Seq(Retained)
    BY <1>1, EmptySeq
  <2> QED BY <1>1, <2>1, <2>2 DEF DeliveryTypeOK
<1>3. NoneTwice' /\ Apart' /\ AllCounted'
  BY <1>1, EmptySlice DEF DeliveryInv, NoneTwice, Apart, AllCounted
<1>4. \A e \in Event : Attempted(e)'
  <2>1. \A e \in Event : IsHeld(e) => IsHeld(e)'
    BY <1>1, EmptySlice DEF IsHeld
  <2> QED BY <1>1, <2>1 DEF DeliveryInv, Attempted, Open
<1>5. IdleIsEmpty'
  BY <1>1 DEF DeliveryInv, IdleIsEmpty
<1> QED BY <1>2, <1>3, <1>4, <1>5 DEF DeliveryInv

\* The event at the head of the batch is tried again.
LEMMA RetrySendStep ==
  ASSUME DeliveryInv, NEW p \in Retrier, NEW ok \in BOOLEAN, RetrySend(p, ok),
         NEW e, e = Head(batch[p]).event
  PROVE  DeliveryInv'
<1> DEFINE r == Head(batch[p])
           y == [r EXCEPT !.retries = @ + 1]
           again == ~ok /\ r.retries + 1 < MaxZoneEventRetries
<1>0. e = r.event
  OBVIOUS
<1>1. /\ DeliveryTypeOK /\ NoneTwice /\ Apart /\ AllCounted
      /\ batch[p] \in Seq(Retained) /\ keep[p] \in Seq(Retained) /\ batch[p] # <<>>
  BY SliceTypes DEF DeliveryInv, RetrySend
<1>2. /\ r \in Retained /\ Tail(batch[p]) \in Seq(Retained)
      /\ Held(batch[p]) = Held(Tail(batch[p])) \cup {e}
      /\ Distinct(Tail(batch[p])) /\ e \notin Held(Tail(batch[p]))
      /\ Counted(Tail(batch[p]), at, tries, sent) /\ Counted(<<r>>, at, tries, sent)
  BY <1>1, TailSlice DEF NoneTwice, AllCounted
<1>3. /\ e \in Event /\ r.retries \in 0..MaxZoneEventRetries /\ at[e] = "returned"
      /\ sent[e] = 0 /\ tries[e] = r.retries + 1 /\ r.retries < MaxZoneEventRetries
  <2>1. DOMAIN <<r>> = {1} /\ <<r>>[1] = r
    OBVIOUS
  <2>2. e \in Event /\ r.retries \in 0..MaxZoneEventRetries
    BY <1>0, <1>2 DEF Retained
  <2> HIDE DEF r
  <2> QED BY <1>0, <1>2, <2>1, <2>2 DEF Counted
<1>4. /\ batch'[p] = Tail(batch[p])
      /\ keep'[p] = IF again THEN Append(keep[p], y) ELSE keep[p]
      /\ \A q \in Retrier : q # p => batch'[q] = batch[q] /\ keep'[q] = keep[q]
      /\ batch' = [batch EXCEPT ![p] = Tail(batch[p])]
      /\ keep' = [keep EXCEPT ![p] = IF again THEN Append(keep[p], y) ELSE keep[p]]
      /\ UNCHANGED <<at, pending, busy>> /\ Send(e, ok)
  BY <1>1 DEF RetrySend, DeliveryTypeOK
<1>5. /\ tries' \in [Event -> Nat] /\ sent' \in [Event -> Nat]
      /\ tries'[e] = tries[e] + 1
      /\ sent'[e] = IF ok THEN 1 ELSE 0
      /\ \A f \in Event : f # e => tries'[f] = tries[f] /\ sent'[f] = sent[f]
  <2>1. e \in Event /\ Send(e, ok) /\ sent[e] = 0
    BY <1>3, <1>4
  <2> QED BY <1>1, <2>1, SendType
<1>6. again => y \in Retained /\ y.event = e /\ y.retries = r.retries + 1
  BY <1>2, <1>3, ZoneEventAssumption DEF Retained
<1> HIDE DEF r, y, again
<1>7. e \in Held(batch[p]) /\ IsHeld(e)
  BY <1>2 DEF IsHeld
<1>8. e \notin Held(pending) /\ \A q \in Retrier : e \notin Held(keep[q])
                             /\ (q # p => e \notin Held(batch[q]))
  BY <1>1, <1>7 DEF Apart
<1>9. /\ keep'[p] \in Seq(Retained)
      /\ Held(keep'[p]) = Held(keep[p]) \cup IF again THEN {e} ELSE {}
      /\ Distinct(keep'[p])
  <2>1. CASE again
    <3>1. keep'[p] = Append(keep[p], y) /\ y \in Retained /\ y.event = e
      BY <2>1, <1>4, <1>6
    <3>2. Distinct(keep[p]) /\ e \notin Held(keep[p])
      BY <1>1, <1>8 DEF NoneTwice
    <3>3. /\ Append(keep[p], y) \in Seq(Retained)
          /\ Held(Append(keep[p], y)) = Held(keep[p]) \cup {y.event}
          /\ Distinct(keep[p]) /\ y.event \notin Held(keep[p]) => Distinct(Append(keep[p], y))
      BY <1>1, <3>1, AppendSlice
    <3> QED BY <2>1, <3>1, <3>2, <3>3
  <2>2. CASE ~again
    BY <2>2, <1>1, <1>4 DEF NoneTwice
  <2> QED BY <2>1, <2>2
<1>10. DeliveryTypeOK'
  BY <1>1, <1>2, <1>4, <1>5, <1>9 DEF DeliveryTypeOK
<1>11. NoneTwice'
  BY <1>1, <1>2, <1>4, <1>9 DEF NoneTwice
<1>12. Apart'
  <2>1. /\ Held(batch'[p]) \subseteq Held(batch[p]) /\ e \notin Held(batch'[p])
        /\ Held(keep'[p]) \subseteq Held(keep[p]) \cup {e}
        /\ pending' = pending
    BY <1>2, <1>4, <1>9
  <2>2. \A q \in Retrier : q # p => batch'[q] = batch[q] /\ keep'[q] = keep[q]
    BY <1>4
  <2>3. ASSUME NEW q \in Retrier
        PROVE  Held(pending') \cap (Held(batch'[q]) \cup Held(keep'[q])) = {}
    BY <2>1, <2>2, <1>1, <1>8 DEF Apart
  <2>4. ASSUME NEW q \in Retrier, NEW u \in Retrier
        PROVE  Held(batch'[q]) \cap Held(keep'[u]) = {}
    <3>1. Held(batch[q]) \cap Held(keep[u]) = {}
      BY <1>1 DEF Apart
    <3>2. Held(batch'[q]) \subseteq Held(batch[q]) /\ e \notin Held(batch'[q])
      BY <2>1, <2>2, <1>8
    <3>3. Held(keep'[u]) \subseteq Held(keep[u]) \cup {e}
      BY <2>1, <2>2
    <3> QED BY <3>1, <3>2, <3>3
  <2>5. ASSUME NEW q \in Retrier, NEW u \in Retrier, q # u
        PROVE  Held(batch'[q]) \cap Held(batch'[u]) = {} /\ Held(keep'[q]) \cap Held(keep'[u]) = {}
    <3>1. Held(batch[q]) \cap Held(batch[u]) = {} /\ Held(keep[q]) \cap Held(keep[u]) = {}
      BY <2>5, <1>1 DEF Apart
    <3>2. Held(batch'[q]) \subseteq Held(batch[q]) /\ Held(batch'[u]) \subseteq Held(batch[u])
      BY <2>1, <2>2
    <3>3. CASE q = p
      BY <3>1, <3>2, <3>3, <2>1, <2>2, <2>5, <1>8
    <3>4. CASE u = p
      BY <3>1, <3>2, <3>4, <2>1, <2>2, <2>5, <1>8
    <3>5. CASE q # p /\ u # p
      BY <3>1, <3>5, <2>2
    <3> QED BY <3>3, <3>4, <3>5
  <2> QED BY <2>3, <2>4, <2>5 DEF Apart
<1>13. AllCounted'
  <2>0. \A f \in Event : f # e => at'[f] = at[f] /\ tries'[f] = tries[f] /\ sent'[f] = sent[f]
    BY <1>4, <1>5
  <2>1. ASSUME NEW s \in Seq(Retained), Counted(s, at, tries, sent), e \notin Held(s)
        PROVE  Counted(s, at', tries', sent')
    BY <2>0, <2>1, CountedElsewhere
  <2>2. Counted(pending', at', tries', sent') /\ Counted(batch'[p], at', tries', sent')
    BY <1>1, <1>2, <1>4, <1>8, <2>1, SliceTypes DEF AllCounted
  <2>3. Counted(keep[p], at', tries', sent')
    BY <1>1, <1>8, <2>1 DEF AllCounted
  <2>4. again => Counted(<<y>>, at', tries', sent')
    <3>1. DOMAIN <<y>> = {1} /\ <<y>>[1] = y
      OBVIOUS
    <3>2. again => /\ at'[e] = "returned" /\ sent'[e] = 0 /\ tries'[e] = r.retries + 2
                   /\ r.retries + 1 < MaxZoneEventRetries
      BY <1>3, <1>4, <1>5 DEF again
    <3> QED BY <1>3, <1>6, <3>1, <3>2 DEF Counted
  <2>5. Counted(keep'[p], at', tries', sent')
    BY <1>1, <1>4, <1>6, <2>3, <2>4, AppendSlice
  <2>6. \A q \in Retrier : q # p => Counted(batch'[q], at', tries', sent')
                                    /\ Counted(keep'[q], at', tries', sent')
    BY <1>1, <1>4, <1>8, <2>1, SliceTypes DEF AllCounted
  <2> QED BY <2>2, <2>5, <2>6 DEF AllCounted
<1>14. \A f \in Event : Attempted(f)'
  <2>1. ASSUME NEW f \in Event, f # e PROVE Attempted(f)'
    <3>1. IsHeld(f) => IsHeld(f)'
      <4>1. f \in Held(batch[p]) \cup Held(keep[p]) => f \in Held(batch'[p]) \cup Held(keep'[p])
        BY <2>1, <1>2, <1>4, <1>9
      <4> QED BY <4>1, <1>4 DEF IsHeld
    <3>2. at'[f] = at[f] /\ tries'[f] = tries[f] /\ sent'[f] = sent[f]
      BY <2>1, <1>4, <1>5
    <3> QED BY <3>1, <3>2 DEF DeliveryInv, Attempted, Open
  <2>2. Attempted(e)'
    <3>1. at'[e] = "returned"
      BY <1>3, <1>4
    <3>2. Open(e)' => again
      BY <1>3, <1>5, ZoneEventAssumption DEF Open, again
    <3>3. again => IsHeld(e)'
      BY <1>9 DEF IsHeld
    <3> QED BY <3>1, <3>2, <3>3 DEF Attempted
  <2> QED BY <2>1, <2>2
<1>15. IdleIsEmpty'
  <2>1. busy[p]
    BY <1>1 DEF DeliveryInv, IdleIsEmpty
  <2> QED BY <2>1, <1>4 DEF DeliveryInv, IdleIsEmpty
<1> QED BY <1>10, <1>11, <1>12, <1>13, <1>14, <1>15 DEF DeliveryInv

LEMMA RetryReturnStep ==
  ASSUME DeliveryInv, NEW p \in Retrier, RetryReturn(p)
  PROVE  DeliveryInv'
<1>1. /\ DeliveryTypeOK /\ NoneTwice /\ Apart /\ AllCounted
      /\ pending \in Seq(Retained) /\ keep[p] \in Seq(Retained)
  BY SliceTypes DEF DeliveryInv
<1>2. /\ batch[p] = <<>> /\ pending' = keep[p] \o pending /\ keep'[p] = <<>>
      /\ keep' = [keep EXCEPT ![p] = <<>>]
      /\ busy' = [busy EXCEPT ![p] = FALSE]
      /\ \A q \in Retrier : q # p => keep'[q] = keep[q] /\ busy'[q] = busy[q]
      /\ UNCHANGED <<at, tries, sent, batch>>
  BY <1>1 DEF RetryReturn, DeliveryTypeOK
<1>3. /\ pending' \in Seq(Retained)
      /\ Held(pending') = Held(keep[p]) \cup Held(pending)
      /\ Distinct(pending')
      /\ Counted(pending', at, tries, sent)
  <2>1. Distinct(keep[p]) /\ Distinct(pending) /\ Held(keep[p]) \cap Held(pending) = {}
    BY <1>1 DEF NoneTwice, Apart
  <2>2. Counted(keep[p], at, tries, sent) /\ Counted(pending, at, tries, sent)
    BY <1>1 DEF AllCounted
  <2> QED BY <1>1, <1>2, <2>1, <2>2, JoinSlices
<1>4. Held(keep'[p]) = {} /\ Distinct(keep'[p]) /\ Counted(keep'[p], at, tries, sent)
  BY <1>2, EmptySlice
<1>5. DeliveryTypeOK'
  BY <1>1, <1>2, <1>3, EmptySeq DEF DeliveryTypeOK
<1>6. NoneTwice' /\ AllCounted'
  BY <1>1, <1>2, <1>3, <1>4 DEF NoneTwice, AllCounted
<1>7. Apart'
  <2>1. batch' = batch /\ Held(batch[p]) = {}
    BY <1>2, EmptySlice
  <2>2. ASSUME NEW q \in Retrier
        PROVE  Held(pending') \cap (Held(batch'[q]) \cup Held(keep'[q])) = {}
    BY <1>1, <1>2, <1>3, <1>4, <2>1 DEF Apart
  <2>3. ASSUME NEW q \in Retrier, NEW u \in Retrier
        PROVE  Held(batch'[q]) \cap Held(keep'[u]) = {}
    BY <1>1, <1>2, <1>4, <2>1 DEF Apart
  <2>4. ASSUME NEW q \in Retrier, NEW u \in Retrier, q # u
        PROVE  Held(batch'[q]) \cap Held(batch'[u]) = {} /\ Held(keep'[q]) \cap Held(keep'[u]) = {}
    BY <1>1, <1>2, <1>4, <2>1, <2>4 DEF Apart
  <2> QED BY <2>2, <2>3, <2>4 DEF Apart
<1>8. \A e \in Event : Attempted(e)'
  <2>1. ASSUME NEW e \in Event, IsHeld(e) PROVE IsHeld(e)'
    BY <2>1, <1>2, <1>3 DEF IsHeld
  <2> QED BY <1>2, <2>1 DEF DeliveryInv, Attempted, Open
<1>9. IdleIsEmpty'
  BY <1>1, <1>2 DEF DeliveryInv, IdleIsEmpty, DeliveryTypeOK
<1> QED BY <1>5, <1>6, <1>7, <1>8, <1>9 DEF DeliveryInv

LEMMA InvInit == DeliveryInit => DeliveryInv
<1> SUFFICES ASSUME DeliveryInit PROVE DeliveryInv
  OBVIOUS
<1>1. DeliveryTypeOK
  <2>1. <<>> \in Seq(Retained)
    BY EmptySeq
  <2> QED BY <2>1 DEF DeliveryInit, DeliveryTypeOK
<1>2. NoneTwice /\ Apart /\ AllCounted
  BY EmptySlice DEF DeliveryInit, NoneTwice, Apart, AllCounted
<1> QED BY <1>1, <1>2 DEF DeliveryInit, DeliveryInv, Attempted, IdleIsEmpty

LEMMA InvStep == DeliveryInv /\ [DeliveryNext]_deliveryVars => DeliveryInv'
<1> SUFFICES ASSUME DeliveryInv, [DeliveryNext]_deliveryVars PROVE DeliveryInv'
  OBVIOUS
<1>1. ASSUME NEW e \in Event, NEW ok \in BOOLEAN, Deliver(e, ok) PROVE DeliveryInv'
  BY <1>1, DeliverStep
<1>2. ASSUME NEW e \in Event, NEW ok \in BOOLEAN, DeliverWithRetries(e, ok) PROVE DeliveryInv'
  BY <1>2, DeliverWithRetriesStep
<1>3. ASSUME NEW e \in Event, Retain(e) PROVE DeliveryInv'
  BY <1>3, RetainStep
<1>4. ASSUME NEW p \in Retrier, RetryTake(p) PROVE DeliveryInv'
  BY <1>4, RetryTakeStep
<1>5. ASSUME NEW p \in Retrier, NEW ok \in BOOLEAN, RetrySend(p, ok) PROVE DeliveryInv'
  BY <1>5, RetrySendStep
<1>6. ASSUME NEW p \in Retrier, RetryReturn(p) PROVE DeliveryInv'
  BY <1>6, RetryReturnStep
<1>7. CASE UNCHANGED deliveryVars
  BY <1>7 DEF deliveryVars, DeliveryInv, DeliveryTypeOK, NoneTwice, Apart, AllCounted,
              Attempted, IsHeld, Open, IdleIsEmpty
<1> QED BY <1>1, <1>2, <1>3, <1>4, <1>5, <1>6, <1>7 DEF DeliveryNext, RetryStep

LEMMA InvCorrect == DeliverySpec => []DeliveryInv
  BY InvInit, InvStep, PTL DEF DeliverySpec

\* Where the slots of an event are.
LEMMA SlotPlaces ==
  ASSUME NEW e, NEW x
  PROVE  x \in Slots(e) <=>
           \/ \E i \in DOMAIN pending : pending[i].event = e /\ x = <<"pending", i>>
           \/ \E p \in Retrier : \E i \in DOMAIN batch[p] :
                batch[p][i].event = e /\ x = <<p, "batch", i>>
           \/ \E p \in Retrier : \E i \in DOMAIN keep[p] :
                keep[p][i].event = e /\ x = <<p, "keep", i>>
  BY DEF Slots

\* An event has one slot when it is held and none when it is not.
LEMMA HeldInOneSlot ==
  ASSUME DeliveryInv, NEW e
  PROVE  Cardinality(Slots(e)) = IF IsHeld(e) THEN 1 ELSE 0
<1>1. Slots(e) # {} <=> IsHeld(e)
  <2>1. ASSUME NEW x \in Slots(e) PROVE IsHeld(e)
    <3>1. \/ \E i \in DOMAIN pending : pending[i].event = e
          \/ \E p \in Retrier : \E i \in DOMAIN batch[p] : batch[p][i].event = e
          \/ \E p \in Retrier : \E i \in DOMAIN keep[p] : keep[p][i].event = e
      BY SlotPlaces
    <3> QED BY <3>1 DEF IsHeld, Held
  <2>2. ASSUME e \in Held(pending) PROVE Slots(e) # {}
    <3>1. PICK i \in DOMAIN pending : pending[i].event = e
      BY <2>2 DEF Held
    <3>2. <<"pending", i>> \in Slots(e)
      BY <3>1, SlotPlaces
    <3> QED BY <3>2
  <2>3. ASSUME NEW p \in Retrier, e \in Held(batch[p]) PROVE Slots(e) # {}
    <3>1. PICK i \in DOMAIN batch[p] : batch[p][i].event = e
      BY <2>3 DEF Held
    <3>2. <<p, "batch", i>> \in Slots(e)
      BY <3>1, SlotPlaces
    <3> QED BY <3>2
  <2>4. ASSUME NEW p \in Retrier, e \in Held(keep[p]) PROVE Slots(e) # {}
    <3>1. PICK i \in DOMAIN keep[p] : keep[p][i].event = e
      BY <2>4 DEF Held
    <3>2. <<p, "keep", i>> \in Slots(e)
      BY <3>1, SlotPlaces
    <3> QED BY <3>2
  <2> QED BY <2>1, <2>2, <2>3, <2>4 DEF IsHeld
<1>2. ASSUME NEW x \in Slots(e), NEW y \in Slots(e) PROVE x = y
  <2> DEFINE InPending(z) == \E i \in DOMAIN pending :
                               pending[i].event = e /\ z = <<"pending", i>>
             InBatch(z) == \E p \in Retrier : \E i \in DOMAIN batch[p] :
                             batch[p][i].event = e /\ z = <<p, "batch", i>>
             InKeep(z)  == \E p \in Retrier : \E i \in DOMAIN keep[p] :
                             keep[p][i].event = e /\ z = <<p, "keep", i>>
  <2>1. (InPending(x) \/ InBatch(x) \/ InKeep(x)) /\ (InPending(y) \/ InBatch(y) \/ InKeep(y))
    BY SlotPlaces
  <2>2. NoneTwice /\ Apart
    BY DEF DeliveryInv
  <2>3. \A z : /\ InPending(z) => e \in Held(pending)
               /\ InBatch(z) => \E p \in Retrier : e \in Held(batch[p])
               /\ InKeep(z) => \E p \in Retrier : e \in Held(keep[p])
    BY DEF Held
  <2>4. ~(InPending(x) /\ (InBatch(y) \/ InKeep(y))) /\ ~(InPending(y) /\ (InBatch(x) \/ InKeep(x)))
    BY <2>2, <2>3 DEF Apart
  <2>5. ~(InBatch(x) /\ InKeep(y)) /\ ~(InBatch(y) /\ InKeep(x))
    BY <2>2, <2>3 DEF Apart
  <2>6. CASE InPending(x) /\ InPending(y)
    BY <2>2, <2>6 DEF NoneTwice, Distinct
  <2>7. CASE InBatch(x) /\ InBatch(y)
    <3>1. PICK p \in Retrier : \E i \in DOMAIN batch[p] :
            batch[p][i].event = e /\ x = <<p, "batch", i>>
      BY <2>7
    <3>2. PICK q \in Retrier : \E j \in DOMAIN batch[q] :
            batch[q][j].event = e /\ y = <<q, "batch", j>>
      BY <2>7
    <3>3. p = q
      BY <3>1, <3>2, <2>2 DEF Apart, Held
    <3> QED BY <3>1, <3>2, <3>3, <2>2 DEF NoneTwice, Distinct
  <2>8. CASE InKeep(x) /\ InKeep(y)
    <3>1. PICK p \in Retrier : \E i \in DOMAIN keep[p] :
            keep[p][i].event = e /\ x = <<p, "keep", i>>
      BY <2>8
    <3>2. PICK q \in Retrier : \E j \in DOMAIN keep[q] :
            keep[q][j].event = e /\ y = <<q, "keep", j>>
      BY <2>8
    <3>3. p = q
      BY <3>1, <3>2, <2>2 DEF Apart, Held
    <3> QED BY <3>1, <3>2, <3>3, <2>2 DEF NoneTwice, Distinct
  <2> QED BY <2>1, <2>4, <2>5, <2>6, <2>7, <2>8
<1>3. CASE IsHeld(e)
  <2>1. PICK x : Slots(e) = {x}
    BY <1>1, <1>2, <1>3
  <2> QED BY <2>1, <1>3, FS_Singleton
<1>4. CASE ~IsHeld(e)
  BY <1>1, <1>4, FS_EmptySet
<1> QED BY <1>3, <1>4

-----------------------------------------------------------------------------
(***************************************************************************)
(* The theorems.                                                           *)
(***************************************************************************)

\* Every variable of the queue keeps its type.
THEOREM DeliveryTypeCorrect == DeliverySpec => []DeliveryTypeOK
<1>1. DeliveryInv => DeliveryTypeOK
  BY DEF DeliveryInv
<1> QED BY InvCorrect, <1>1, PTL

\* An event that has been neither delivered nor given up is retained exactly
\* once, and any other not at all, whatever calls of Deliver and Retry overlap
\* (pending, Retry's local slices).
THEOREM HeldOnceCorrect == DeliverySpec => []HeldOnce
<1>1. DeliveryInv => HeldOnce
  <2> SUFFICES ASSUME DeliveryInv, NEW e \in Event, at[e] = "returned"
               PROVE  Cardinality(Slots(e)) = IF Open(e) THEN 1 ELSE 0
    BY DEF HeldOnce
  <2>1. IsHeld(e) <=> Open(e)
    BY HeldHasReturned, ZoneEventAssumption DEF DeliveryInv, Attempted, Open
  <2> QED BY <2>1, HeldInOneSlot
<1> QED BY InvCorrect, <1>1, PTL

\* The queue is well-formed and loses or copies no event.
THEOREM DeliverySafeCorrect == DeliverySpec => []DeliverySafe
<1>1. DeliveryTypeOK /\ HeldOnce => DeliverySafe
  BY DEF DeliverySafe
<1> QED BY DeliveryTypeCorrect, HeldOnceCorrect, <1>1, PTL

-----------------------------------------------------------------------------
(***************************************************************************)
(* The refinement.                                                         *)
(***************************************************************************)

\* What the mapping makes of an event.
Outcome(e) == IF sent[e] > 0 THEN "delivered"
              ELSE IF tries[e] > MaxZoneEventRetries THEN "given_up" ELSE "open"

\* A send for an open event is an attempt of the abstract specification.
LEMMA SendIsAttempt ==
  ASSUME DeliveryTypeOK, NEW e \in Event, NEW ok \in BOOLEAN, Send(e, ok),
         sent[e] = 0, tries[e] <= MaxZoneEventRetries
  PROVE  Promise!Next
<1> DEFINE outcome == [f \in Event |-> Outcome(f)]
<1>1. /\ tries' = [tries EXCEPT ![e] = @ + 1] /\ tries[e] \in Nat
      /\ tries'[e] = tries[e] + 1 /\ sent'[e] = IF ok THEN 1 ELSE 0
      /\ \A f \in Event : f # e => tries'[f] = tries[f] /\ sent'[f] = sent[f]
  BY DEF Send, DeliveryTypeOK
<1>2. Outcome(e) = "open"
  <2>1. tries[e] \in Nat /\ MaxZoneEventRetries \in Nat /\ sent[e] = 0
    BY ZoneEventAssumption DEF DeliveryTypeOK
  <2> QED BY <2>1 DEF Outcome
<1>3. \A f \in Event : f # e => Outcome(f)' = Outcome(f)
  BY <1>1 DEF Outcome
<1>4. Outcome(e)' = IF ok THEN "delivered"
                    ELSE IF tries[e] = MaxZoneEventRetries THEN "given_up" ELSE "open"
  BY <1>1, ZoneEventAssumption DEF Outcome
<1>5. CASE ok
  <2>1. outcome' = [outcome EXCEPT ![e] = "delivered"]
    BY <1>3, <1>4, <1>5
  <2> QED BY <1>1, <1>2, <2>1 DEF Promise!Next, Promise!Succeed, Outcome
<1>6. CASE ~ok
  <2>1. outcome' = [outcome EXCEPT ![e] =
                      IF tries[e] = MaxZoneEventRetries THEN "given_up" ELSE @]
    BY <1>2, <1>3, <1>4, <1>6
  <2> QED BY <1>1, <1>2, <2>1 DEF Promise!Next, Promise!Fail, Outcome
<1> QED BY <1>5, <1>6

\* The queue implements what requirement 6.7 promises: the attempts of an event
\* are a first one and at most MaxZoneEventRetries retries, none after a
\* success, whichever goroutines make them.
THEOREM PromiseKept == DeliverySpec => RetriesAsPromised
<1>1. DeliveryInit => Promise!Init
  BY ZoneEventAssumption DEF DeliveryInit, Promise!Init
<1>2. DeliveryInv /\ [DeliveryNext]_deliveryVars
        => [Promise!Next]_<<tries, [e \in Event |-> Outcome(e)]>>
  <2> SUFFICES ASSUME DeliveryInv, [DeliveryNext]_deliveryVars
               PROVE  \/ Promise!Next
                      \/ UNCHANGED <<tries, sent>>
    BY DEF Outcome
  <2>1. ASSUME NEW e \in Event, NEW ok \in BOOLEAN, Deliver(e, ok) PROVE Promise!Next
    <3>1. Send(e, ok) /\ sent[e] = 0 /\ tries[e] = 0
      BY <2>1 DEF Deliver, DeliveryInv, Attempted
    <3> QED BY <3>1, SendIsAttempt, ZoneEventAssumption DEF DeliveryInv
  <2>2. ASSUME NEW e \in Event, NEW ok \in BOOLEAN, DeliverWithRetries(e, ok)
        PROVE  Promise!Next
    <3>1. Send(e, ok) /\ sent[e] = 0 /\ tries[e] <= MaxZoneEventRetries
      BY <2>2, ZoneEventAssumption DEF DeliverWithRetries, DeliveryInv, Attempted
    <3> QED BY <3>1, SendIsAttempt DEF DeliveryInv
  <2>3. ASSUME NEW e \in Event, Retain(e) PROVE UNCHANGED <<tries, sent>>
    BY <2>3 DEF Retain
  <2>4. ASSUME NEW p \in Retrier, RetryTake(p) PROVE UNCHANGED <<tries, sent>>
    BY <2>4 DEF RetryTake
  <2>5. ASSUME NEW p \in Retrier, NEW ok \in BOOLEAN, RetrySend(p, ok) PROVE Promise!Next
    <3>1. batch[p] # <<>> /\ Send(Head(batch[p]).event, ok)
      BY <2>5 DEF RetrySend
    <3>2. batch[p] \in Seq(Retained)
      BY SliceTypes DEF DeliveryInv
    <3>3. Head(batch[p]).event \in Held(batch[p])
      BY <3>1, <3>2, TailSlice
    <3>4. Head(batch[p]).event \in Event
      BY <3>2, <3>3, EventsOfSlice
    <3>5. IsHeld(Head(batch[p]).event)
      BY <3>3 DEF IsHeld
    <3> QED BY <3>1, <3>4, <3>5, HeldHasReturned, SendIsAttempt DEF DeliveryInv
  <2>6. ASSUME NEW p \in Retrier, RetryReturn(p) PROVE UNCHANGED <<tries, sent>>
    BY <2>6 DEF RetryReturn
  <2>7. CASE UNCHANGED deliveryVars
    BY <2>7 DEF deliveryVars
  <2> QED BY <2>1, <2>2, <2>3, <2>4, <2>5, <2>6, <2>7 DEF DeliveryNext, RetryStep
<1> QED BY InvCorrect, <1>1, <1>2, PTL DEF DeliverySpec, RetriesAsPromised, Promise!Spec, Outcome

-----------------------------------------------------------------------------
(***************************************************************************)
(* The order of delivery.  While only p retries, what it has put aside,    *)
(* has still to send and would put it before are one queue: a step leaves  *)
(* an event out or adds one at its end, and never swaps two.               *)
(***************************************************************************)

\* The events of new stand in the order they have in old.
OrderKept(new, old) ==
  \A i, j \in DOMAIN new : i < j =>
    \E k, l \in DOMAIN old : k < l /\ old[k].event = new[i].event /\ old[l].event = new[j].event

\* When old has no event twice, no two events of it have changed places.
LEMMA NotReversed ==
  ASSUME NEW old \in Seq(Retained), NEW new, Distinct(old), OrderKept(new, old),
         NEW e, NEW f, Before(e, f, old)
  PROVE  ~Before(f, e, new)
<1> SUFFICES ASSUME Before(f, e, new) PROVE FALSE
  OBVIOUS
<1>1. PICK i, j \in DOMAIN new : i < j /\ new[i].event = f /\ new[j].event = e
  BY DEF Before
<1>2. PICK k, l \in DOMAIN old : k < l /\ old[k].event = f /\ old[l].event = e
  BY <1>1 DEF OrderKept
<1>3. PICK m, n \in DOMAIN old : m < n /\ old[m].event = e /\ old[n].event = f
  BY DEF Before
<1>4. m = l /\ n = k
  BY <1>2, <1>3 DEF Distinct
<1>5. DOMAIN old \subseteq Int
  OBVIOUS
<1> QED BY <1>2, <1>3, <1>4, <1>5

\* The positions of three slices in a row.
LEMMA ThreeSlices ==
  ASSUME NEW a \in Seq(Retained), NEW b \in Seq(Retained), NEW c \in Seq(Retained)
  PROVE  /\ a \o b \o c \in Seq(Retained)
         /\ DOMAIN (a \o b \o c) = 1..(Len(a) + Len(b) + Len(c))
         /\ \A i \in 1..(Len(a) + Len(b) + Len(c)) :
              (a \o b \o c)[i] = IF i <= Len(a) THEN a[i]
                                 ELSE IF i <= Len(a) + Len(b) THEN b[i - Len(a)]
                                 ELSE c[i - Len(a) - Len(b)]
<1> DEFINE u == a \o b
<1>1. /\ u \in Seq(Retained) /\ Len(u) = Len(a) + Len(b)
      /\ \A i \in 1..Len(u) : u[i] = IF i <= Len(a) THEN a[i] ELSE b[i - Len(a)]
  BY ConcatProperties
<1>2. /\ Len(a) \in Nat /\ Len(b) \in Nat /\ Len(c) \in Nat
  BY LenProperties
<1> HIDE DEF u
<1>3. /\ u \o c \in Seq(Retained) /\ Len(u \o c) = Len(u) + Len(c)
      /\ \A i \in 1..(Len(u) + Len(c)) : (u \o c)[i] = IF i <= Len(u) THEN u[i] ELSE c[i - Len(u)]
  <2>1. u \in Seq(Retained)
    BY <1>1
  <2> QED BY <2>1, ConcatProperties
<1>4. DOMAIN (u \o c) = 1..(Len(u) + Len(c))
  BY <1>3, LenProperties
<1>5. \A i \in 1..(Len(u) + Len(c)) :
         (u \o c)[i] = IF i <= Len(a) THEN a[i]
                       ELSE IF i <= Len(a) + Len(b) THEN b[i - Len(a)]
                       ELSE c[i - Len(a) - Len(b)]
  <2> TAKE i \in 1..(Len(u) + Len(c))
  <2>1. CASE i <= Len(u)
    BY <1>1, <1>2, <1>3, <2>1
  <2>2. CASE ~(i <= Len(u))
    <3>1. i - Len(u) = i - Len(a) - Len(b) /\ ~(i <= Len(a)) /\ ~(i <= Len(a) + Len(b))
      BY <1>1, <1>2, <2>2
    <3> QED BY <1>3, <2>2, <3>1
  <2> QED BY <2>1, <2>2
<1> QED BY <1>1, <1>3, <1>4, <1>5 DEF u

\* What p has put aside, has still to send and would put it before: one queue, in
\* which no event is twice.
LEMMA LineIsDistinct ==
  ASSUME DeliveryInv, NEW p \in Retrier
  PROVE  /\ Line(p) \in Seq(Retained) /\ Distinct(Line(p))
         /\ Held(Line(p)) = Held(keep[p]) \cup Held(batch[p]) \cup Held(pending)
<1>1. keep[p] \in Seq(Retained) /\ batch[p] \in Seq(Retained) /\ pending \in Seq(Retained)
  BY DEF DeliveryInv, DeliveryTypeOK
<1>2. Distinct(keep[p]) /\ Distinct(batch[p]) /\ Distinct(pending)
  BY DEF DeliveryInv, NoneTwice
<1>3. /\ Held(keep[p]) \cap Held(batch[p]) = {}
      /\ (Held(keep[p]) \cup Held(batch[p])) \cap Held(pending) = {}
  BY DEF DeliveryInv, Apart
<1>4. /\ keep[p] \o batch[p] \in Seq(Retained) /\ Distinct(keep[p] \o batch[p])
      /\ Held(keep[p] \o batch[p]) = Held(keep[p]) \cup Held(batch[p])
  BY <1>1, <1>2, <1>3, JoinSlices
<1> QED BY <1>1, <1>2, <1>3, <1>4, JoinSlices DEF Line

\* Leaving the first of the middle slice out, or moving it to the end of the
\* slice before, keeps the order.
LEMMA FirstLeaves ==
  ASSUME NEW a \in Seq(Retained), NEW b \in Seq(Retained), NEW c \in Seq(Retained), b # <<>>
  PROVE  OrderKept(a \o Tail(b) \o c, a \o b \o c)
<1> DEFINE n == Len(a)
           t == Tail(b)
           old == a \o b \o c
           new == a \o t \o c
<1>1. t \in Seq(Retained) /\ Len(t) = Len(b) - 1 /\ \A i \in 1..Len(t) : t[i] = b[i + 1]
  BY HeadTailProperties
<1>2. Len(a) \in Nat /\ Len(b) \in Nat /\ Len(c) \in Nat /\ Len(t) \in Nat
  BY <1>1, LenProperties
<1> HIDE DEF t
<1>3. /\ DOMAIN old = 1..(Len(a) + Len(b) + Len(c))
      /\ \A i \in 1..(Len(a) + Len(b) + Len(c)) :
           old[i] = IF i <= Len(a) THEN a[i]
                    ELSE IF i <= Len(a) + Len(b) THEN b[i - Len(a)] ELSE c[i - Len(a) - Len(b)]
  BY ThreeSlices
<1>4. /\ DOMAIN new = 1..(Len(a) + Len(t) + Len(c))
      /\ \A i \in 1..(Len(a) + Len(t) + Len(c)) :
           new[i] = IF i <= Len(a) THEN a[i]
                    ELSE IF i <= Len(a) + Len(t) THEN t[i - Len(a)] ELSE c[i - Len(a) - Len(t)]
  <2>1. t \in Seq(Retained)
    BY <1>1
  <2> QED BY <2>1, ThreeSlices
<1> DEFINE g(i) == IF i <= Len(a) THEN i ELSE i + 1
<1>5. ASSUME NEW i \in DOMAIN new PROVE g(i) \in DOMAIN old /\ old[g(i)] = new[i]
  <2> HIDE DEF old, new
  <2>1. i \in Int /\ i >= 1 /\ i <= Len(a) + Len(t) + Len(c)
    BY <1>2, <1>4
  <2>2. CASE i <= Len(a)
    BY <1>1, <1>2, <1>3, <1>4, <2>1, <2>2
  <2>3. CASE ~(i <= Len(a)) /\ i <= Len(a) + Len(t)
    <3>1. new[i] = t[i - Len(a)] /\ i - Len(a) \in 1..Len(t)
      BY <1>2, <1>4, <2>1, <2>3
    <3>2. t[i - Len(a)] = b[i - Len(a) + 1] /\ i - Len(a) + 1 = i + 1 - Len(a)
      BY <1>1, <1>2, <2>1, <3>1
    <3>3. i + 1 \in DOMAIN old /\ old[i + 1] = b[i + 1 - Len(a)]
      BY <1>1, <1>2, <1>3, <2>1, <2>3
    <3> QED BY <2>3, <3>1, <3>2, <3>3
  <2>4. CASE ~(i <= Len(a) + Len(t))
    <3>1. ~(i <= Len(a)) /\ new[i] = c[i - Len(a) - Len(t)]
      BY <1>2, <1>4, <2>1, <2>4
    <3>2. i + 1 \in DOMAIN old /\ old[i + 1] = c[i + 1 - Len(a) - Len(b)]
      BY <1>1, <1>2, <1>3, <2>1, <2>4
    <3>3. i + 1 - Len(a) - Len(b) = i - Len(a) - Len(t)
      BY <1>1, <1>2, <2>1
    <3> QED BY <3>1, <3>2, <3>3
  <2> QED BY <2>1, <2>2, <2>3, <2>4, <1>2
<1>6. \A i, j \in DOMAIN new : i < j => g(i) < g(j)
  BY <1>2, <1>4
<1> HIDE DEF old, new, g
<1>7. QED
  <2>1. OrderKept(new, old)
    BY <1>5, <1>6 DEF OrderKept
  <2> QED BY <2>1 DEF new, old, t

LEMMA FirstMoves ==
  ASSUME NEW a \in Seq(Retained), NEW b \in Seq(Retained), NEW c \in Seq(Retained), b # <<>>,
         NEW x \in Retained, x.event = Head(b).event
  PROVE  OrderKept(Append(a, x) \o Tail(b) \o c, a \o b \o c)
<1> DEFINE t == Tail(b)
           s == Append(a, x)
           old == a \o b \o c
           new == s \o t \o c
<1>1. /\ t \in Seq(Retained) /\ Len(t) = Len(b) - 1 /\ \A i \in 1..Len(t) : t[i] = b[i + 1]
      /\ b[1] = Head(b)
  BY HeadTailProperties
<1>2. /\ s \in Seq(Retained) /\ Len(s) = Len(a) + 1
      /\ \A i \in 1..Len(a) : s[i] = a[i]
      /\ s[Len(a) + 1] = x
  BY AppendProperties
<1>3. Len(a) \in Nat /\ Len(b) \in Nat /\ Len(c) \in Nat /\ Len(t) \in Nat
  BY <1>1, LenProperties
<1> HIDE DEF t, s
<1>4. /\ DOMAIN old = 1..(Len(a) + Len(b) + Len(c))
      /\ \A i \in 1..(Len(a) + Len(b) + Len(c)) :
           old[i] = IF i <= Len(a) THEN a[i]
                    ELSE IF i <= Len(a) + Len(b) THEN b[i - Len(a)] ELSE c[i - Len(a) - Len(b)]
  BY ThreeSlices
<1>5. /\ DOMAIN new = 1..(Len(s) + Len(t) + Len(c))
      /\ \A i \in 1..(Len(s) + Len(t) + Len(c)) :
           new[i] = IF i <= Len(s) THEN s[i]
                    ELSE IF i <= Len(s) + Len(t) THEN t[i - Len(s)] ELSE c[i - Len(s) - Len(t)]
  <2>1. s \in Seq(Retained) /\ t \in Seq(Retained)
    BY <1>1, <1>2
  <2> QED BY <2>1, ThreeSlices
<1> HIDE DEF old, new
<1>6. DOMAIN new = DOMAIN old
  BY <1>1, <1>2, <1>3, <1>4, <1>5
<1>7. ASSUME NEW i \in DOMAIN new PROVE old[i].event = new[i].event
  <2>1. i \in Int /\ i >= 1 /\ i <= Len(a) + Len(b) + Len(c)
    BY <1>3, <1>4, <1>6
  <2>2. CASE i <= Len(a)
    BY <1>2, <1>3, <1>4, <1>5, <1>6, <2>1, <2>2
  <2>3. CASE i = Len(a) + 1
    <3>1. new[i] = x
      BY <1>2, <1>3, <1>5, <2>3
    <3>2. old[i] = b[1]
      <4>1. i - Len(a) = 1 /\ ~(i <= Len(a)) /\ i <= Len(a) + Len(b)
        BY <1>1, <1>3, <2>3
      <4> QED BY <1>4, <1>6, <4>1
    <3> QED BY <1>1, <3>1, <3>2
  <2>4. CASE i > Len(a) + 1 /\ i <= Len(a) + Len(b)
    <3>0. i - Len(s) \in 1..Len(t) /\ ~(i <= Len(s)) /\ i <= Len(s) + Len(t)
      BY <1>1, <1>2, <1>3, <2>1, <2>4
    <3>1. i - Len(s) \in 1..Len(t) /\ new[i] = t[i - Len(s)]
      BY <1>5, <3>0
    <3>2. t[i - Len(s)] = b[i - Len(s) + 1] /\ i - Len(s) + 1 = i - Len(a)
      BY <1>1, <1>2, <1>3, <2>1, <3>1
    <3>3. old[i] = b[i - Len(a)]
      BY <1>3, <1>4, <2>1, <2>4
    <3> QED BY <3>1, <3>2, <3>3
  <2>5. CASE i > Len(a) + Len(b)
    <3>1. i - Len(s) - Len(t) = i - Len(a) - Len(b) /\ ~(i <= Len(s)) /\ ~(i <= Len(s) + Len(t))
          /\ ~(i <= Len(a)) /\ ~(i <= Len(a) + Len(b))
      BY <1>1, <1>2, <1>3, <2>1, <2>5
    <3>2. new[i] = c[i - Len(s) - Len(t)] /\ old[i] = c[i - Len(a) - Len(b)]
      BY <1>4, <1>5, <1>6, <3>1
    <3> QED BY <3>1, <3>2
  <2> QED BY <2>1, <2>2, <2>3, <2>4, <2>5, <1>3
<1>8. OrderKept(new, old)
  BY <1>6, <1>7 DEF OrderKept
<1> QED BY <1>8 DEF new, old, t, s

\* With no other Retry in progress, a step keeps the order of the queue of p, but
\* for an event that is retained, which comes last.
LEMMA LineKeepsOrder ==
  ASSUME DeliveryInv, DeliveryNext, NEW p \in Retrier,
         \A q \in Retrier \ {p} : ~busy[q] /\ ~busy'[q]
  PROVE  \/ OrderKept(Line(p)', Line(p))
         \/ \E e \in Event, x \in Retained :
              /\ Line(p)' = Append(Line(p), x) /\ x.event = e /\ e \notin Held(Line(p))
<1>1. /\ keep[p] \in Seq(Retained) /\ batch[p] \in Seq(Retained) /\ pending \in Seq(Retained)
      /\ keep \in [Retrier -> Seq(Retained)] /\ batch \in [Retrier -> Seq(Retained)]
      /\ busy \in [Retrier -> BOOLEAN]
  BY DEF DeliveryInv, DeliveryTypeOK
<1>2. ASSUME UNCHANGED <<pending, batch, keep>> PROVE OrderKept(Line(p)', Line(p))
  <2>1. Line(p)' = Line(p)
    BY <1>2 DEF Line
  <2> QED BY <2>1 DEF OrderKept
<1>3. ASSUME NEW e \in Event, NEW ok \in BOOLEAN, Deliver(e, ok) \/ DeliverWithRetries(e, ok)
      PROVE  OrderKept(Line(p)', Line(p))
  BY <1>2, <1>3 DEF Deliver, DeliverWithRetries
<1>4. ASSUME NEW e \in Event, Retain(e)
      PROVE  \E x \in Retained :
               Line(p)' = Append(Line(p), x) /\ x.event = e /\ e \notin Held(Line(p))
  <2> DEFINE x == [event |-> e, retries |-> 0]
  <2>1. x \in Retained /\ x.event = e
    BY ZoneEventAssumption DEF Retained
  <2> HIDE DEF x
  <2>2. pending' = Append(pending, x) /\ keep' = keep /\ batch' = batch /\ at[e] = "failed"
    BY <1>4 DEF Retain, x
  <2>3. keep[p] \o batch[p] \o Append(pending, x) = Append(keep[p] \o batch[p] \o pending, x)
    <3> DEFINE u == keep[p] \o batch[p]
    <3>1. u \in Seq(Retained)
      BY <1>1, JoinSlices
    <3> HIDE DEF u
    <3>2. u \o Append(pending, x) = Append(u \o pending, x)
      BY <1>1, <2>1, <3>1
    <3> QED BY <3>2 DEF u
  <2>4. Line(p)' = Append(Line(p), x)
    BY <2>2, <2>3 DEF Line
  <2>5. e \notin Held(Line(p))
    BY <2>2, HeldHasReturned, LineIsDistinct DEF IsHeld
  <2> QED BY <2>1, <2>4, <2>5
<1>5. ASSUME NEW q \in Retrier, RetryTake(q) PROVE OrderKept(Line(p)', Line(p))
  <2>1. q = p
    BY <1>1, <1>5 DEF RetryTake
  <2>2. keep[p] = <<>> /\ batch[p] = <<>>
    BY <1>5, <2>1 DEF RetryTake, DeliveryInv, IdleIsEmpty
  <2>3. keep' = keep /\ batch'[p] = pending /\ pending' = <<>>
    BY <1>1, <1>5, <2>1 DEF RetryTake
  <2>4. Line(p)' = <<>> \o pending \o <<>> /\ Line(p) = <<>> \o <<>> \o pending
    BY <2>2, <2>3 DEF Line
  <2>5. Line(p)' = Line(p)
    BY <1>1, <2>4
  <2> QED BY <2>5 DEF OrderKept
<1>6. ASSUME NEW q \in Retrier, NEW ok \in BOOLEAN, RetrySend(q, ok)
      PROVE  OrderKept(Line(p)', Line(p))
  <2>1. q = p /\ batch[p] # <<>>
    BY <1>6 DEF RetrySend, DeliveryInv, IdleIsEmpty
  <2> DEFINE r == Head(batch[p])
             y == [r EXCEPT !.retries = @ + 1]
             again == ~ok /\ r.retries + 1 < MaxZoneEventRetries
  <2>2. /\ batch'[p] = Tail(batch[p]) /\ pending' = pending
        /\ keep'[p] = IF again THEN Append(keep[p], y) ELSE keep[p]
    BY <1>1, <1>6, <2>1 DEF RetrySend
  <2>3. r \in Retained
    BY <1>1, <2>1, TailSlice
  <2>4. CASE again
    <3>1. y \in Retained /\ y.event = r.event
      <4> HIDE DEF r
      <4> QED BY <2>3, <2>4, ZoneEventAssumption DEF Retained
    <3> HIDE DEF y
    <3>2. Line(p)' = Append(keep[p], y) \o Tail(batch[p]) \o pending
      BY <2>2, <2>4 DEF Line
    <3> QED BY <1>1, <2>1, <3>1, <3>2, FirstMoves DEF Line
  <2>5. CASE ~again
    <3>1. Line(p)' = keep[p] \o Tail(batch[p]) \o pending
      BY <2>2, <2>5 DEF Line
    <3> QED BY <1>1, <2>1, <3>1, FirstLeaves DEF Line
  <2> QED BY <2>4, <2>5
<1>7. ASSUME NEW q \in Retrier, RetryReturn(q) PROVE OrderKept(Line(p)', Line(p))
  <2>1. q = p
    BY <1>7 DEF RetryReturn
  <2>2. /\ batch[p] = <<>> /\ batch' = batch /\ pending' = keep[p] \o pending
        /\ keep'[p] = <<>>
    BY <1>1, <1>7, <2>1 DEF RetryReturn
  <2>3. Line(p)' = <<>> \o <<>> \o (keep[p] \o pending) /\ Line(p) = keep[p] \o <<>> \o pending
    BY <2>2 DEF Line
  <2>4. keep[p] \o pending \in Seq(Retained)
    BY <1>1, JoinSlices
  <2>5. Line(p)' = Line(p)
    BY <1>1, <2>3, <2>4
  <2> QED BY <2>5 DEF OrderKept
<1> QED BY <1>3, <1>4, <1>5, <1>6, <1>7 DEF DeliveryNext, RetryStep

\* An event that is retained comes after those that are.
LEMMA LastComesLast ==
  ASSUME NEW s \in Seq(Retained), Distinct(s), NEW x \in Retained, x.event \notin Held(s),
         NEW e, NEW f, Before(e, f, s)
  PROVE  ~Before(f, e, Append(s, x))
<1> DEFINE t == Append(s, x)
<1>1. /\ DOMAIN s = 1..Len(s) /\ Len(s) \in Nat /\ DOMAIN t = 1..Len(s) + 1
      /\ \A i \in 1..Len(s) : t[i] = s[i]
      /\ t[Len(s) + 1] = x
  <2>1. /\ t \in Seq(Retained) /\ Len(t) = Len(s) + 1
        /\ \A i \in 1..Len(s) : t[i] = s[i]
        /\ t[Len(s) + 1] = x
    BY AppendProperties
  <2> QED BY <2>1, LenProperties
<1> HIDE DEF t
<1>2. e \in Held(s) /\ f \in Held(s)
  BY DEF Before, Held
<1> SUFFICES ASSUME NEW i \in DOMAIN t, NEW j \in DOMAIN t, i < j, t[i].event = f, t[j].event = e
             PROVE  FALSE
  BY DEF Before, t
<1>3. i \in DOMAIN s /\ j \in DOMAIN s
  BY <1>1, <1>2
<1>4. s[i].event = f /\ s[j].event = e
  BY <1>1, <1>3
<1>5. PICK m, n \in DOMAIN s : m < n /\ s[m].event = e /\ s[n].event = f
  BY DEF Before
<1>6. m = j /\ n = i
  BY <1>3, <1>4, <1>5 DEF Distinct
<1> QED BY <1>1, <1>5, <1>6, <1>3

\* Events whose delivery failed are delivered again in the order they failed in, and
\* stay in it when it fails again, as long as Retry does not run twice at once: for
\* any events, any number of goroutines and any budget of retries.
THEOREM OldestFirstCorrect == DeliverySpec => OldestFirst
<1> DEFINE Ordered == \A p \in Retrier, e, f \in Event :
             /\ \A q \in Retrier \ {p} : ~busy[q] /\ ~busy'[q]
             /\ Before(e, f, Line(p))
             => ~Before(f, e, Line(p)')
<1>1. ASSUME DeliveryInv, DeliveryNext PROVE Ordered
  <2> SUFFICES ASSUME NEW p \in Retrier, NEW e \in Event, NEW f \in Event,
                      \A q \in Retrier \ {p} : ~busy[q] /\ ~busy'[q],
                      Before(e, f, Line(p))
               PROVE  ~Before(f, e, Line(p)')
    OBVIOUS
  <2>1. Line(p) \in Seq(Retained) /\ Distinct(Line(p))
    BY <1>1, LineIsDistinct
  <2>2. CASE OrderKept(Line(p)', Line(p))
    BY <2>1, <2>2, NotReversed
  <2>3. ASSUME NEW x \in Retained, Line(p)' = Append(Line(p), x), x.event \notin Held(Line(p))
        PROVE  ~Before(f, e, Line(p)')
    BY <2>1, <2>3, LastComesLast
  <2> QED BY <1>1, <2>2, <2>3, LineKeepsOrder
<1>2. DeliveryInv /\ [DeliveryNext]_deliveryVars => [Ordered]_deliveryVars
  BY <1>1
<1> QED BY <1>2, InvCorrect, PTL DEF DeliverySpec, OldestFirst

-----------------------------------------------------------------------------
(***************************************************************************)
(* The fleet the dashboard shows.  A trace is trimmed at every frame: by   *)
(* time, then to the last TraceCap.  It is a selection of the times that   *)
(* were received, and a selection of a selection is one, so what many      *)
(* trimmings leave is compared with what one trimming of everything would. *)
(***************************************************************************)


\* Trimming a selection of s leaves a selection of s, of at most TraceCap of its
\* times in the window, and among them all those of the last TraceCap; if the times
\* in the window are the last of s, no others.
IsTrim(L, s, K, when) ==
  /\ Bounded(SelectAt(s, K), when) = SelectAt(s, L)
  /\ Len(Bounded(SelectAt(s, K), when)) <= TraceCap
  /\ \A j \in K : InWindow(s[j], when) /\ j + TraceCap > Len(s) => j \in L
  /\ (\A j \in K, k \in DOMAIN s : InWindow(s[j], when) /\ j < k => k \in K /\ InWindow(s[k], when))
     => L = {j \in K : InWindow(s[j], when) /\ j + TraceCap > Len(s)}

LEMMA BoundedKeeps ==
  ASSUME NEW T, NEW s \in Seq(T), NEW K \in SUBSET DOMAIN s, NEW when \in Nat
  PROVE  \E L \in SUBSET K : IsTrim(L, s, K, when)
<1> DEFINE n == Len(s)
           to == InOrder(K)
           u == SelectAt(s, K)
           J == {i \in DOMAIN u : InWindow(u[i], when)}
           I == {j \in K : InWindow(s[j], when)}
           w == SelectAt(s, I)
           c == Cardinality(I)
           a == IF c > TraceCap THEN c - TraceCap + 1 ELSE 1
           L == LastIn(I, TraceCap)
<1>1. /\ u \in Seq(T) /\ DOMAIN u = 1..Cardinality(K) /\ Cardinality(K) \in Nat
      /\ to \in [1..Cardinality(K) -> K]
      /\ \A x \in K : \E i \in 1..Cardinality(K) : to[i] = x
      /\ \A i \in 1..Cardinality(K) : u[i] = s[to[i]]
  BY SelectAtIsSelection
<1>2. n \in Nat /\ DOMAIN s = 1..n /\ TraceCap \in Nat \ {0}
  BY FleetAssumption
<1> HIDE DEF u, to, n
<1>3. {to[i] : i \in J} = I
  BY <1>1
<1>4. Kept(u, when) = w
  <2>1. J \in SUBSET (1..Cardinality(K)) /\ K \in SUBSET DOMAIN s
    BY <1>1
  <2> HIDE DEF J, I
  <2>2. SelectAt(u, J) = SelectAt(s, {to[i] : i \in J})
    <3>1. SelectAt(SelectAt(s, K), J) = SelectAt(s, {InOrder(K)[i] : i \in J})
      BY <2>1, SelectAgain
    <3>2. QED
      BY <3>1 DEF u, to
  <2>3. QED
    BY <1>3, <2>2 DEF Kept, J
<1>5. I \in SUBSET DOMAIN s /\ I \in SUBSET (1..n)
  BY <1>2
<1> HIDE DEF I
<1>6. c \in Nat /\ w \in Seq(T) /\ DOMAIN w = 1..c /\ Len(w) = c
  BY <1>5, SelectAtIsSelection
<1> HIDE DEF w
<1>7. a \in 1..c + 1
  BY <1>2, <1>6
<1>8. Bounded(u, when) = SubSeq(w, a, c)
  BY <1>4, <1>6 DEF Bounded, LastOf
<1>9. SubSeq(w, a, c) = SelectAt(s, L)
  <2>1. SubSeq(w, a, c) = SelectAt(s, {InOrder(I)[i] : i \in a..c})
    BY <1>5, <1>7, SelectRest DEF w
  <2>2. QED
    BY <2>1 DEF LastIn
<1>10. Len(SubSeq(w, a, c)) <= TraceCap
  <2>1. Len(SubSeq(w, a, c)) = c - a + 1
    BY <1>6, <1>7
  <2>2. QED
    BY <1>2, <1>6, <2>1
<1>11. /\ L \subseteq I
       /\ \A j \in I : j + TraceCap > n => j \in L
       /\ (\A j \in I, k \in 1..n : j < k => k \in I) => L = {j \in I : j + TraceCap > n}
  BY <1>2, <1>5, LastAreLast
<1> HIDE DEF L, a, c
<1>12. /\ Bounded(u, when) = SelectAt(s, L) /\ Len(Bounded(u, when)) <= TraceCap
  BY <1>8, <1>9, <1>10
<1>13. L \in SUBSET K /\ \A j \in L : InWindow(s[j], when)
  BY <1>11 DEF I
<1>14. /\ \A j \in K : InWindow(s[j], when) /\ j + TraceCap > n => j \in L
       /\ (\A j \in K, k \in 1..n : InWindow(s[j], when) /\ j < k => k \in K /\ InWindow(s[k], when))
              => L = {j \in K : InWindow(s[j], when) /\ j + TraceCap > n}
  BY <1>2, <1>11 DEF I
<1>15. QED
  BY <1>12, <1>13, <1>2, <1>14 DEF u, n, IsTrim

\* What was received: a time, and when it came.
Frame == Nat \X Nat

\* The trace is what was received at some positions: at least at those of the last
\* TraceCap that are in the window, and at no others while times ascend.
Trimmed(trace, rec, when) ==
  \E K \in SUBSET DOMAIN rec :
    /\ trace = SelectAt(Times(rec), K)
    /\ \A j \in DOMAIN rec : InWindow(rec[j][1], when) /\ j + TraceCap > Len(rec) => j \in K
    /\ InTimeOrder(rec) /\ rec # <<>> =>
         K = {j \in DOMAIN rec : /\ InWindow(rec[j][1], rec[Len(rec)][2])
                                 /\ j + TraceCap > Len(rec)}

\* The times of what was received.
LEMMA TimesFacts ==
  ASSUME NEW rec \in Seq(Frame)
  PROVE  /\ Times(rec) \in Seq(Nat) /\ Len(Times(rec)) = Len(rec)
         /\ DOMAIN Times(rec) = DOMAIN rec /\ DOMAIN rec = 1..Len(rec) /\ Len(rec) \in Nat
         /\ \A j \in DOMAIN rec : /\ rec[j] \in Frame /\ rec[j][1] \in Nat /\ rec[j][2] \in Nat
                                  /\ Times(rec)[j] = rec[j][1]
<1>1. DOMAIN rec = 1..Len(rec) /\ Len(rec) \in Nat /\ \A j \in DOMAIN rec : rec[j] \in Frame
  OBVIOUS
<1>2. \A j \in DOMAIN rec : rec[j][1] \in Nat /\ rec[j][2] \in Nat
  BY <1>1 DEF Frame
<1>3. Times(rec) \in [1..Len(rec) -> Nat]
  BY <1>1, <1>2 DEF Times
<1>4. QED
  BY <1>1, <1>2, <1>3 DEF Times

\* A position appended and trimmed at once leaves a trimmed trace.
LEMMA FrameArrives ==
  ASSUME NEW trace, NEW rec \in Seq(Frame), NEW when \in Nat, NEW t \in Nat,
         Trimmed(trace, rec, when)
  PROVE  /\ Trimmed(Bounded(Append(trace, t), when), Append(rec, <<t, when>>), when)
         /\ Bounded(Append(trace, t), when) \in Seq(Nat)
         /\ Len(Bounded(Append(trace, t), when)) <= TraceCap
<1> DEFINE new == Append(rec, <<t, when>>)
           n == Len(rec)
           s == Times(new)
<1>1. PICK K \in SUBSET DOMAIN rec :
        /\ trace = SelectAt(Times(rec), K)
        /\ \A j \in DOMAIN rec : InWindow(rec[j][1], when) /\ j + TraceCap > n => j \in K
        /\ InTimeOrder(rec) /\ rec # <<>> =>
             K = {j \in DOMAIN rec : InWindow(rec[j][1], rec[n][2]) /\ j + TraceCap > n}
  BY DEF Trimmed
<1>2. /\ new \in Seq(Frame) /\ Len(new) = n + 1 /\ n \in Nat /\ DOMAIN new = 1..n + 1
      /\ DOMAIN rec = 1..n
      /\ \A j \in 1..n : new[j] = rec[j]
      /\ new[n + 1] = <<t, when>>
  <2>1. <<t, when>> \in Frame
    BY DEF Frame
  <2>2. QED
    BY <2>1, AppendProperties
<1> HIDE DEF new, n
<1>3. /\ s \in Seq(Nat) /\ Len(s) = n + 1 /\ DOMAIN s = 1..n + 1
      /\ \A j \in 1..n + 1 : s[j] = new[j][1] /\ s[j] \in Nat
      /\ \A j \in 1..n : s[j] = rec[j][1]
      /\ s[n + 1] = t
  BY <1>2, TimesFacts
<1>4. Append(Times(rec), t) = s
  <2>1. Times(rec) \in Seq(Nat) /\ Len(Times(rec)) = n /\ \A j \in 1..n : Times(rec)[j] = rec[j][1]
    BY <1>2, TimesFacts DEF n
  <2>2. Append(Times(rec), t) = [k \in 1..n + 1 |-> IF k = n + 1 THEN t ELSE Times(rec)[k]]
    <3> DEFINE u == Times(rec)
    <3>1. u \in Seq(Nat) /\ Len(u) = n
      BY <2>1
    <3> HIDE DEF u
    <3>2. Append(u, t) = [k \in 1..Len(u) + 1 |-> IF k = Len(u) + 1 THEN t ELSE u[k]]
      BY <3>1, AppendIs
    <3>3. QED
      BY <3>1, <3>2 DEF u
  <2>3. s = [k \in 1..n + 1 |-> s[k]]
    BY <1>2 DEF Times
  <2> HIDE DEF s
  <2>4. \A k \in 1..n + 1 : s[k] = IF k = n + 1 THEN t ELSE Times(rec)[k]
    <3>1. n \in Nat
      BY <1>2
    <3>2. \A k \in 1..n + 1 : k = n + 1 \/ k \in 1..n
      BY <3>1
    <3>3. s[n + 1] = t /\ \A j \in 1..n : s[j] = Times(rec)[j]
      BY <1>3, <2>1
    <3> HIDE DEF n
    <3> QED BY <3>1, <3>2, <3>3
  <2>5. QED
    BY <2>2, <2>3, <2>4
<1> HIDE DEF s
<1> DEFINE K1 == K \cup {n + 1}
<1>5. Append(trace, t) = SelectAt(s, K1)
  <2>1. /\ Times(rec) \in Seq(Nat) /\ K \in SUBSET DOMAIN Times(rec) /\ Len(Times(rec)) = n
    BY TimesFacts DEF n
  <2>2. Append(SelectAt(Times(rec), K), t) = SelectAt(Append(Times(rec), t), K \cup {Len(Times(rec)) + 1})
    BY <2>1, SelectAppend
  <2>3. QED
    BY <1>1, <1>4, <2>1, <2>2
<1>6. K1 \in SUBSET DOMAIN s
  BY <1>2, <1>3
<1> HIDE DEF K1
<1>6a. PICK L \in SUBSET K1 : IsTrim(L, s, K1, when)
  <2>1. s \in Seq(Nat)
    BY <1>3
  <2>2. QED
    BY <1>6, <2>1, BoundedKeeps
<1>7.   /\ Bounded(SelectAt(s, K1), when) = SelectAt(s, L)
        /\ Len(Bounded(SelectAt(s, K1), when)) <= TraceCap
        /\ \A j \in K1 : InWindow(s[j], when) /\ j + TraceCap > Len(s) => j \in L
        /\ (\A j \in K1, k \in DOMAIN s : InWindow(s[j], when) /\ j < k => k \in K1 /\ InWindow(s[k], when))
           => L = {j \in K1 : InWindow(s[j], when) /\ j + TraceCap > Len(s)}
  BY <1>6a, Zenon DEF IsTrim
<1>8. TraceCap \in Nat
  BY FleetAssumption
<1>9. ASSUME NEW j \in 1..n + 1, InWindow(s[j], when), j + TraceCap > n + 1
      PROVE  j \in K1
  <2>1. CASE j = n + 1
    BY <2>1 DEF K1
  <2>2. CASE j # n + 1
    <3>1. j \in 1..n /\ j + TraceCap > n
      BY <1>2, <1>8, <1>9, <2>2
    <3>2. j \in K
      BY <1>1, <1>2, <1>3, <1>9, <3>1
    <3>3. QED
      BY <3>2 DEF K1
  <2>3. QED
    BY <2>1, <2>2
<1>10. \A j \in DOMAIN new : InWindow(new[j][1], when) /\ j + TraceCap > Len(new) => j \in L
  BY <1>2, <1>3, <1>7, <1>9
<1>11. ASSUME InTimeOrder(new)
       PROVE  L = {j \in DOMAIN new : InWindow(new[j][1], new[Len(new)][2]) /\ j + TraceCap > Len(new)}
  <2>1. \A i, j \in 1..n + 1 : i < j => s[i] <= s[j]
    <3>1. \A i, j \in 1..n + 1 : i < j => new[i][1] <= new[j][1]
      BY <1>2, <1>11 DEF InTimeOrder
    <3>2. QED
      BY <1>3, <3>1
  <2>2. InTimeOrder(rec)
    BY <1>2, <1>3, <2>1 DEF InTimeOrder
  <2>3. Window \in Nat
    BY FleetAssumption
  <2>4. ASSUME NEW j \in K1, NEW k \in DOMAIN s, InWindow(s[j], when), j < k
        PROVE  k \in K1 /\ InWindow(s[k], when)
    <3>1. j \in 1..n + 1 /\ k \in 1..n + 1
      BY <1>3, <1>6
    <3>2. s[j] <= s[k] /\ s[j] \in Nat /\ s[k] \in Nat
      BY <1>3, <2>1, <2>4, <3>1
    <3>3. \A x \in Nat : InWindow(s[j], x) => InWindow(s[k], x)
      BY <2>3, <3>2 DEF InWindow
    <3>4. CASE k = n + 1
      BY <2>4, <3>3, <3>4 DEF K1
    <3>5. CASE k # n + 1
      <4>1. k \in 1..n /\ j \in 1..n /\ j \in K
        BY <1>2, <2>4, <3>1, <3>5 DEF K1
      <4>2. rec # <<>> /\ n \in 1..n
        BY <1>2, <4>1
      <4>3. K = {i \in DOMAIN rec : InWindow(rec[i][1], rec[n][2]) /\ i + TraceCap > n}
        BY <1>1, <2>2, <4>2
      <4>4. InWindow(s[j], rec[n][2]) /\ j + TraceCap > n
        BY <1>3, <4>1, <4>3
      <4>5. rec[n][2] \in Nat
        BY <1>2, <4>2, TimesFacts
      <4>6. InWindow(rec[k][1], rec[n][2]) /\ k + TraceCap > n
        <5>1. InWindow(s[k], rec[n][2]) /\ s[k] = rec[k][1]
          BY <1>3, <3>3, <4>1, <4>4, <4>5
        <5>2. k + TraceCap > n
          BY <1>2, <1>8, <2>4, <4>1, <4>4
        <5> QED BY <5>1, <5>2
      <4>7. k \in K
        BY <1>2, <4>1, <4>3, <4>6
      <4>8. QED
        BY <2>4, <3>3, <4>7 DEF K1
    <3>6. QED
      BY <3>4, <3>5
  <2>5. L = {j \in K1 : InWindow(s[j], when) /\ j + TraceCap > n + 1}
    BY <1>3, <1>7, <2>4
  <2>6. new[Len(new)][2] = when
    BY <1>2
  <2>7. \A j : j \in L <=> j \in DOMAIN new /\ InWindow(new[j][1], when) /\ j + TraceCap > n + 1
    BY <1>2, <1>3, <1>6, <1>9, <2>5
  <2>8. QED
    BY <1>2, <2>6, <2>7
<1>12. Trimmed(SelectAt(s, L), new, when)
  <2>1. L \in SUBSET DOMAIN new
    BY <1>2, <1>3, <1>6
  <2>2. QED
    BY <1>10, <1>11, <2>1 DEF Trimmed, s
<1>13. SelectAt(s, L) \in Seq(Nat)
  <2>1. L \in SUBSET DOMAIN s
    BY <1>6
  <2>2. QED
    BY <1>3, <2>1, SelectAtIsSelection
<1>14. QED
  BY <1>5, <1>7, <1>12, <1>13 DEF new

\* A trace that nothing is added to stays the trimmed one as time passes.
LEMMA TimePasses ==
  ASSUME NEW trace, NEW rec \in Seq(Frame), NEW when \in Nat, Trimmed(trace, rec, when)
  PROVE  Trimmed(trace, rec, when + 1)
<1>1. \A j \in DOMAIN rec : InWindow(rec[j][1], when + 1) => InWindow(rec[j][1], when)
  <2>1. Window \in Nat
    BY FleetAssumption
  <2>2. QED
    BY <2>1, TimesFacts DEF InWindow
<1>2. QED
  BY <1>1 DEF Trimmed

\* Trimming at every frame and trimming once, at the last of them, are the same.
LEMMA TrimmedIsBounded ==
  ASSUME NEW trace, NEW rec \in Seq(Frame), NEW when \in Nat, Trimmed(trace, rec, when),
         rec # <<>>, InTimeOrder(rec)
  PROVE  trace = Bounded(Times(rec), rec[Len(rec)][2])
<1> DEFINE s == Times(rec)
           last == rec[Len(rec)][2]
<1>1. /\ s \in Seq(Nat) /\ Len(s) = Len(rec) /\ Len(rec) \in Nat
      /\ DOMAIN s = DOMAIN rec /\ DOMAIN rec = 1..Len(rec)
      /\ \A j \in DOMAIN rec : s[j] = rec[j][1] /\ s[j] \in Nat
  BY TimesFacts
<1>2. last \in Nat
  <2>1. Len(rec) \in DOMAIN rec
    BY <1>1
  <2>2. QED
    BY <2>1, TimesFacts
<1>3. trace = SelectAt(s, {j \in DOMAIN rec : InWindow(rec[j][1], last) /\ j + TraceCap > Len(rec)})
  BY DEF Trimmed
<1> HIDE DEF s, last
<1>4. SelectAt(s, DOMAIN s) = s
  BY <1>1, SelectAll
<1>5. DOMAIN s \in SUBSET DOMAIN s
  OBVIOUS
<1>5a. PICK L \in SUBSET DOMAIN s : IsTrim(L, s, DOMAIN s, last)
  BY <1>1, <1>2, <1>5, BoundedKeeps
<1>6.   /\ Bounded(SelectAt(s, DOMAIN s), last) = SelectAt(s, L)
        /\ (\A j \in DOMAIN s, k \in DOMAIN s : InWindow(s[j], last) /\ j < k => k \in DOMAIN s /\ InWindow(s[k], last))
           => L = {j \in DOMAIN s : InWindow(s[j], last) /\ j + TraceCap > Len(s)}
  BY <1>5a, Zenon DEF IsTrim
<1>7. \A j, k \in DOMAIN s : InWindow(s[j], last) /\ j < k => InWindow(s[k], last)
  <2>1. Window \in Nat
    BY FleetAssumption
  <2>2. \A j, k \in DOMAIN s : j < k => s[j] <= s[k]
    BY <1>1 DEF InTimeOrder
  <2>3. QED
    BY <1>1, <1>2, <2>1, <2>2 DEF InWindow
<1>8. L = {j \in DOMAIN s : InWindow(s[j], last) /\ j + TraceCap > Len(s)}
  BY <1>6, <1>7
<1>9. L = {j \in DOMAIN rec : InWindow(rec[j][1], last) /\ j + TraceCap > Len(rec)}
  BY <1>1, <1>8
<1>10. QED
  BY <1>3, <1>4, <1>6, <1>9 DEF s, last

\* The path drawn ascends, and has every time of the window that is not ahead.
LEMMA PathIsTheHour ==
  ASSUME NEW v, traces[v] \in Seq(Nat), now \in Nat
  PROVE  /\ \A i, j \in DOMAIN PathTrace(v) : i < j => PathTrace(v)[i] <= PathTrace(v)[j]
         /\ \A i \in DOMAIN traces[v] : InWindow(traces[v][i], now) /\ traces[v][i] <= now
              => traces[v][i] \in ToSet(PathTrace(v))
<1> DEFINE s == traces[v]
           H == InHour(s)
           R == ByTime(s, H)
           to == OrderedBy(H, R)
           c == Cardinality(H)
<1>1. /\ DOMAIN s = 1..Len(s) /\ Len(s) \in Nat /\ \A i \in DOMAIN s : s[i] \in Nat
      /\ H \subseteq DOMAIN s
  BY DEF InHour
<1>2. IsFiniteSet(H)
  <2>1. IsFiniteSet(DOMAIN s)
    BY <1>1, FS_Interval
  <2>2. QED
    BY <1>1, <2>1, FS_Subset
<1>3. H \subseteq Int /\ \A i \in H : s[i] \in Nat
  BY <1>1
<1>4. \A i \in DOMAIN s : InWindow(s[i], now) /\ s[i] <= now => i \in H
  BY DEF InHour
<1>5. PathTrace(v) = [n \in DOMAIN to |-> s[to[n]]]
  BY DEF PathTrace
<1> HIDE DEF H, s
<1>6. TotalOrder(H, R)
  BY <1>3 DEF TotalOrder, ByTime
<1> HIDE DEF R
<1>7. /\ to \in [1..c -> H]
      /\ \A i, j \in 1..c : i < j => <<to[i], to[j]>> \in R
      /\ \A x \in H : \E i \in 1..c : to[i] = x
  BY <1>2, <1>6, OrderedByIsNumbering
<1> HIDE DEF to, c
<1>8. DOMAIN PathTrace(v) = 1..c /\ \A i \in 1..c : PathTrace(v)[i] = s[to[i]]
  BY <1>5, <1>7
<1>9. ASSUME NEW i \in 1..c, NEW j \in 1..c, i < j
      PROVE  s[to[i]] <= s[to[j]]
  <2>1. to[i] \in H /\ to[j] \in H /\ <<to[i], to[j]>> \in R
    BY <1>7, <1>9
  <2>2. s[to[i]] < s[to[j]] \/ s[to[i]] = s[to[j]]
    BY <2>1 DEF R, ByTime
  <2>3. s[to[i]] \in Nat /\ s[to[j]] \in Nat
    BY <1>3, <2>1
  <2>4. QED
    BY <2>2, <2>3
<1>10. ASSUME NEW i \in H
       PROVE  s[i] \in ToSet(PathTrace(v))
  <2>1. PICK k \in 1..c : to[k] = i
    BY <1>7
  <2>2. k \in DOMAIN PathTrace(v) /\ PathTrace(v)[k] = s[i]
    BY <1>8, <2>1
  <2>3. QED
    BY <2>2 DEF ToSet
<1>11. QED
  BY <1>4, <1>8, <1>9, <1>10 DEF s

\* The inductive invariant: what each trace holds is told in terms of all that was
\* received for it, which the trace itself no longer has.
FleetInv ==
  /\ now \in 0..MaxTime
  /\ shown \in [Vehicle -> [at : 0..MaxTime, heading : 0..1,
                            status : {"none", "seeded", "On_Delivery"},
                            kind : {"none", "ground", "fromId"}]]
  /\ feed \in Seq(Nat) /\ seq \in Nat /\ Len(feed) <= FeedLimit
  /\ FeedIsNewest
  /\ DOMAIN traces = Vehicle /\ DOMAIN received = Vehicle
  /\ \A v \in Vehicle :
       /\ traces[v] \in Seq(Nat) /\ Len(traces[v]) <= TraceCap
       /\ received[v] \in Seq(Frame)
       /\ Trimmed(traces[v], received[v], now)

LEMMA FleetInvHolds == FleetInv => FleetTypeOK /\ TraceShowsTheHour /\ TrimmedAtOnce /\ FeedIsNewest
<1> SUFFICES ASSUME FleetInv
             PROVE  FleetTypeOK /\ TraceShowsTheHour /\ TrimmedAtOnce /\ FeedIsNewest
  OBVIOUS
<1>1. now \in Nat /\ TraceCap \in Nat \ {0}
  BY FleetAssumption DEF FleetInv
<1>2. FleetTypeOK /\ FeedIsNewest
  BY DEF FleetInv, FleetTypeOK
<1>3. TrimmedAtOnce
  <2> SUFFICES ASSUME NEW v \in Vehicle, received[v] # <<>>, InTimeOrder(received[v])
               PROVE  traces[v] = Bounded(Times(received[v]), received[v][Len(received[v])][2])
    BY DEF TrimmedAtOnce
  <2>1. received[v] \in Seq(Frame) /\ Trimmed(traces[v], received[v], now)
    BY DEF FleetInv
  <2>2. QED
    BY <1>1, <2>1, TrimmedIsBounded
<1>4. TraceShowsTheHour
  <2> SUFFICES ASSUME NEW v \in Vehicle
               PROVE  /\ \A i, j \in DOMAIN PathTrace(v) : i < j => PathTrace(v)[i] <= PathTrace(v)[j]
                      /\ \A frame \in ToSet(LastOf(received[v], TraceCap)) :
                           InWindow(frame[1], now) /\ frame[1] <= now => frame[1] \in ToSet(PathTrace(v))
    BY DEF TraceShowsTheHour
  <2> DEFINE rec == received[v]
             n == Len(rec)
             a == IF n > TraceCap THEN n - TraceCap + 1 ELSE 1
  <2>1. rec \in Seq(Frame) /\ Trimmed(traces[v], rec, now) /\ traces[v] \in Seq(Nat)
    BY DEF FleetInv
  <2>2. /\ \A i, j \in DOMAIN PathTrace(v) : i < j => PathTrace(v)[i] <= PathTrace(v)[j]
        /\ \A i \in DOMAIN traces[v] : InWindow(traces[v][i], now) /\ traces[v][i] <= now
             => traces[v][i] \in ToSet(PathTrace(v))
    BY <1>1, <2>1, PathIsTheHour
  <2> HIDE DEF rec
  <2>3. n \in Nat /\ DOMAIN rec = 1..n /\ a \in 1..n + 1
    BY <1>1, <2>1
  <2>4. ASSUME NEW frame \in ToSet(LastOf(rec, TraceCap)), InWindow(frame[1], now), frame[1] <= now
        PROVE  frame[1] \in ToSet(PathTrace(v))
    <3>1. PICK j \in 1..n : frame = rec[j] /\ j + TraceCap > n
      <4>1. LastOf(rec, TraceCap) = SubSeq(rec, a, n)
        BY DEF LastOf
      <4>2. SubSeq(rec, a, n) = [i \in 1..(n - a + 1) |-> rec[i + a - 1]]
        BY <2>3
      <4>3. PICK i \in 1..(n - a + 1) : frame = rec[i + a - 1]
        BY <2>4, <4>1, <4>2 DEF ToSet
      <4>4. i + a - 1 \in 1..n /\ (i + a - 1) + TraceCap > n
        BY <1>1, <2>3
      <4>5. QED
        BY <4>3, <4>4
    <3>2. PICK K \in SUBSET DOMAIN rec :
            /\ traces[v] = SelectAt(Times(rec), K)
            /\ \A k \in DOMAIN rec : InWindow(rec[k][1], now) /\ k + TraceCap > n => k \in K
      BY <2>1 DEF Trimmed
    <3>3. j \in K
      BY <2>3, <2>4, <3>1, <3>2
    <3>4. /\ Times(rec) \in Seq(Nat) /\ K \in SUBSET DOMAIN Times(rec)
          /\ Times(rec)[j] = rec[j][1]
      BY <2>1, <2>3, TimesFacts
    <3>5. /\ DOMAIN SelectAt(Times(rec), K) = 1..Cardinality(K)
          /\ \A x \in K : \E i \in 1..Cardinality(K) : InOrder(K)[i] = x
          /\ \A i \in 1..Cardinality(K) : SelectAt(Times(rec), K)[i] = Times(rec)[InOrder(K)[i]]
      <4> DEFINE u == Times(rec)
      <4>1. u \in Seq(Nat) /\ K \in SUBSET DOMAIN u
        BY <3>4
      <4> HIDE DEF u
      <4>2. QED
        BY <4>1, SelectAtIsSelection DEF u
    <3>6. PICK i \in 1..Cardinality(K) : InOrder(K)[i] = j
      BY <3>3, <3>5
    <3>7. i \in DOMAIN traces[v] /\ traces[v][i] = frame[1]
      BY <3>1, <3>2, <3>4, <3>5, <3>6
    <3>8. QED
      BY <2>2, <2>4, <3>7
  <2>5. QED
    BY <2>2, <2>4 DEF rec
<1>5. QED
  BY <1>2, <1>3, <1>4

LEMMA FleetInvInit == FleetInit => FleetInv
<1> SUFFICES ASSUME FleetInit PROVE FleetInv
  OBVIOUS
<1> USE FleetAssumption
<1>1. /\ now = 0 /\ feed = <<>> /\ seq = 0
      /\ shown = [v \in Vehicle |-> IF v \in Seeded THEN Seed ELSE NoMarker]
      /\ traces = [v \in Vehicle |-> IF v \in Seeded THEN <<0>> ELSE <<>>]
      /\ received = [v \in Vehicle |-> IF v \in Seeded THEN <<<<0, 0>>>> ELSE <<>>]
  BY DEF FleetInit
<1>2. /\ Seed \in [at : 0..MaxTime, heading : 0..1, status : {"none", "seeded", "On_Delivery"},
                   kind : {"none", "ground", "fromId"}]
      /\ NoMarker \in [at : 0..MaxTime, heading : 0..1, status : {"none", "seeded", "On_Delivery"},
                       kind : {"none", "ground", "fromId"}]
  BY DEF Seed, NoMarker
<1>3. Trimmed(<<>>, <<>>, 0)
  <2>1. SelectAt(Times(<<>>), {}) = <<>>
    BY SelectNone
  <2>2. DOMAIN <<>> = {}
    OBVIOUS
  <2>3. QED
    BY <2>1, <2>2 DEF Trimmed
<1>4. Trimmed(<<0>>, <<<<0, 0>>>>, 0)
  <2> DEFINE rec == <<<<0, 0>>>>
  <2>1. rec \in Seq(Frame) /\ Len(rec) = 1 /\ DOMAIN rec = {1} /\ rec[1] = <<0, 0>>
    BY DEF Frame
  <2>2. Times(rec) = <<0>>
    BY DEF Times
  <2>3. SelectAt(Times(rec), {1}) = <<0>>
    <3>1. <<0>> \in Seq(Nat) /\ DOMAIN <<0>> = {1}
      OBVIOUS
    <3>2. SelectAt(<<0>>, DOMAIN <<0>>) = <<0>>
      BY <3>1, SelectAll
    <3>3. QED
      BY <2>2, <3>1, <3>2
  <2>4. InWindow(0, 0)
    BY DEF InWindow
  <2>5. 1 + TraceCap > 1
    OBVIOUS
  <2> HIDE DEF rec
  <2>6. Trimmed(<<0>>, rec, 0)
    <3>1. rec[1][1] = 0 /\ rec[1][2] = 0
      BY <2>1
    <3>2. {j \in DOMAIN rec : InWindow(rec[j][1], rec[Len(rec)][2]) /\ j + TraceCap > Len(rec)} = {1}
      BY <2>1, <2>4, <2>5, <3>1
    <3>3. {1} \in SUBSET DOMAIN rec
      BY <2>1
    <3>4. QED
      BY <2>1, <2>3, <3>2, <3>3 DEF Trimmed
  <2>7. QED
    BY <2>6 DEF rec
<1>5. FeedIsNewest
  BY <1>1 DEF FeedIsNewest
<1>6. ASSUME NEW v \in Vehicle
      PROVE  /\ traces[v] \in Seq(Nat) /\ Len(traces[v]) <= TraceCap
             /\ received[v] \in Seq(Frame)
             /\ Trimmed(traces[v], received[v], now)
  <2>1. CASE v \in Seeded
    BY <1>1, <1>4, <2>1 DEF Frame
  <2>2. CASE v \notin Seeded
    BY <1>1, <1>3, <2>2
  <2>3. QED
    BY <2>1, <2>2
<1>7. /\ 0 \in 0..MaxTime /\ <<>> \in Seq(Nat) /\ Len(<<>>) <= FeedLimit /\ 0 \in Nat
  OBVIOUS
<1>8. QED
  BY <1>1, <1>2, <1>5, <1>6, <1>7 DEF FleetInv

LEMMA FleetInvStep == FleetInv /\ [FleetNext]_fleetVars => FleetInv'
<1> SUFFICES ASSUME FleetInv, [FleetNext]_fleetVars PROVE FleetInv'
  OBVIOUS
<1> USE FleetAssumption
<1>1. ASSUME NEW v \in Vehicle, NEW t \in 0..MaxTime, NEW heading \in 0..1,
             OnPosition(v, t, heading)
      PROVE  FleetInv'
  <2>1. /\ shown' = [shown EXCEPT ![v] = Merge(@, t, heading)]
        /\ traces' = [traces EXCEPT ![v] = Bounded(Append(@, t), now)]
        /\ received' = [received EXCEPT ![v] = Append(@, <<t, now>>)]
        /\ now' = now /\ feed' = feed /\ seq' = seq
    BY <1>1 DEF OnPosition
  <2>2. shown' \in [Vehicle -> [at : 0..MaxTime, heading : 0..1,
                                status : {"none", "seeded", "On_Delivery"},
                                kind : {"none", "ground", "fromId"}]]
    BY <2>1 DEF FleetInv, Merge
  <2>3. now \in Nat /\ t \in Nat
    BY DEF FleetInv
  <2>4. ASSUME NEW w \in Vehicle
        PROVE  /\ traces'[w] \in Seq(Nat) /\ Len(traces'[w]) <= TraceCap
               /\ received'[w] \in Seq(Frame)
               /\ Trimmed(traces'[w], received'[w], now')
    <3>1. /\ traces[w] \in Seq(Nat) /\ Len(traces[w]) <= TraceCap
          /\ received[w] \in Seq(Frame) /\ Trimmed(traces[w], received[w], now)
          /\ DOMAIN traces = Vehicle /\ DOMAIN received = Vehicle
      BY DEF FleetInv
    <3>2. CASE w = v
      <4>1. traces'[w] = Bounded(Append(traces[w], t), now) /\ received'[w] = Append(received[w], <<t, now>>)
        BY <2>1, <3>1, <3>2
      <4>2. received'[w] \in Seq(Frame)
        BY <2>3, <3>1, <4>1 DEF Frame
      <4>3. QED
        BY <2>1, <2>3, <3>1, <4>1, <4>2, FrameArrives
    <3>3. CASE w # v
      <4>1. traces'[w] = traces[w] /\ received'[w] = received[w]
        BY <2>1, <3>1, <3>3
      <4>2. QED
        BY <2>1, <3>1, <4>1
    <3>4. QED
      BY <3>2, <3>3
  <2>5. DOMAIN traces' = Vehicle /\ DOMAIN received' = Vehicle
    BY <2>1 DEF FleetInv
  <2>6. FeedIsNewest'
    BY <2>1 DEF FleetInv, FeedIsNewest
  <2>7. QED
    BY <2>1, <2>2, <2>4, <2>5, <2>6 DEF FleetInv
<1>2. CASE OnZoneEvent
  <2>1. /\ seq' = seq + 1 /\ feed' = FirstOf(<<seq'>> \o feed, FeedLimit)
        /\ now' = now /\ shown' = shown /\ traces' = traces /\ received' = received
    BY <1>2 DEF OnZoneEvent
  <2> DEFINE all == <<seq + 1>> \o feed
             n == IF Len(all) > FeedLimit THEN FeedLimit ELSE Len(all)
  <2>2. /\ feed \in Seq(Nat) /\ seq \in Nat /\ Len(feed) <= FeedLimit
        /\ \A i \in 1..FeedLimit : i <= seq => i \in DOMAIN feed /\ feed[i] = seq - i + 1
    BY DEF FleetInv, FeedIsNewest
  <2>3. /\ all \in Seq(Nat) /\ Len(all) = Len(feed) + 1 /\ Len(feed) \in Nat
        /\ all[1] = seq + 1
        /\ \A i \in 2..Len(feed) + 1 : all[i] = feed[i - 1]
    BY <2>2
  <2>4. feed' = SubSeq(all, 1, n)
    BY <2>1 DEF FirstOf
  <2> HIDE DEF all
  <2>5. n \in Nat /\ n <= FeedLimit /\ n <= Len(all)
    BY <2>3
  <2> HIDE DEF n
  <2>6. feed' \in Seq(Nat) /\ Len(feed') = n /\ \A i \in 1..n : feed'[i] = all[i]
    BY <2>3, <2>4, <2>5
  <2>7. ASSUME NEW i \in 1..FeedLimit, i <= seq + 1
        PROVE  i \in DOMAIN feed' /\ feed'[i] = (seq + 1) - i + 1
    <3>1. i \in 1..Len(feed) + 1 /\ all[i] = (seq + 1) - i + 1
      <4>1. CASE i = 1
        BY <2>2, <2>3, <4>1
      <4>2. CASE i # 1
        <5>1. i - 1 \in 1..FeedLimit /\ i - 1 <= seq
          BY <2>2, <2>7, <4>2
        <5>2. i - 1 \in 1..Len(feed) /\ feed[i - 1] = seq - (i - 1) + 1
          BY <2>2, <5>1
        <5>3. QED
          BY <2>2, <2>3, <5>2
      <4>3. QED
        BY <4>1, <4>2
    <3>2. i \in 1..n
      BY <2>3, <2>5, <3>1 DEF n
    <3>3. QED
      BY <2>6, <3>1, <3>2
  <2>8. FeedIsNewest'
    BY <2>1, <2>7 DEF FeedIsNewest
  <2>9. feed' \in Seq(Nat) /\ seq' \in Nat /\ Len(feed') <= FeedLimit
    BY <2>1, <2>2, <2>5, <2>6
  <2>10. QED
    BY <2>1, <2>8, <2>9 DEF FleetInv
<1>3. CASE Tick
  <2>1. /\ now < MaxTime /\ now' = now + 1 /\ shown' = shown /\ traces' = traces /\ feed' = feed
        /\ received' = received /\ seq' = seq
    BY <1>3 DEF Tick
  <2>2. now' \in 0..MaxTime /\ now \in Nat
    BY <2>1 DEF FleetInv
  <2>3. \A v \in Vehicle : Trimmed(traces[v], received[v], now + 1)
    BY <2>2, TimePasses DEF FleetInv
  <2>4. FeedIsNewest'
    BY <2>1 DEF FleetInv, FeedIsNewest
  <2>5. QED
    BY <2>1, <2>2, <2>3, <2>4 DEF FleetInv
<1>4. CASE UNCHANGED fleetVars
  BY <1>4 DEF fleetVars, FleetInv, FeedIsNewest
<1>5. QED
  BY <1>1, <1>2, <1>3, <1>4 DEF FleetNext

\* What is known of a vehicle is not forgotten by a later frame.
LEMMA KnownStays == FleetInv /\ [FleetNext]_fleetVars =>
  [\A v \in Vehicle : shown[v] # NoMarker =>
       /\ shown[v].heading # 0 => shown'[v].heading # 0
       /\ shown'[v].status = shown[v].status
       /\ shown'[v].kind = shown[v].kind]_fleetVars
<1> SUFFICES ASSUME FleetInv, FleetNext, NEW v \in Vehicle, shown[v] # NoMarker
             PROVE  /\ shown[v].heading # 0 => shown'[v].heading # 0
                    /\ shown'[v].status = shown[v].status
                    /\ shown'[v].kind = shown[v].kind
  OBVIOUS
<1>1. ASSUME NEW w \in Vehicle, NEW t \in 0..MaxTime, NEW heading \in 0..1,
             OnPosition(w, t, heading)
      PROVE  /\ shown[v].heading # 0 => shown'[v].heading # 0
             /\ shown'[v].status = shown[v].status
             /\ shown'[v].kind = shown[v].kind
  <2>1. shown' = [shown EXCEPT ![w] = Merge(@, t, heading)] /\ DOMAIN shown = Vehicle
    BY <1>1 DEF OnPosition, FleetInv
  <2>2. CASE w = v
    <3>1. shown'[v] = Merge(shown[v], t, heading)
      BY <2>1, <2>2
    <3>2. QED
      BY <3>1 DEF Merge
  <2>3. CASE w # v
    <3>1. shown'[v] = shown[v]
      BY <2>1, <2>3
    <3>2. QED
      BY <3>1
  <2>4. QED
    BY <2>2, <2>3
<1>2. CASE OnZoneEvent
  BY <1>2 DEF OnZoneEvent
<1>3. CASE Tick
  BY <1>3 DEF Tick
<1>4. QED
  BY <1>1, <1>2, <1>3 DEF FleetNext

\* What the dashboard shows is what the frames have said, recent and complete, for
\* any number of vehicles and frames, any window and any limits.
THEOREM FleetCorrect == FleetSpec => FleetShowsTheFrames
<1>1. FleetSpec => []FleetInv
  BY FleetInvInit, FleetInvStep, PTL DEF FleetSpec
<1>2. FleetInv /\ [FleetNext]_fleetVars =>
        [\A v \in Vehicle : shown[v] # NoMarker =>
           /\ shown[v].heading # 0 => shown'[v].heading # 0
           /\ shown'[v].status = shown[v].status
           /\ shown'[v].kind = shown[v].kind]_fleetVars
  BY KnownStays
<1>3. FleetSpec => KnownStaysKnown
  BY <1>1, <1>2, PTL DEF FleetSpec, KnownStaysKnown
<1>4. FleetSpec => [](FleetTypeOK /\ TraceShowsTheHour /\ TrimmedAtOnce /\ FeedIsNewest)
  BY <1>1, FleetInvHolds, PTL
<1>5. QED
  BY <1>3, <1>4 DEF FleetShowsTheFrames

=============================================================================
