--------------------------- MODULE GeofenceProofs ---------------------------
(***************************************************************************)
(* Proofs about Geofence for any vehicles, pings and zones.  The store     *)
(* says what the newest event of a vehicle and a zone said, however calls  *)
(* overlap.  A call that runs without another of its vehicle keeps the     *)
(* prior membership it read true of the zones it has not yet changed, so   *)
(* its events alternate with what went before.                             *)
(***************************************************************************)
EXTENDS Geofence, SequenceTheorems, TLAPS

\* A call that never met another of its vehicle is alone now.
OneAtATime ==
  \A p, q \in Ping :
    /\ call[p].pc \in Running /\ call[q].pc \in Running
    /\ call[p].vehicle = call[q].vehicle
    /\ p \notin together
    => p = q

\* Only a call that has read the prior membership holds anything.
HoldsLater ==
  \A p \in Ping :
    call[p].pc \notin {"changing", "publishing"} => call[p].changed = {} /\ call[p].events = {}

\* What a call read is still true of the zones it has not changed, and the
\* ones it has are as its ping says.
ReadStillTrue ==
  \A p \in Ping \ together, z \in Zone :
    call[p].pc = "changing" =>
      (z \in inside[call[p].vehicle]
         <=> z \in IF z \in call[p].changed THEN call[p].current ELSE call[p].prior)

\* The same event: one place among the events of a vehicle and a zone.
Same(e, f) == e.vehicle = f.vehicle /\ e.zone = f.zone /\ e.n = f.n

\* An event is in one slice, once, until it is published.
HeldOnce ==
  /\ \A p, q \in Ping : \A e \in call[p].events, f \in call[q].events :
       Same(e, f) => p = q /\ e = f
  /\ \A p \in Ping : \A e \in call[p].events :
       \A i \in 1..Len(published) : ~ Same(published[i], e)

\* What waits to be published of a vehicle whose calls never met is the newest
\* of its zone.
PendingIsNewest ==
  \A p \in Ping : \A e \in call[p].events :
    call[p].vehicle \notin Overlapped => e.n = Len(history[e.vehicle][e.zone])

\* What is published was generated.
PublishedIsOld ==
  \A i \in 1..Len(published) :
    published[i].n <= Len(history[published[i].vehicle][published[i].zone])

\* What a call can hold: the first conjuncts of TypeOK.
ShapeOK ==
  /\ catalog \subseteq Zone
  /\ inside \in [Vehicle -> SUBSET Zone]
  /\ call \in [Ping -> EngineCall]
  /\ history \in [Vehicle -> [Zone -> Seq({"Enter", "Exit"})]]
  /\ published \in Seq(ZoneEvent)
  /\ together \subseteq Ping
  /\ forgotten \subseteq Vehicle

\* Every event in a slice has been recorded: the rest of TypeOK.
SliceOK ==
  \A p \in Ping : \A e \in call[p].events :
    /\ e.vehicle = call[p].vehicle
    /\ e.zone \in call[p].changed
    /\ e.n <= Len(history[e.vehicle][e.zone])

LEMMA TypeParts == TypeOK <=> ShapeOK /\ SliceOK
  BY DEF TypeOK, ShapeOK, SliceOK

GeofenceInv ==
  /\ OneAtATime /\ HoldsLater /\ ReadStillTrue
  /\ HeldOnce /\ PendingIsNewest /\ PublishedIsOld /\ StoreFollows
  /\ Alternates /\ MembershipIsThePings /\ PublishedInOrder

-----------------------------------------------------------------------------
(***************************************************************************)
(* What each step does.                                                    *)
(***************************************************************************)
\* The calls of the other pings, and the vehicle of this one, stay as they are.
OthersStay(p) ==
  /\ \A q \in Ping \ {p} : call'[q] = call[q]
  /\ call'[p].vehicle = call[p].vehicle

LEMMA EvaluateStep ==
  ASSUME ShapeOK, NEW p \in Ping, Evaluate(p)
  PROVE  /\ ShapeOK' /\ OthersStay(p)
         /\ UNCHANGED <<inside, history, published, forgotten>>
         /\ call[p].pc = "new" /\ call'[p].pc \in {"evaluated", "failed"}
         /\ call'[p].changed = call[p].changed /\ call'[p].events = call[p].events
         /\ \/ together' = together \cup Company(p) \cup {p}
            \/ together' = together /\ (call'[p].pc = "failed" \/ Company(p) = {})
  <1> USE DEF OthersStay, EngineCall
  <1>0. Company(p) \subseteq Ping
    BY DEF Company
  <1>1. CASE call' = [call EXCEPT ![p].pc = "failed"] /\ together' = together
    <2>1. /\ call' \in [Ping -> EngineCall] /\ OthersStay(p) /\ call'[p].pc = "failed"
          /\ call'[p].changed = call[p].changed /\ call'[p].events = call[p].events
      BY ZenonT(60), <1>1 DEF ShapeOK
    <2> QED  BY <1>1, <2>1 DEF ShapeOK, Evaluate
  <1>2. ASSUME NEW zones \in SUBSET catalog,
               call' = [call EXCEPT ![p].pc = "evaluated", ![p].current = zones],
               together' = IF Company(p) = {} THEN together
                           ELSE together \cup Company(p) \cup {p}
        PROVE  /\ ShapeOK' /\ OthersStay(p) /\ call'[p].pc = "evaluated"
               /\ call'[p].changed = call[p].changed /\ call'[p].events = call[p].events
    <2>1. zones \in SUBSET Zone
      BY DEF ShapeOK
    <2>2. call' = [call EXCEPT ![p] = [[@ EXCEPT !.pc = "evaluated"] EXCEPT !.current = zones]]
      BY <1>2 DEF ShapeOK
    <2>3. /\ call' \in [Ping -> EngineCall] /\ OthersStay(p) /\ call'[p].pc = "evaluated"
          /\ call'[p].changed = call[p].changed /\ call'[p].events = call[p].events
      BY <2>1, <2>2 DEF ShapeOK, Running
    <2>4. together' \subseteq Ping
      BY <1>0, <1>2 DEF ShapeOK
    <2> QED  BY <2>3, <2>4 DEF ShapeOK, Evaluate
  <1>3. \/ /\ call' = [call EXCEPT ![p].pc = "failed"] /\ together' = together
        \/ \E zones \in SUBSET catalog :
             /\ call' = [call EXCEPT ![p].pc = "evaluated", ![p].current = zones]
             /\ together' = IF Company(p) = {} THEN together
                            ELSE together \cup Company(p) \cup {p}
    BY DEF Evaluate
  <1>4. call[p].pc = "new" /\ UNCHANGED <<inside, history, published, forgotten>>
    BY DEF Evaluate
  <1>5. CASE call' = [call EXCEPT ![p].pc = "failed"] /\ together' = together
    BY <1>1, <1>4, <1>5
  <1>6. ASSUME NEW zones \in SUBSET catalog,
               call' = [call EXCEPT ![p].pc = "evaluated", ![p].current = zones],
               together' = IF Company(p) = {} THEN together
                           ELSE together \cup Company(p) \cup {p}
        PROVE  \/ together' = together \cup Company(p) \cup {p}
               \/ together' = together /\ Company(p) = {}
    BY <1>6
  <1> QED  BY <1>2, <1>3, <1>4, <1>5, <1>6

LEMMA ReadPriorStep ==
  ASSUME ShapeOK, NEW p \in Ping, ReadPrior(p)
  PROVE  /\ ShapeOK' /\ OthersStay(p)
         /\ UNCHANGED <<inside, history, published, together, forgotten>>
         /\ call[p].pc = "evaluated" /\ call'[p].pc = "changing"
         /\ call'[p].prior = inside[call[p].vehicle]
         /\ call'[p].changed = call[p].changed /\ call'[p].events = call[p].events
  BY ZenonT(60) DEF ShapeOK, ReadPrior, OthersStay, Running, EngineCall

\* Enter and Exit record one event and one change of the store.
Change(p, z, type) ==
  /\ call[p].pc = "changing"
  /\ inside' = [inside EXCEPT ![call[p].vehicle] =
                  IF type = "Enter" THEN @ \cup {z} ELSE @ \ {z}]
  /\ z \in IF type = "Enter" THEN Enters(p) ELSE Exits(p)
  /\ \E label \in BOOLEAN : Generate(p, z, type, label)
  /\ UNCHANGED <<catalog, published, together, forgotten>>

\* Event e of zone z joins the slice of call p.
Holding(p, z, e) ==
  call' = [call EXCEPT ![p].events = @ \cup {e}, ![p].changed = @ \cup {z}]

LEMMA EnterIsChange ==
  ASSUME NEW p \in Ping, NEW z \in Zone, Enter(p, z)
  PROVE  Change(p, z, "Enter")
  <1>1. (z \in Labelled) \in BOOLEAN
    OBVIOUS
  <1>2. \E label \in BOOLEAN : Generate(p, z, "Enter", label)
    BY <1>1 DEF Enter
  <1> QED  BY <1>2 DEF Enter, Change

LEMMA ExitIsChange ==
  ASSUME NEW p \in Ping, NEW z \in Zone, Exit(p, z)
  PROVE  Change(p, z, "Exit")
  <1>1. PICK found \in BOOLEAN : Generate(p, z, "Exit", found /\ z \in catalog \cap Labelled)
    BY DEF Exit
  <1>2. (found /\ z \in catalog \cap Labelled) \in BOOLEAN
    OBVIOUS
  <1>3. \E label \in BOOLEAN : Generate(p, z, "Exit", label)
    BY <1>1, <1>2, Zenon
  <1> QED  BY <1>3 DEF Exit, Change

LEMMA ChangeEvent ==
  ASSUME ShapeOK, NEW p \in Ping, NEW z \in Zone, NEW type \in {"Enter", "Exit"},
         Change(p, z, type)
  PROVE  \E e \in ZoneEvent :
           /\ e.vehicle = call[p].vehicle /\ e.zone = z
           /\ e.n = Len(history[call[p].vehicle][z]) + 1
           /\ Holding(p, z, e)
  <1>1. PICK label \in BOOLEAN : Generate(p, z, type, label)
    BY DEF Change
  <1> DEFINE v == call[p].vehicle
             e == [vehicle |-> v, zone |-> z, type |-> type, label |-> label,
                   n |-> Len(history[v][z]) + 1]
  <1>2. v \in Vehicle /\ history[v][z] \in Seq({"Enter", "Exit"})
    BY DEF ShapeOK, EngineCall
  <1>3. e \in ZoneEvent
    BY <1>2 DEF ZoneEvent
  <1>4. Holding(p, z, e)
    BY <1>1 DEF Generate, Holding
  <1> QED  BY <1>3, <1>4

LEMMA ChangeHistory ==
  ASSUME ShapeOK, NEW p \in Ping, NEW z \in Zone, NEW type \in {"Enter", "Exit"},
         Change(p, z, type)
  PROVE  /\ history' \in [Vehicle -> [Zone -> Seq({"Enter", "Exit"})]]
         /\ \A w \in Vehicle, y \in Zone :
              /\ Len(history[w][y]) \in Nat
              /\ history'[w][y] = IF w = call[p].vehicle /\ y = z
                                  THEN Append(history[w][y], type) ELSE history[w][y]
              /\ Len(history'[w][y]) = IF w = call[p].vehicle /\ y = z
                                       THEN Len(history[w][y]) + 1 ELSE Len(history[w][y])
  <1> DEFINE v == call[p].vehicle
  <1>1. v \in Vehicle /\ \A w \in Vehicle, y \in Zone : history[w][y] \in Seq({"Enter", "Exit"})
    BY DEF ShapeOK, EngineCall
  <1>2. history' = [history EXCEPT ![v][z] = Append(@, type)]
    BY DEF Change, Generate
  <1>3. history' \in [Vehicle -> [Zone -> Seq({"Enter", "Exit"})]]
    BY <1>1, <1>2 DEF ShapeOK
  <1>4. ASSUME NEW w \in Vehicle, NEW y \in Zone
        PROVE  history'[w][y] = IF w = v /\ y = z
                                THEN Append(history[w][y], type) ELSE history[w][y]
    BY <1>1, <1>2 DEF ShapeOK
  <1>5. ASSUME NEW w \in Vehicle, NEW y \in Zone
        PROVE  /\ Len(history[w][y]) \in Nat
               /\ Len(history'[w][y]) = IF w = v /\ y = z
                                        THEN Len(history[w][y]) + 1 ELSE Len(history[w][y])
    <2>1. history[w][y] \in Seq({"Enter", "Exit"})
      BY <1>1
    <2>2. Len(history[w][y]) \in Nat /\ Len(Append(history[w][y], type)) = Len(history[w][y]) + 1
      BY <2>1
    <2> QED  BY <1>4, <2>2
  <1> QED  BY <1>3, <1>4, <1>5

LEMMA ChangeStep ==
  ASSUME ShapeOK, NEW p \in Ping, NEW z \in Zone, NEW type \in {"Enter", "Exit"},
         Change(p, z, type)
  PROVE  /\ ShapeOK' /\ OthersStay(p)
         /\ UNCHANGED <<published, together, forgotten>>
         /\ call[p].pc = "changing" /\ call'[p].pc = "changing"
         /\ call'[p].current = call[p].current /\ call'[p].prior = call[p].prior
         /\ call'[p].changed = call[p].changed \cup {z} /\ z \notin call[p].changed
         /\ z \in call[p].current <=> type = "Enter"
         /\ z \in call[p].prior <=> type = "Exit"
         /\ \A w \in Vehicle, y \in Zone : y \in inside'[w] <=>
              IF w = call[p].vehicle /\ y = z THEN type = "Enter" ELSE y \in inside[w]
  <1>1. PICK e \in ZoneEvent : Holding(p, z, e)
    BY ChangeEvent
  <1>2. /\ call' \in [Ping -> EngineCall]
        /\ OthersStay(p)
        /\ call'[p].pc = call[p].pc
        /\ call'[p].current = call[p].current /\ call'[p].prior = call[p].prior
        /\ call'[p].changed = call[p].changed \cup {z}
    BY <1>1 DEF Holding, ShapeOK, OthersStay, EngineCall
  <1>3. /\ inside' \in [Vehicle -> SUBSET Zone]
        /\ \A w \in Vehicle, y \in Zone : y \in inside'[w] <=>
             IF w = call[p].vehicle /\ y = z THEN type = "Enter" ELSE y \in inside[w]
    BY DEF ShapeOK, Change, EngineCall
  <1>4. ShapeOK'
    <2>1. history' \in [Vehicle -> [Zone -> Seq({"Enter", "Exit"})]]
      BY ChangeHistory
    <2> QED  BY <1>2, <1>3, <2>1 DEF ShapeOK, Change
  <1>5. /\ z \notin call[p].changed
        /\ z \in call[p].current <=> type = "Enter"
        /\ z \in call[p].prior <=> type = "Exit"
    BY DEF Change, Enters, Exits
  <1> QED  BY <1>2, <1>3, <1>4, <1>5 DEF Change

LEMMA ChangeSlice ==
  ASSUME ShapeOK, NEW p \in Ping, NEW z \in Zone, NEW type \in {"Enter", "Exit"},
         Change(p, z, type)
  PROVE  \E e \in ZoneEvent :
           /\ e.vehicle = call[p].vehicle /\ e.zone = z
           /\ e.n = Len(history'[call[p].vehicle][z])
           /\ call'[p].events = call[p].events \cup {e}
  <1>1. PICK e \in ZoneEvent :
          /\ e.vehicle = call[p].vehicle /\ e.zone = z
          /\ e.n = Len(history[call[p].vehicle][z]) + 1
          /\ Holding(p, z, e)
    BY ChangeEvent
  <1>2. call'[p].events = call[p].events \cup {e}
    BY <1>1 DEF Holding, ShapeOK, EngineCall
  <1>3. e.n = Len(history'[call[p].vehicle][z])
    BY <1>1, ChangeHistory DEF ShapeOK, EngineCall
  <1> QED  BY <1>1, <1>2, <1>3

LEMMA StartPublishStep ==
  ASSUME ShapeOK, NEW p \in Ping, StartPublish(p)
  PROVE  /\ ShapeOK' /\ OthersStay(p)
         /\ UNCHANGED <<inside, history, published, together, forgotten>>
         /\ call[p].pc = "changing" /\ call'[p].pc = "publishing"
         /\ call'[p].current = call[p].current
         /\ call'[p].changed = call[p].changed /\ call'[p].events = call[p].events
         /\ Enters(p) = {} /\ Exits(p) = {}
  BY DEF ShapeOK, StartPublish, OthersStay, Running, EngineCall

LEMMA PublishStep ==
  ASSUME ShapeOK, NEW p \in Ping, NEW ok \in BOOLEAN, Publish(p, ok)
  PROVE  /\ ShapeOK' /\ OthersStay(p)
         /\ UNCHANGED <<inside, history, together, forgotten>>
         /\ call[p].pc = "publishing" /\ call'[p].pc = "publishing"
         /\ call'[p].current = call[p].current /\ call'[p].changed = call[p].changed
         /\ \E e \in call[p].events :
              /\ call'[p].events = call[p].events \ {e}
              /\ published' \in {published, Append(published, e)}
  <1>1. PICK e \in call[p].events :
          /\ published' = IF ok THEN Append(published, e) ELSE published
          /\ call' = [call EXCEPT ![p].events = @ \ {e}]
    BY DEF Publish
  <1>2. e \in ZoneEvent
    BY DEF ShapeOK, EngineCall
  <1>3. published' \in Seq(ZoneEvent)
    BY <1>1, <1>2 DEF ShapeOK
  <1>4. /\ call' \in [Ping -> EngineCall]
        /\ OthersStay(p)
        /\ call'[p].pc = call[p].pc
        /\ call'[p].current = call[p].current /\ call'[p].changed = call[p].changed
        /\ call'[p].events = call[p].events \ {e}
    BY <1>1 DEF ShapeOK, OthersStay, EngineCall
  <1> QED  BY <1>1, <1>3, <1>4 DEF ShapeOK, Publish

LEMMA OverIsEmpty ==
  ASSUME ShapeOK, NEW p \in Ping, NEW pc \in {"done", "stopped"}
  PROVE  /\ Over(p, pc) \in EngineCall /\ Over(p, pc).pc = pc
         /\ Over(p, pc).vehicle = call[p].vehicle
         /\ Over(p, pc).changed = {} /\ Over(p, pc).events = {}
  BY DEF ShapeOK, Over, NewCall, EngineCall

LEMMA ReturnStep ==
  ASSUME ShapeOK, NEW p \in Ping, Return(p)
  PROVE  /\ ShapeOK' /\ OthersStay(p)
         /\ UNCHANGED <<inside, history, published, together, forgotten>>
         /\ call[p].pc = "publishing" /\ call'[p].pc = "done"
         /\ call'[p].changed = {} /\ call'[p].events = {}
         /\ call[p].events = {}
  <1>1. call' = [call EXCEPT ![p] = Over(p, "done")]
    BY DEF Return
  <1>2. /\ Over(p, "done") \in EngineCall /\ Over(p, "done").pc = "done"
        /\ Over(p, "done").vehicle = call[p].vehicle
        /\ Over(p, "done").changed = {} /\ Over(p, "done").events = {}
    BY OverIsEmpty
  <1>3. call' \in [Ping -> EngineCall] /\ OthersStay(p) /\ call'[p] = Over(p, "done")
    BY <1>1, <1>2 DEF ShapeOK, OthersStay
  <1> QED  BY <1>2, <1>3 DEF ShapeOK, Return

LEMMA RestartStep ==
  ASSUME ShapeOK, Restart
  PROVE  /\ ShapeOK' /\ UNCHANGED <<history, published, together>>
         /\ \/ UNCHANGED <<inside, forgotten>>
            \/ /\ \A v \in Vehicle : inside'[v] = {}
               /\ forgotten' = forgotten \cup {v \in Vehicle : inside[v] # {}}
         /\ \A p \in Ping :
              /\ call'[p].pc \notin Running
              /\ call'[p].vehicle = call[p].vehicle
              /\ call'[p] = call[p] \/ (call'[p].changed = {} /\ call'[p].events = {})
  <1>1. call' = [p \in Ping |-> IF call[p].pc \in Running THEN Over(p, "stopped") ELSE call[p]]
    BY DEF Restart
  <1>2. \A p \in Ping :
          /\ Over(p, "stopped") \in EngineCall /\ Over(p, "stopped").pc = "stopped"
          /\ Over(p, "stopped").vehicle = call[p].vehicle
          /\ Over(p, "stopped").changed = {} /\ Over(p, "stopped").events = {}
    BY OverIsEmpty
  <1>3. call' \in [Ping -> EngineCall]
    BY <1>1, <1>2 DEF ShapeOK
  <1>4. \A p \in Ping :
          /\ call'[p].pc \notin Running
          /\ call'[p].vehicle = call[p].vehicle
          /\ call'[p] = call[p] \/ (call'[p].changed = {} /\ call'[p].events = {})
    <2>1. ASSUME NEW p \in Ping, call[p].pc \in Running
          PROVE  /\ call'[p].pc \notin Running /\ call'[p].vehicle = call[p].vehicle
                 /\ call'[p].changed = {} /\ call'[p].events = {}
      <3>1. call'[p] = Over(p, "stopped")
        BY <1>1, <2>1
      <3> QED  BY <1>2, <3>1 DEF Running
    <2>2. ASSUME NEW p \in Ping, call[p].pc \notin Running
          PROVE  /\ call'[p].pc \notin Running /\ call'[p].vehicle = call[p].vehicle
                 /\ call'[p] = call[p]
      <3>1. call'[p] = call[p]
        BY <1>1, <2>2
      <3> QED  BY <2>2, <3>1
    <2>3. ASSUME NEW p \in Ping
          PROVE  /\ call'[p].pc \notin Running
                 /\ call'[p].vehicle = call[p].vehicle
                 /\ call'[p] = call[p] \/ (call'[p].changed = {} /\ call'[p].events = {})
      BY <2>1, <2>2
    <2> QED  BY <2>3
  <1>5. /\ inside' \in [Vehicle -> SUBSET Zone] /\ forgotten' \subseteq Vehicle
        /\ \/ UNCHANGED <<inside, forgotten>>
           \/ /\ \A v \in Vehicle : inside'[v] = {}
              /\ forgotten' = forgotten \cup {v \in Vehicle : inside[v] # {}}
    BY DEF ShapeOK, Restart
  <1> QED  BY <1>3, <1>4, <1>5 DEF ShapeOK, Restart

-----------------------------------------------------------------------------
(***************************************************************************)
(* The invariant, action by action.                                        *)
(***************************************************************************)
LEMMA SliceStep == TypeOK /\ [Next]_vars => TypeOK'
  <1> SUFFICES ASSUME ShapeOK, SliceOK, [Next]_vars PROVE ShapeOK' /\ SliceOK'
    BY TypeParts DEF TypeOK, ShapeOK, SliceOK
  <1>1. CASE UNCHANGED vars
    BY <1>1 DEF vars, ShapeOK, SliceOK
  <1>2. ASSUME NEW z \in Zone, CreateZone(z) PROVE ShapeOK' /\ SliceOK'
    BY <1>2 DEF CreateZone, ShapeOK, SliceOK
  <1>3. ASSUME NEW p \in Ping, Evaluate(p) PROVE ShapeOK' /\ SliceOK'
    BY <1>3, EvaluateStep DEF SliceOK, OthersStay
  <1>4. ASSUME NEW p \in Ping, ReadPrior(p) PROVE ShapeOK' /\ SliceOK'
    BY <1>4, ReadPriorStep DEF SliceOK, OthersStay
  <1>5. ASSUME NEW p \in Ping, NEW z \in Zone, NEW type \in {"Enter", "Exit"},
               Change(p, z, type)
        PROVE  ShapeOK' /\ SliceOK'
    <2>1. PICK e \in ZoneEvent :
            /\ e.vehicle = call[p].vehicle /\ e.zone = z
            /\ e.n = Len(history'[call[p].vehicle][z])
            /\ call'[p].events = call[p].events \cup {e}
      BY <1>5, ChangeSlice
    <2>2. /\ \A w \in Vehicle, y \in Zone :
              Len(history[w][y]) \in Nat /\ Len(history[w][y]) <= Len(history'[w][y])
          /\ Len(history'[call[p].vehicle][z]) \in Nat
      <3>1. \A w \in Vehicle, y \in Zone :
              /\ Len(history[w][y]) \in Nat
              /\ Len(history'[w][y]) = IF w = call[p].vehicle /\ y = z
                                       THEN Len(history[w][y]) + 1 ELSE Len(history[w][y])
        BY <1>5, ChangeHistory
      <3>2. call[p].vehicle \in Vehicle
        BY DEF ShapeOK, EngineCall
      <3> QED  BY SMTT(30), <3>1, <3>2
    <2>3. /\ ShapeOK' /\ \A q \in Ping \ {p} : call'[q] = call[q]
          /\ call'[p].vehicle = call[p].vehicle
          /\ call'[p].changed = call[p].changed \cup {z}
      BY <1>5, ChangeStep DEF OthersStay
    <2>4. ASSUME NEW q \in Ping, NEW f \in call'[q].events
          PROVE  /\ f.vehicle = call'[q].vehicle
                 /\ f.zone \in call'[q].changed
                 /\ f.n <= Len(history'[f.vehicle][f.zone])
      <3>1. CASE q = p /\ f = e
        BY <2>1, <2>2, <2>3, <3>1
      <3>2. CASE ~(q = p /\ f = e)
        <4>1. f \in call[q].events /\ f \in ZoneEvent
          <5>1. f \in call[q].events
            BY <2>1, <2>3, <3>2
          <5> QED  BY <5>1 DEF ShapeOK, EngineCall
        <4>2. /\ f.vehicle = call[q].vehicle /\ f.zone \in call[q].changed
              /\ f.n <= Len(history[f.vehicle][f.zone])
          BY <4>1 DEF SliceOK
        <4>3. f.vehicle \in Vehicle /\ f.zone \in Zone /\ f.n \in Nat
          BY <4>1 DEF ZoneEvent
        <4>4. f.n <= Len(history'[f.vehicle][f.zone])
          <5>1. Len(history'[f.vehicle][f.zone]) \in Nat
            BY <2>3, <4>3 DEF ShapeOK
          <5> QED  BY SMTT(30), <2>2, <4>2, <4>3, <5>1
        <4> QED  BY <2>3, <4>2, <4>4
      <3> QED  BY <3>1, <3>2
    <2> QED  BY <2>3, <2>4 DEF SliceOK
  <1>6. ASSUME NEW p \in Ping, StartPublish(p) PROVE ShapeOK' /\ SliceOK'
    BY <1>6, StartPublishStep DEF SliceOK, OthersStay
  <1>7. ASSUME NEW p \in Ping, NEW ok \in BOOLEAN, Publish(p, ok) PROVE ShapeOK' /\ SliceOK'
    BY <1>7, PublishStep DEF SliceOK, OthersStay
  <1>8. ASSUME NEW p \in Ping, Return(p) PROVE ShapeOK' /\ SliceOK'
    BY <1>8, ReturnStep DEF SliceOK, OthersStay
  <1>9. CASE Restart
    BY <1>9, RestartStep DEF SliceOK
  <1> QED
    BY <1>1, <1>2, <1>3, <1>4, <1>5, <1>6, <1>7, <1>8, <1>9, EnterIsChange, ExitIsChange
    DEF Next

\* The vehicles two of whose calls met stay so.
LEMMA OverlappedGrows ==
  ASSUME ShapeOK, together \subseteq together',
         \A q \in Ping : call'[q].vehicle = call[q].vehicle
  PROVE  Overlapped \subseteq Overlapped'
  BY DEF ShapeOK, Overlapped

LEMMA OverlappedStays ==
  ASSUME ShapeOK, together' = together,
         \A q \in Ping : call'[q].vehicle = call[q].vehicle
  PROVE  Overlapped' = Overlapped
  BY DEF ShapeOK, Overlapped

\* A step that moves one call on without touching the store, the events or the
\* publisher keeps what is said of those, and of the other calls.
LEMMA QuietKeeps ==
  ASSUME ShapeOK, GeofenceInv, NEW p \in Ping, OthersStay(p),
         UNCHANGED <<inside, history, published, forgotten>>,
         together \subseteq together',
         call'[p].events = call[p].events
  PROVE  /\ StoreFollows' /\ HeldOnce' /\ PendingIsNewest'
         /\ PublishedIsOld' /\ Alternates' /\ PublishedInOrder'
  <1>1. Overlapped \subseteq Overlapped'
    BY OverlappedGrows DEF OthersStay
  <1>2. \A q \in Ping : call'[q].events = call[q].events /\ call'[q].vehicle = call[q].vehicle
    BY DEF OthersStay
  <1>3. HeldOnce'
    BY <1>2 DEF GeofenceInv, HeldOnce
  <1>4. PendingIsNewest'
    BY <1>1, <1>2 DEF GeofenceInv, PendingIsNewest
  <1>5. StoreFollows' /\ PublishedIsOld'
    BY DEF GeofenceInv, StoreFollows, PublishedIsOld
  <1>6. Alternates'
    BY <1>1 DEF GeofenceInv, Alternates
  <1>7. PublishedInOrder'
    BY <1>1 DEF GeofenceInv, PublishedInOrder
  <1> QED  BY <1>3, <1>4, <1>5, <1>6, <1>7

\* A call that never met another of its vehicle meets none now.
LEMMA AloneHere ==
  ASSUME GeofenceInv, NEW p \in Ping \ together, call[p].pc \in Running
  PROVE  \A q \in Ping \ {p} :
           call[q].vehicle = call[p].vehicle => call[q].pc \notin Running
  BY DEF GeofenceInv, OneAtATime

LEMMA EvaluateInv ==
  ASSUME TypeOK, GeofenceInv, NEW p \in Ping, Evaluate(p)
  PROVE  GeofenceInv'
  <1>1. ShapeOK
    BY TypeParts
  <1>2. /\ OthersStay(p) /\ UNCHANGED <<inside, history, published, forgotten>>
        /\ call[p].pc = "new" /\ call'[p].pc \in {"evaluated", "failed"}
        /\ call'[p].changed = call[p].changed /\ call'[p].events = call[p].events
        /\ \/ together' = together \cup Company(p) \cup {p}
           \/ together' = together /\ (call'[p].pc = "failed" \/ Company(p) = {})
    BY <1>1, EvaluateStep
  <1>3. together \subseteq together'
    BY <1>2
  <1>4. call[p].changed = {} /\ call[p].events = {}
    BY <1>2 DEF GeofenceInv, HoldsLater
  <1>5. HoldsLater' /\ ReadStillTrue' /\ MembershipIsThePings'
    BY <1>2, <1>3, <1>4
    DEF GeofenceInv, HoldsLater, ReadStillTrue, MembershipIsThePings, OthersStay
  <1>6. OneAtATime'
    <2>1. ASSUME NEW a \in Ping, NEW b \in Ping,
                 call'[a].pc \in Running, call'[b].pc \in Running,
                 call'[a].vehicle = call'[b].vehicle, a \notin together'
          PROVE  a = b
      <3>1. CASE a # p /\ b # p
        BY <1>2, <1>3, <2>1, <3>1 DEF GeofenceInv, OneAtATime, OthersStay
      <3>2. CASE a = p /\ b # p
        <4>1. b \in Company(p)
          BY <1>2, <2>1, <3>2 DEF Company, OthersStay
        <4> QED  BY <1>2, <2>1, <3>2, <4>1 DEF Running
      <3>3. CASE a # p /\ b = p
        <4>1. a \in Company(p)
          BY <1>2, <2>1, <3>3 DEF Company, OthersStay
        <4> QED  BY <1>2, <2>1, <3>3, <4>1 DEF Running
      <3> QED  BY <3>1, <3>2, <3>3
    <2> QED  BY <2>1 DEF OneAtATime
  <1> QED  BY <1>1, <1>2, <1>3, <1>5, <1>6, QuietKeeps DEF GeofenceInv

LEMMA ReadPriorInv ==
  ASSUME TypeOK, GeofenceInv, NEW p \in Ping, ReadPrior(p)
  PROVE  GeofenceInv'
  <1>1. ShapeOK
    BY TypeParts
  <1>2. /\ OthersStay(p) /\ UNCHANGED <<inside, history, published, together, forgotten>>
        /\ call[p].pc = "evaluated" /\ call'[p].pc = "changing"
        /\ call'[p].prior = inside[call[p].vehicle]
        /\ call'[p].changed = call[p].changed /\ call'[p].events = call[p].events
    BY <1>1, ReadPriorStep
  <1>3. call[p].changed = {} /\ call[p].events = {}
    BY <1>2 DEF GeofenceInv, HoldsLater
  <1>4. HoldsLater' /\ ReadStillTrue' /\ MembershipIsThePings'
    BY <1>2, <1>3
    DEF GeofenceInv, HoldsLater, ReadStillTrue, MembershipIsThePings, OthersStay
  <1>5. OneAtATime'
    BY <1>2 DEF GeofenceInv, OneAtATime, OthersStay, Running
  <1> QED  BY <1>1, <1>2, <1>4, <1>5, QuietKeeps DEF GeofenceInv

LEMMA StartPublishInv ==
  ASSUME TypeOK, GeofenceInv, NEW p \in Ping, StartPublish(p)
  PROVE  GeofenceInv'
  <1>1. ShapeOK
    BY TypeParts
  <1>2. /\ OthersStay(p) /\ UNCHANGED <<inside, history, published, together, forgotten>>
        /\ call[p].pc = "changing" /\ call'[p].pc = "publishing"
        /\ call'[p].current = call[p].current
        /\ call'[p].changed = call[p].changed /\ call'[p].events = call[p].events
        /\ Enters(p) = {} /\ Exits(p) = {}
    BY <1>1, StartPublishStep
  <1>3. p \notin together => inside[call[p].vehicle] = call[p].current
    <2>1. ASSUME p \notin together, NEW z \in Zone
          PROVE  z \in inside[call[p].vehicle] <=> z \in call[p].current
      BY <1>2, <2>1 DEF GeofenceInv, ReadStillTrue, Enters, Exits
    <2>2. inside[call[p].vehicle] \subseteq Zone /\ call[p].current \subseteq Zone
      BY <1>1 DEF ShapeOK, EngineCall
    <2> QED  BY <2>1, <2>2
  <1>4. HoldsLater' /\ ReadStillTrue' /\ MembershipIsThePings'
    BY <1>2, <1>3
    DEF GeofenceInv, HoldsLater, ReadStillTrue, MembershipIsThePings, OthersStay
  <1>5. OneAtATime'
    BY <1>2 DEF GeofenceInv, OneAtATime, OthersStay, Running
  <1> QED  BY <1>1, <1>2, <1>4, <1>5, QuietKeeps DEF GeofenceInv

LEMMA ReturnInv ==
  ASSUME TypeOK, GeofenceInv, NEW p \in Ping, Return(p)
  PROVE  GeofenceInv'
  <1>1. ShapeOK
    BY TypeParts
  <1>2. /\ OthersStay(p) /\ UNCHANGED <<inside, history, published, together, forgotten>>
        /\ call[p].pc = "publishing" /\ call'[p].pc = "done"
        /\ call'[p].changed = {} /\ call'[p].events = {}
        /\ call[p].events = {}
    BY <1>1, ReturnStep
  <1>3. HoldsLater' /\ ReadStillTrue' /\ MembershipIsThePings' /\ OneAtATime'
    BY <1>2
    DEF GeofenceInv, HoldsLater, ReadStillTrue, MembershipIsThePings, OneAtATime,
        OthersStay, Running
  <1> QED  BY <1>1, <1>2, <1>3, QuietKeeps DEF GeofenceInv

LEMMA ChangeInv ==
  ASSUME TypeOK, GeofenceInv, NEW p \in Ping, NEW z \in Zone,
         NEW type \in {"Enter", "Exit"}, Change(p, z, type)
  PROVE  GeofenceInv'
  <1> DEFINE v == call[p].vehicle
  <1>1. ShapeOK /\ SliceOK
    BY TypeParts
  <1>2. /\ ShapeOK' /\ UNCHANGED <<published, together, forgotten>>
        /\ \A q \in Ping \ {p} : call'[q] = call[q]
        /\ call'[p].vehicle = v
        /\ call[p].pc = "changing" /\ call'[p].pc = "changing"
        /\ call'[p].current = call[p].current /\ call'[p].prior = call[p].prior
        /\ call'[p].changed = call[p].changed \cup {z} /\ z \notin call[p].changed
        /\ z \in call[p].current <=> type = "Enter"
        /\ z \in call[p].prior <=> type = "Exit"
        /\ \A w \in Vehicle, y \in Zone : y \in inside'[w] <=>
             IF w = v /\ y = z THEN type = "Enter" ELSE y \in inside[w]
    BY <1>1, ChangeStep DEF OthersStay
  <1>3. \A w \in Vehicle, y \in Zone :
          /\ Len(history[w][y]) \in Nat
          /\ history'[w][y] = IF w = v /\ y = z
                              THEN Append(history[w][y], type) ELSE history[w][y]
          /\ Len(history'[w][y]) = IF w = v /\ y = z
                                   THEN Len(history[w][y]) + 1 ELSE Len(history[w][y])
    BY <1>1, ChangeHistory
  <1>4. v \in Vehicle /\ \A w \in Vehicle, y \in Zone : history[w][y] \in Seq({"Enter", "Exit"})
    BY <1>1 DEF ShapeOK, EngineCall
  <1>5. p \notin together => (z \in inside[v] <=> type = "Exit")
    BY <1>2 DEF GeofenceInv, ReadStillTrue
  <1>6. p \notin together =>
          \A q \in Ping \ {p} : call[q].vehicle = v => call[q].pc \notin Running
    BY <1>2, AloneHere DEF Running
  <1>7. OneAtATime' /\ HoldsLater'
    BY <1>2 DEF GeofenceInv, OneAtATime, HoldsLater, Running
  <1>8. Overlapped' = Overlapped
    BY <1>1, <1>2, OverlappedStays
  <1>9. v \notin Overlapped => p \notin together
    BY DEF Overlapped
  <1>10. Append(history[v][z], type)[Len(history[v][z]) + 1] = type
    BY <1>4
  <1>11. StoreFollows'
    <2>1. ASSUME NEW w \in Vehicle, NEW y \in Zone
          PROVE  LET n == Len(history'[w][y])
                     entered == n > 0 /\ history'[w][y][n] = "Enter" IN
                 /\ y \in inside'[w] => entered
                 /\ entered /\ w \notin forgotten => y \in inside'[w]
      <3>1. CASE w = v /\ y = z
        <4>1. /\ Len(history[w][y]) \in Nat
              /\ Len(history'[w][y]) = Len(history[w][y]) + 1
              /\ history'[w][y] = Append(history[w][y], type)
          BY <1>3, <3>1
        <4>2. Len(history'[w][y]) > 0
          BY <4>1
        <4>3. history'[w][y][Len(history'[w][y])] = type
          BY <1>10, <3>1, <4>1
        <4>4. y \in inside'[w] <=> type = "Enter"
          BY <1>2, <3>1
        <4> QED  BY <4>2, <4>3, <4>4
      <3>2. CASE ~(w = v /\ y = z)
        BY <1>2, <1>3, <3>2 DEF GeofenceInv, StoreFollows
      <3> QED  BY <3>1, <3>2
    <2> QED  BY <1>2, <2>1 DEF StoreFollows
  <1>12. Alternates'
    <2>1. ASSUME NEW w \in Vehicle \ Overlapped, NEW y \in Zone,
                 NEW i \in 1..Len(history'[w][y])
          PROVE  /\ history'[w][y][i] = "Exit" => i > 1 /\ history'[w][y][i - 1] = "Enter"
                 /\ history'[w][y][i] = "Enter" /\ i > 1 /\ w \notin forgotten
                      => history'[w][y][i - 1] = "Exit"
      <3>1. history[w][y] \in Seq({"Enter", "Exit"}) /\ Len(history[w][y]) \in Nat
        BY <1>4
      <3>2. i \in 1..Len(history[w][y]) =>
              /\ history[w][y][i] = "Exit" => i > 1 /\ history[w][y][i - 1] = "Enter"
              /\ history[w][y][i] = "Enter" /\ i > 1 /\ w \notin forgotten
                   => history[w][y][i - 1] = "Exit"
        BY DEF GeofenceInv, Alternates
      <3>3. CASE w = v /\ y = z
        <4>1. z \in inside[v] <=> type = "Exit"
          BY <1>5, <1>9, <2>1, <3>3
        <4> DEFINE h == history[w][y]
        <4>2. /\ history'[w][y] = Append(h, type)
              /\ Len(history'[w][y]) = Len(h) + 1
          BY <1>3, <3>3
        <4>3. LET entered == Len(h) > 0 /\ h[Len(h)] = "Enter" IN
              /\ y \in inside[w] => entered
              /\ entered /\ w \notin forgotten => y \in inside[w]
          BY <3>3 DEF GeofenceInv, StoreFollows
        <4>4. \A j \in 1..Len(h) :
                Append(h, type)[j] = h[j] /\ h[j] \in {"Enter", "Exit"}
          BY <3>1
        <4>5. Append(h, type)[Len(h) + 1] = type
          BY <3>1
        <4>6. Len(h) \in Nat
          BY <3>1
        <4> HIDE DEF h
        <4>7. CASE i = Len(h) + 1
          <5>1. i > 1 => i - 1 \in 1..Len(h) /\ i - 1 = Len(h)
            BY <4>6, <4>7
          <5>2. history'[w][y][i] = type
            BY <4>2, <4>5, <4>7
          <5>3. i > 1 => history'[w][y][i - 1] = h[Len(h)] /\ h[Len(h)] \in {"Enter", "Exit"}
            BY <4>2, <4>4, <5>1
          <5>4. CASE type = "Exit"
            BY <3>3, <4>1, <4>3, <4>6, <4>7, <5>2, <5>3, <5>4
          <5>5. CASE type = "Enter"
            BY <3>3, <4>1, <4>3, <4>6, <4>7, <5>2, <5>3, <5>5
          <5> QED  BY <5>4, <5>5
        <4>8. CASE i # Len(h) + 1
          <5>1. i \in 1..Len(h) /\ (i > 1 => i - 1 \in 1..Len(h))
            BY <4>2, <4>6, <4>8
          <5>2. history'[w][y][i] = h[i] /\ (i > 1 => history'[w][y][i - 1] = h[i - 1])
            BY <4>2, <4>4, <5>1
          <5> QED  BY <3>2, <5>1, <5>2 DEF h
        <4> QED  BY <4>7, <4>8
      <3>4. CASE ~(w = v /\ y = z)
        BY <1>3, <3>2, <3>4
      <3> QED  BY <3>3, <3>4
    <2> QED  BY <1>2, <1>8, <2>1 DEF Alternates
  <1>13. ReadStillTrue'
    <2>1. ASSUME NEW q \in Ping \ together, NEW y \in Zone, call'[q].pc = "changing"
          PROVE  y \in inside'[call'[q].vehicle]
                   <=> y \in IF y \in call'[q].changed THEN call'[q].current ELSE call'[q].prior
      <3>1. call[q].vehicle \in Vehicle
        BY <1>1 DEF ShapeOK, EngineCall
      <3>2. CASE q = p
        BY <1>2, <1>4, <2>1, <3>2 DEF GeofenceInv, ReadStillTrue
      <3>3. CASE q # p
        <4>1. call[q].vehicle # v
          BY <1>2, <2>1, <3>3 DEF GeofenceInv, OneAtATime, Running
        <4> QED  BY <1>2, <2>1, <3>1, <3>3, <4>1 DEF GeofenceInv, ReadStillTrue
      <3> QED  BY <3>2, <3>3
    <2> QED  BY <1>2, <2>1 DEF ReadStillTrue
  <1>14. MembershipIsThePings'
    <2>1. ASSUME NEW q \in Ping \ together, call'[q].pc = "publishing"
          PROVE  inside'[call'[q].vehicle] = call'[q].current
      <3>1. q # p /\ call'[q] = call[q] /\ call[q].vehicle # v
        BY <1>2, <2>1 DEF GeofenceInv, OneAtATime, Running
      <3>2. call[q].vehicle \in Vehicle
        BY <1>1 DEF ShapeOK, EngineCall
      <3>3. inside[call[q].vehicle] = call[q].current
        BY <2>1, <3>1 DEF GeofenceInv, MembershipIsThePings
      <3>4. inside'[call[q].vehicle] \subseteq Zone /\ inside[call[q].vehicle] \subseteq Zone
        BY <1>1, <1>2, <3>2 DEF ShapeOK
      <3> QED  BY <1>2, <3>1, <3>2, <3>3, <3>4
    <2> QED  BY <1>2, <2>1 DEF MembershipIsThePings
  <1>15. \A i \in 1..Len(published) : published[i] \in ZoneEvent
    BY <1>1 DEF ShapeOK
  <1>16. PublishedIsOld' /\ PublishedInOrder'
    <2>1. ASSUME NEW i \in 1..Len(published)
          PROVE  published[i].n <= Len(history'[published[i].vehicle][published[i].zone])
      <3>1. /\ published[i].vehicle \in Vehicle /\ published[i].zone \in Zone
            /\ published[i].n \in Nat
        BY <1>15 DEF ZoneEvent
      <3>2. \A w \in Vehicle, y \in Zone :
              /\ Len(history[w][y]) \in Nat /\ Len(history'[w][y]) \in Nat
              /\ Len(history[w][y]) <= Len(history'[w][y])
        BY <1>3
      <3>3. published[i].n <= Len(history[published[i].vehicle][published[i].zone])
        BY DEF GeofenceInv, PublishedIsOld
      <3> QED  BY <3>1, <3>2, <3>3
    <2> QED  BY <1>2, <1>8, <2>1 DEF GeofenceInv, PublishedIsOld, PublishedInOrder
  <1>17. PICK e \in ZoneEvent :
           /\ e.vehicle = v /\ e.zone = z /\ e.n = Len(history'[v][z])
           /\ call'[p].events = call[p].events \cup {e}
    BY <1>1, ChangeSlice
  <1>18. \A q \in Ping : \A f \in call'[q].events : f \in call[q].events \/ (q = p /\ f = e)
    BY <1>2, <1>17
  <1>19. e.n = Len(history[v][z]) + 1 /\ Len(history[v][z]) \in Nat
    BY <1>3, <1>4, <1>17
  <1>20. \A q \in Ping : \A f \in call[q].events : ~ Same(e, f)
    <2>1. ASSUME NEW q \in Ping, NEW f \in call[q].events, Same(e, f) PROVE FALSE
      <3>1. f.vehicle = v /\ f.zone = z /\ f.n = e.n /\ f.n \in Nat
        BY <1>1, <1>17, <2>1 DEF Same, ShapeOK, EngineCall, ZoneEvent
      <3>2. f.n <= Len(history[v][z])
        BY <1>1, <2>1, <3>1 DEF SliceOK
      <3> HIDE DEF v
      <3> QED  BY <1>19, <3>1, <3>2
    <2> QED  BY <2>1
  <1>21. \A i \in 1..Len(published) : ~ Same(published[i], e)
    <2>1. ASSUME NEW i \in 1..Len(published), Same(published[i], e) PROVE FALSE
      <3>1. /\ published[i].vehicle = v /\ published[i].zone = z /\ published[i].n = e.n
            /\ published[i].n \in Nat
        BY <1>15, <1>17, <2>1 DEF Same, ZoneEvent
      <3>2. published[i].n <= Len(history[v][z])
        BY <2>1, <3>1 DEF GeofenceInv, PublishedIsOld
      <3> HIDE DEF v
      <3> QED  BY <1>19, <3>1, <3>2
    <2> QED  BY <2>1
  <1>22. HeldOnce'
    <2>1. \A a, b \in Ping : \A f \in call'[a].events, g \in call'[b].events :
            Same(f, g) => a = b /\ f = g
      <3>1. ASSUME NEW a \in Ping, NEW b \in Ping, NEW f \in call'[a].events,
                   NEW g \in call'[b].events, Same(f, g)
            PROVE  a = b /\ f = g
        <4>1. CASE f \in call[a].events /\ g \in call[b].events
          BY <3>1, <4>1 DEF GeofenceInv, HeldOnce
        <4>2. CASE f \in call[a].events /\ b = p /\ g = e
          <5>1. Same(e, f)
            BY <3>1, <4>2 DEF Same
          <5> QED  BY <1>20, <4>2, <5>1
        <4>3. CASE a = p /\ f = e /\ g \in call[b].events
          BY <1>20, <3>1, <4>3
        <4>4. CASE a = p /\ f = e /\ b = p /\ g = e
          BY <4>4
        <4> QED  BY <1>18, <3>1, <4>1, <4>2, <4>3, <4>4
      <3> QED  BY <3>1
    <2>2. \A q \in Ping : \A f \in call'[q].events :
            \A i \in 1..Len(published) : ~ Same(published[i], f)
      BY <1>18, <1>21 DEF GeofenceInv, HeldOnce
    <2> QED  BY <1>2, <2>1, <2>2 DEF HeldOnce
  <1>23. PendingIsNewest'
    <2>1. ASSUME NEW q \in Ping, NEW f \in call'[q].events, call'[q].vehicle \notin Overlapped
          PROVE  f.n = Len(history'[f.vehicle][f.zone])
      <3>1. CASE q = p /\ f = e
        BY <1>17, <3>1
      <3>2. CASE f \in call[q].events
        <4>1. /\ f.vehicle = call[q].vehicle /\ f.vehicle \in Vehicle /\ f.zone \in Zone
              /\ f.zone \in call[q].changed
          BY <1>1, <3>2 DEF SliceOK, ShapeOK, EngineCall, ZoneEvent
        <4>2. call[q].vehicle \notin Overlapped
          BY <1>2, <2>1
        <4>3. f.n = Len(history[f.vehicle][f.zone])
          BY <3>2, <4>2 DEF GeofenceInv, PendingIsNewest
        <4>4. CASE q = p
          BY <1>2, <1>3, <4>1, <4>3, <4>4
        <4>5. CASE q # p
          <5>1. call[q].pc \in Running
            BY <3>2 DEF GeofenceInv, HoldsLater, Running
          <5>2. call[q].vehicle # v
            BY <1>6, <1>9, <4>2, <4>5, <5>1
          <5> QED  BY <1>3, <4>1, <4>3, <5>2
        <4> QED  BY <4>4, <4>5
      <3> QED  BY <1>18, <3>1, <3>2
    <2> QED  BY <1>8, <2>1 DEF PendingIsNewest
  <1> QED
    BY <1>7, <1>11, <1>12, <1>13, <1>14, <1>16, <1>22, <1>23 DEF GeofenceInv

LEMMA PublishInv ==
  ASSUME TypeOK, GeofenceInv, NEW p \in Ping, NEW ok \in BOOLEAN, Publish(p, ok)
  PROVE  GeofenceInv'
  <1>1. ShapeOK /\ SliceOK
    BY TypeParts
  <1>2. /\ OthersStay(p) /\ UNCHANGED <<inside, history, together, forgotten>>
        /\ call[p].pc = "publishing" /\ call'[p].pc = "publishing"
        /\ call'[p].current = call[p].current
    BY <1>1, PublishStep
  <1>3. PICK e \in call[p].events :
          /\ call'[p].events = call[p].events \ {e}
          /\ published' \in {published, Append(published, e)}
    BY <1>1, PublishStep
  <1>4. Overlapped' = Overlapped
    BY <1>1, <1>2, OverlappedStays DEF OthersStay
  <1>5. /\ OneAtATime' /\ StoreFollows' /\ HoldsLater' /\ ReadStillTrue'
        /\ Alternates' /\ MembershipIsThePings'
    <2>1. OneAtATime'
      BY <1>2 DEF GeofenceInv, OneAtATime, OthersStay, Running
    <2>2. StoreFollows'
      BY <1>2 DEF GeofenceInv, StoreFollows
    <2>3. Alternates'
      BY <1>2, <1>4 DEF GeofenceInv, Alternates
    <2>4. HoldsLater'
      BY <1>2 DEF GeofenceInv, HoldsLater, OthersStay
    <2>5. ReadStillTrue'
      BY <1>2 DEF GeofenceInv, ReadStillTrue, OthersStay
    <2>6. MembershipIsThePings'
      BY <1>2 DEF GeofenceInv, MembershipIsThePings, OthersStay
    <2> QED  BY <2>1, <2>2, <2>3, <2>4, <2>5, <2>6
  <1>6. /\ e \in ZoneEvent /\ e.vehicle = call[p].vehicle
        /\ e.n <= Len(history[e.vehicle][e.zone])
        /\ e.vehicle \notin Overlapped => e.n = Len(history[e.vehicle][e.zone])
        /\ \A i \in 1..Len(published) : ~ Same(published[i], e)
    BY <1>1 DEF GeofenceInv, HeldOnce, PendingIsNewest, SliceOK, ShapeOK, EngineCall
  <1>7. /\ Len(published) \in Nat
        /\ Len(published') \in Nat
        /\ \A i \in 1..Len(published') :
             (i \in 1..Len(published) /\ published'[i] = published[i])
               \/ (i = Len(published) + 1 /\ published'[i] = e)
    <2>1. published \in Seq(ZoneEvent)
      BY <1>1 DEF ShapeOK
    <2> QED  BY <1>3, <1>6, <2>1
  <1>8. e.n \in Nat /\ \A i \in 1..Len(published) : published[i].n \in Nat
    <2>1. \A i \in 1..Len(published) : published[i] \in ZoneEvent
      BY <1>1 DEF ShapeOK
    <2> QED  BY <1>6, <2>1 DEF ZoneEvent
  <1>9. PublishedIsOld'
    <2>1. ASSUME NEW i \in 1..Len(published')
          PROVE  published'[i].n <= Len(history[published'[i].vehicle][published'[i].zone])
      <3>1. CASE i \in 1..Len(published) /\ published'[i] = published[i]
        BY <3>1 DEF GeofenceInv, PublishedIsOld
      <3>2. CASE published'[i] = e
        BY <1>6, <3>2
      <3> QED  BY <1>7, <3>1, <3>2
    <2> QED  BY <1>2, <2>1 DEF PublishedIsOld
  <1>10. PublishedInOrder'
    <2>1. ASSUME NEW i \in 1..Len(published'), NEW j \in 1..Len(published'), i < j,
                 published'[i].vehicle = published'[j].vehicle,
                 published'[i].zone = published'[j].zone
          PROVE  /\ published'[i].n # published'[j].n
                 /\ published'[i].vehicle \notin Overlapped
                      => published'[i].n < published'[j].n
      <3>1. i \in 1..Len(published) /\ published'[i] = published[i]
        BY <1>7, <2>1
      <3>2. CASE j \in 1..Len(published) /\ published'[j] = published[j]
        BY <2>1, <3>1, <3>2 DEF GeofenceInv, PublishedInOrder
      <3>3. CASE published'[j] = e
        <4>1. published[i].n # e.n
          BY <1>6, <2>1, <3>1, <3>3 DEF Same
        <4>2. published[i].n <= Len(history[e.vehicle][e.zone])
          BY <2>1, <3>1, <3>3 DEF GeofenceInv, PublishedIsOld
        <4>3. e.vehicle \notin Overlapped => published[i].n < e.n
          BY <1>6, <1>8, <3>1, <4>1, <4>2
        <4> QED  BY <2>1, <3>1, <3>3, <4>1, <4>3
      <3> QED  BY <1>7, <3>2, <3>3
    <2> QED  BY <1>4, <2>1 DEF PublishedInOrder
  <1>11. \A q \in Ping :
           /\ call'[q].vehicle = call[q].vehicle
           /\ call'[q].events \subseteq call[q].events
           /\ e \notin call'[q].events \/ (q # p /\ e \in call[q].events)
    BY <1>2, <1>3 DEF OthersStay
  <1>12. PendingIsNewest'
    BY <1>2, <1>4, <1>11 DEF GeofenceInv, PendingIsNewest
  <1>13. HeldOnce'
    <2>1. \A a, b \in Ping : \A f \in call'[a].events, g \in call'[b].events :
            Same(f, g) => a = b /\ f = g
      BY <1>11 DEF GeofenceInv, HeldOnce
    <2>2. ASSUME NEW q \in Ping, NEW f \in call'[q].events, NEW i \in 1..Len(published')
          PROVE  ~ Same(published'[i], f)
      <3>1. CASE i \in 1..Len(published) /\ published'[i] = published[i]
        BY <1>11, <3>1 DEF GeofenceInv, HeldOnce
      <3>2. CASE published'[i] = e
        <4>1. Same(e, f) => p = q /\ e = f
          BY <1>11 DEF GeofenceInv, HeldOnce
        <4> QED  BY <1>11, <3>2, <4>1
      <3> QED  BY <1>7, <3>1, <3>2
    <2> QED  BY <2>1, <2>2 DEF HeldOnce
  <1> QED  BY <1>5, <1>9, <1>10, <1>12, <1>13 DEF GeofenceInv

LEMMA RestartInv ==
  ASSUME TypeOK, GeofenceInv, Restart
  PROVE  GeofenceInv'
  <1>1. ShapeOK
    BY TypeParts
  <1>2. /\ UNCHANGED <<history, published, together>>
        /\ \/ UNCHANGED <<inside, forgotten>>
           \/ /\ \A v \in Vehicle : inside'[v] = {}
              /\ forgotten' = forgotten \cup {v \in Vehicle : inside[v] # {}}
        /\ \A p \in Ping :
             /\ call'[p].pc \notin Running
             /\ call'[p].vehicle = call[p].vehicle
             /\ call'[p] = call[p] \/ (call'[p].changed = {} /\ call'[p].events = {})
    BY <1>1, RestartStep
  <1>3. Overlapped' = Overlapped
    BY <1>1, <1>2, OverlappedStays
  <1>4. \A p \in Ping : call'[p].events \subseteq call[p].events
    BY <1>2
  <1>5. forgotten \subseteq forgotten'
    BY <1>2
  <1>6. OneAtATime' /\ ReadStillTrue' /\ MembershipIsThePings'
    BY <1>2 DEF OneAtATime, ReadStillTrue, MembershipIsThePings, Running
  <1>7. HoldsLater'
    BY <1>2 DEF GeofenceInv, HoldsLater, Running
  <1>8. HeldOnce' /\ PendingIsNewest'
    BY <1>2, <1>3, <1>4 DEF GeofenceInv, HeldOnce, PendingIsNewest
  <1>9. PublishedIsOld' /\ PublishedInOrder'
    BY <1>2, <1>3 DEF GeofenceInv, PublishedIsOld, PublishedInOrder
  <1>10. Alternates'
    BY <1>2, <1>3, <1>5 DEF GeofenceInv, Alternates
  <1>11. StoreFollows'
    BY <1>2 DEF GeofenceInv, StoreFollows
  <1> QED
    BY <1>6, <1>7, <1>8, <1>9, <1>10, <1>11 DEF GeofenceInv

-----------------------------------------------------------------------------
(***************************************************************************)
(* The theorems.                                                           *)
(***************************************************************************)
LEMMA Initially == Init => TypeOK /\ GeofenceInv
  <1> SUFFICES ASSUME Init PROVE TypeOK /\ GeofenceInv
    OBVIOUS
  <1> USE DEF Init, NewCall
  <1>1. TypeOK
    BY DEF TypeOK, EngineCall
  <1>2. \A p \in Ping : call[p].pc = "new" /\ call[p].changed = {} /\ call[p].events = {}
    OBVIOUS
  <1>3. OneAtATime /\ HoldsLater /\ ReadStillTrue /\ HeldOnce /\ PendingIsNewest
          /\ MembershipIsThePings
    BY <1>2 DEF OneAtATime, HoldsLater, ReadStillTrue, HeldOnce, PendingIsNewest,
                MembershipIsThePings, Running
  <1>4. StoreFollows /\ PublishedIsOld /\ Alternates /\ PublishedInOrder
    BY DEF StoreFollows, PublishedIsOld, Alternates, PublishedInOrder
  <1> QED  BY <1>1, <1>3, <1>4 DEF GeofenceInv

LEMMA InvStep == TypeOK /\ GeofenceInv /\ [Next]_vars => GeofenceInv'
  <1> SUFFICES ASSUME TypeOK, GeofenceInv, [Next]_vars PROVE GeofenceInv'
    OBVIOUS
  <1>1. CASE UNCHANGED <<inside, call, history, published, together, forgotten>>
    <2>1. Overlapped' = Overlapped
      BY <1>1 DEF Overlapped
    <2>2. OneAtATime' /\ HoldsLater' /\ ReadStillTrue' /\ MembershipIsThePings'
      BY <1>1 DEF GeofenceInv, OneAtATime, HoldsLater, ReadStillTrue, MembershipIsThePings
    <2>3. HeldOnce' /\ PendingIsNewest'
      BY <1>1, <2>1 DEF GeofenceInv, HeldOnce, PendingIsNewest
    <2>4. PublishedIsOld' /\ PublishedInOrder'
      BY <1>1, <2>1 DEF GeofenceInv, PublishedIsOld, PublishedInOrder
    <2>5. StoreFollows'
      BY <1>1 DEF GeofenceInv, StoreFollows
    <2>6. Alternates'
      BY <1>1, <2>1 DEF GeofenceInv, Alternates
    <2> QED  BY <2>2, <2>3, <2>4, <2>5, <2>6 DEF GeofenceInv
  <1>2. CASE Restart
    BY <1>2, RestartInv
  <1>3. ASSUME NEW p \in Ping,
               \/ Evaluate(p) \/ ReadPrior(p) \/ StartPublish(p) \/ Return(p)
               \/ \E ok \in BOOLEAN : Publish(p, ok)
        PROVE  GeofenceInv'
    BY <1>3, EvaluateInv, ReadPriorInv, StartPublishInv, ReturnInv, PublishInv
  <1>4. ASSUME NEW p \in Ping, NEW z \in Zone, Enter(p, z) \/ Exit(p, z)
        PROVE  GeofenceInv'
    BY <1>4, EnterIsChange, ExitIsChange, ChangeInv
  <1> QED  BY <1>1, <1>2, <1>3, <1>4 DEF Next, vars, CreateZone

\* The calls, the store and the events keep the shape of the Go types.
THEOREM TypeCorrect == Spec => []TypeOK
  BY Initially, SliceStep, PTL DEF Spec

LEMMA Correct == Spec => [](TypeOK /\ GeofenceInv)
  BY Initially, SliceStep, InvStep, PTL DEF Spec

\* However calls overlap and whatever restarts lose, a zone the store records
\* was entered last; only a loss leaves an entered zone unrecorded.
THEOREM StoreFollowsCorrect == Spec => []StoreFollows
  BY Correct, PTL DEF GeofenceInv

\* Enters and Exits take turns for every vehicle whose calls never met: an
\* Exit always follows an Enter, and an Enter an Exit unless a restart lost
\* recorded zones.
THEOREM AlternatesCorrect == Spec => []Alternates
  BY Correct, PTL DEF GeofenceInv

\* A call that never met another of its vehicle leaves the store as its ping
\* says, whatever it found there.
THEOREM MembershipIsThePingsCorrect == Spec => []MembershipIsThePings
  BY Correct, PTL DEF GeofenceInv

\* Every event is published at most once, and in order for a vehicle whose
\* calls never met.
THEOREM PublishedInOrderCorrect == Spec => []PublishedInOrder
  BY Correct, PTL DEF GeofenceInv

-----------------------------------------------------------------------------
\* Events and membership say the same.
THEOREM EventsMatchMembershipCorrect == Spec => []EventsMatchMembership
  BY TypeCorrect, StoreFollowsCorrect, AlternatesCorrect, MembershipIsThePingsCorrect,
     PTL DEF EventsMatchMembership
=============================================================================
