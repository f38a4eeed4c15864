----------------------------- MODULE DriverApp -----------------------------
(***************************************************************************)
(* The driver's phone: the shift and its route (state/driver_state.dart,   *)
(* with what screens/home_screen.dart offers), whose timer produces pings, *)
(* and the transmitter that sends them or keeps them while offline         *)
(* (services/ping_transmitter.dart, services/ping_queue.dart).             *)
(*                                                                         *)
(* Awaits of the sink are where the calls interleave: pings are submitted  *)
(* and the connection comes and goes while a flush is under way.  A ping   *)
(* is its timestamp.                                                       *)
(***************************************************************************)
EXTENDS Ordering, SequencesExt

CONSTANTS
  Stops,       \* stops of a route
  QueueSize,   \* kMaxOfflinePings
  Flush,       \* flushes that may run at a time
  MaxPings     \* bound on the pings produced

\* The one route that is offered (home_screen.dart, _demoRoute) has stops.
ASSUME DriverAppAssumption ==
  Stops \in Nat \ {0} /\ QueueSize \in Nat \ {0} /\ MaxPings \in Nat

VARIABLES
  signedIn, status, route, currentStop, pinging,  \* DriverState
  emitted,       \* pings produced; also the timestamp of the last one
  online, queue,   \* PingTransmitter
  sending,     \* pings whose submit awaits the sink
  flushes,     \* the calls of flush: pings still to send and failed ones
  received,    \* pings the sink has taken, in order
  dropped,     \* pings the full queue has dropped
  thrown,      \* pings gone with a call whose sink threw
  failures     \* history: a send has failed

shift == <<signedIn, status, route, currentStop, pinging>>
transmitter == <<online, queue, sending, flushes, received, dropped, thrown, failures>>
appVars == <<shift, emitted, transmitter>>

NoRouteOnPhone == <<>>
NoFlush  == [pending |-> <<>>, failed |-> <<>>]
StopEnded == {"completed", "failed"}

AppInit ==
  /\ signedIn = FALSE /\ status = "offline" /\ route = NoRouteOnPhone
  /\ currentStop = 1 /\ pinging = FALSE
  /\ emitted = 0
  /\ online \in BOOLEAN
  /\ queue = <<>> /\ sending = {} /\ flushes = [f \in Flush |-> NoFlush]
  /\ received = <<>> /\ dropped = {} /\ thrown = {} /\ failures = FALSE

-----------------------------------------------------------------------------
(***************************************************************************)
(* PingQueue.                                                              *)
(***************************************************************************)

\* enqueueAll: each insertion drops the oldest entry of a full queue.
Enqueue(q, pings) ==
  LET all  == q \o pings
      over == IF Len(all) > QueueSize THEN Len(all) - QueueSize ELSE 0
  IN  [queue |-> SubSeq(all, over + 1, Len(all)), dropped |-> ToSet(SubSeq(all, 1, over))]

DrainInOrder(q) ==
  LET order == OrderedBy(DOMAIN q, {p \in (DOMAIN q) \X (DOMAIN q) :
                 q[p[1]] < q[p[2]] \/ (q[p[1]] = q[p[2]] /\ p[1] < p[2])})
  IN  [i \in DOMAIN q |-> q[order[i]]]

Buffer(pings) ==
  LET new == Enqueue(queue, pings)
  IN  queue' = new.queue /\ dropped' = dropped \cup new.dropped

-----------------------------------------------------------------------------
(***************************************************************************)
(* PingTransmitter.                                                        *)
(***************************************************************************)

Submit(ping) ==
  /\ IF online THEN sending' = sending \cup {ping} /\ UNCHANGED <<queue, dropped>>
     ELSE Buffer(<<ping>>) /\ UNCHANGED sending
  /\ UNCHANGED <<online, flushes, received, thrown, failures>>

MutSendEndsForgets(ping) ==
  /\ ping \in sending /\ sending' = sending \ {ping}
  /\ \/ received' = Append(received, ping) /\ UNCHANGED <<thrown, failures>>
     \/ failures' = TRUE /\ UNCHANGED <<received, thrown>>
     \/ thrown' = thrown \cup {ping} /\ UNCHANGED <<received, failures>>
  /\ UNCHANGED <<shift, emitted, online, flushes, queue, dropped>>
\* The sink answers a submit, or its future throws: nothing catches that, and the
\* ping is gone (the caller does not wait for the submit).
SendEnds(ping) ==
  /\ ping \in sending /\ sending' = sending \ {ping}
  /\ \/ /\ received' = Append(received, ping)
        /\ UNCHANGED <<queue, dropped, thrown, failures>>
     \/ Buffer(<<ping>>) /\ failures' = TRUE /\ UNCHANGED <<received, thrown>>
     \/ /\ thrown' = thrown \cup {ping}
        /\ UNCHANGED <<received, queue, dropped, failures>>
  /\ UNCHANGED <<shift, emitted, online, flushes>>

\* setOnline: coming back online flushes what is queued.
SetOnline(on) ==
  /\ online' = on
  /\ IF on /\ ~online /\ queue # <<>>
     THEN \E f \in Flush :
            /\ flushes[f] = NoFlush
            /\ flushes' = [flushes EXCEPT ![f].pending = DrainInOrder(queue)]
            /\ queue' = <<>>
     ELSE UNCHANGED <<flushes, queue>>
  /\ UNCHANGED <<shift, emitted, sending, received, dropped, thrown, failures>>

FlushPings(f) == flushes[f].pending \o flushes[f].failed

MutFlushStepRetries(f) ==
  /\ flushes[f].pending # <<>>
  /\ LET ping == Head(flushes[f].pending)
         left == Tail(flushes[f].pending)
     IN \E ok \in BOOLEAN :
          /\ received' = IF ok THEN Append(received, ping) ELSE received
          /\ failures' = (failures \/ ~ok)
          /\ flushes' = [flushes EXCEPT ![f].pending = IF ok THEN left ELSE Append(left, ping)]
  /\ UNCHANGED <<shift, emitted, online, sending, queue, dropped, thrown>>

\* The sink answers for the first pending ping; after the last, the failed ones
\* are buffered again.
FlushAnswered(f) ==
  /\ LET ping == Head(flushes[f].pending)
         left == Tail(flushes[f].pending)
     IN \E ok \in BOOLEAN :
          LET failed == IF ok THEN flushes[f].failed ELSE Append(flushes[f].failed, ping) IN
          /\ received' = IF ok THEN Append(received, ping) ELSE received
          /\ failures' = (failures \/ ~ok)
          /\ IF left # <<>>
             THEN /\ flushes' = [flushes EXCEPT ![f] = [pending |-> left, failed |-> failed]]
                  /\ UNCHANGED <<queue, dropped>>
             ELSE flushes' = [flushes EXCEPT ![f] = NoFlush] /\ Buffer(failed)
  /\ UNCHANGED thrown

\* Its future throws: the call ends, and what it has drained and not sent, the
\* failed pings included, was only in its local variables.
FlushThrows(f) ==
  /\ flushes' = [flushes EXCEPT ![f] = NoFlush]
  /\ thrown' = thrown \cup ToSet(FlushPings(f))
  /\ UNCHANGED <<received, queue, dropped, failures>>

FlushStep(f) ==
  /\ flushes[f].pending # <<>>
  /\ FlushAnswered(f) \/ FlushThrows(f)
  /\ UNCHANGED <<shift, emitted, online, sending>>

-----------------------------------------------------------------------------
(***************************************************************************)
(* DriverState.                                                            *)
(***************************************************************************)

EmitPing == emitted < MaxPings /\ emitted' = emitted + 1 /\ Submit(emitted')
Quiet == UNCHANGED <<emitted, transmitter>>

SignIn ==
  /\ ~signedIn /\ signedIn' = TRUE /\ status' = "available"
  /\ UNCHANGED <<route, currentStop, pinging>> /\ Quiet

SignOut ==
  /\ signedIn /\ signedIn' = FALSE /\ status' = "offline" /\ route' = NoRouteOnPhone
  /\ currentStop' = 1 /\ pinging' = FALSE /\ Quiet

\* The chips of the availability card, which is hidden during a delivery.
SetStatus(s) ==
  /\ signedIn /\ status # "onDelivery" /\ s # "onDelivery"
  /\ status' = s
  /\ pinging' = (pinging /\ s = "available")
  /\ UNCHANGED <<signedIn, route, currentStop>> /\ Quiet

\* Offered while there is no route; the first ping goes out at once.
StartAssignment ==
  /\ signedIn /\ route = NoRouteOnPhone
  /\ route' = [i \in 1..Stops |-> "assigned"] /\ currentStop' = 1
  /\ status' = "onDelivery" /\ pinging' = TRUE
  /\ EmitPing /\ UNCHANGED signedIn

\* The button of the active stop: start, arrived; then completed or failed,
\* which advances, and ends the delivery with the last stop.
Progress(s) ==
  /\ currentStop \in DOMAIN route
  /\ <<route[currentStop], s>> \in {<<"assigned", "inTransit">>, <<"inTransit", "arrived">>}
  /\ route' = [route EXCEPT ![currentStop] = s]
  /\ UNCHANGED <<signedIn, status, currentStop, pinging>> /\ Quiet

EndStop(s) ==
  /\ currentStop \in DOMAIN route /\ route[currentStop] = "arrived" /\ s \in StopEnded
  /\ route' = [route EXCEPT ![currentStop] = s] /\ currentStop' = currentStop + 1
  /\ IF \A i \in DOMAIN route : route'[i] \in StopEnded
     THEN status' = "available" /\ pinging' = FALSE
     ELSE UNCHANGED <<status, pinging>>
  /\ UNCHANGED signedIn /\ Quiet

PingTimer == pinging /\ EmitPing /\ UNCHANGED shift

AppNext ==
  \/ SignIn \/ SignOut \/ StartAssignment \/ PingTimer
  \/ \E s \in {"offline", "available", "onBreak"} : SetStatus(s)
  \/ \E s \in {"inTransit", "arrived"} : Progress(s)
  \/ \E s \in StopEnded : EndStop(s)
  \/ \E ping \in sending : SendEnds(ping)
  \/ \E on \in BOOLEAN : SetOnline(on)
  \/ \E f \in Flush : FlushStep(f)

AppSpec == AppInit /\ [][AppNext]_appVars

\* The sink's future ends, in an answer or not.
AppFairness ==
  /\ \A f \in Flush : WF_appVars(FlushStep(f))
  /\ \A ping \in 1..MaxPings : WF_appVars(SendEnds(ping))

-----------------------------------------------------------------------------
(***************************************************************************)
(* Properties.                                                             *)
(***************************************************************************)

\* Requirement 4.8, as far as the code keeps it: however submits, flushes,
\* failures and the connection interleave, each ping is in exactly one place.  So
\* none is sent twice, and none is lost but by a full queue or a sink that throws.
EachPingOnce ==
  LET At(s, p) == {i \in DOMAIN s : s[i] = p}
      Count(p) == Cardinality(At(received, p)) + Cardinality(At(queue, p))
                  + (IF p \in sending THEN 1 ELSE 0) + (IF p \in dropped THEN 1 ELSE 0)
                  + (IF p \in thrown THEN 1 ELSE 0)
                  + Cardinality(UNION {{f} \X At(FlushPings(f), p) : f \in Flush})
  IN  \A p \in 1..emitted : Count(p) = 1

\* "Any ping that fails to send is re-buffered" (flush): not when the sink throws,
\* which takes the whole of what a flush has drained with it.
NoneGoesAstray == thrown = {}

\* Design, Property 13: the queue keeps its bound; a flush sends in time order;
\* and as long as no send has failed, what was dropped is older than what is kept.
QueueIsRecent ==
  /\ Len(queue) <= QueueSize
  /\ \A f \in Flush : \A i, j \in DOMAIN flushes[f].pending :
       i < j => flushes[f].pending[i] < flushes[f].pending[j]
  /\ ~failures => \A p \in dropped, i \in DOMAIN queue : p < queue[i]

\* The proviso is needed: failed pings are buffered behind younger ones, and
\* the younger are then dropped first.
DropsTheOldest == \A p \in dropped, i \in DOMAIN queue : p < queue[i]

\* Requirement 4.9, over all sends: not so, a ping submitted while a flush is
\* under way overtakes it.
ReceivedInOrder ==
  \A i, j \in DOMAIN received : i < j => received[i] < received[j]

\* Requirement 10.5: the phone pings exactly while a delivery is under way, the
\* status says so, and the stops are done in order.
PingsDuringDelivery ==
  /\ pinging = (\E i \in DOMAIN route : route[i] \notin StopEnded)
  /\ pinging <=> status = "onDelivery"
  /\ \A i \in DOMAIN route : /\ i < currentStop <=> route[i] \in StopEnded
                             /\ i > currentStop => route[i] = "assigned"

\* Neither a submitted ping nor a flush stays in the air.
FlushesEnd ==
  /\ \A ping \in 1..MaxPings : ping \in sending ~> ping \notin sending
  /\ \A f \in Flush : flushes[f] # NoFlush ~> flushes[f] = NoFlush

\* What holds of the shift and its pings in every state.
PhoneSafe == EachPingOnce /\ QueueIsRecent /\ PingsDuringDelivery
=============================================================================
