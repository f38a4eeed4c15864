------------------------------ MODULE Tracking ------------------------------
(***************************************************************************)
(* The customer's tracking page (apps/customer, tracking_state.dart): it   *)
(* resolves a link once, by a call that may take any time, and meanwhile   *)
(* and afterwards gets the streamed changes of status, in order, and       *)
(* positions, which come from another publisher at any time.               *)
(***************************************************************************)
EXTENDS Naturals, Sequences

CONSTANT MaxPositions   \* bound on the positions streamed

ASSUME TrackingAssumption == MaxPositions \in Nat

VARIABLES
  delivery,    \* the status of the delivery at the management service
  streamed,    \* status changes on their way to the page
  fixes,       \* positions streamed so far: also numbers them
  view,        \* _view: NoView, or status, position (0: none) and arriving
  loading, error,
  lookedUp,      \* the answer to the resolver, on its way: <<>>, or <<its view>>
  trip,        \* history: the first position since the view began to show any
  missed       \* history: a change came between the lookup and the view it leads to

trackingVars == <<delivery, streamed, fixes, view, loading, error, lookedUp, trip, missed>>
serviceVars  == <<delivery, streamed, fixes>>

Next1 == [assigned |-> {"inTransit", "cancelled"}, inTransit |-> {"arrived", "cancelled"},
          arrived |-> {"completed", "cancelled"}, completed |-> {}, cancelled |-> {}]
NoView == [status |-> "none", position |-> 0, arriving |-> FALSE]
ShowsLivePosition(status) == status \in {"inTransit", "arrived"}

TrackingInit ==
  /\ delivery \in {"assigned", "inTransit"} /\ streamed = <<>> /\ fixes = 0
  /\ view = NoView /\ loading = FALSE /\ error = FALSE
  /\ lookedUp = <<>> /\ trip = 1 /\ missed = FALSE

-----------------------------------------------------------------------------
\* The driver moves the delivery on.
Transition(status) ==
  /\ status \in Next1[delivery]
  /\ delivery' = status /\ streamed' = Append(streamed, status)
  /\ UNCHANGED <<fixes, view, loading, error, lookedUp, trip, missed>>

\* resolveLink: the page shows no two links, so it is called while not loading.
ResolveLink ==
  /\ ~loading /\ view = NoView
  /\ loading' = TRUE /\ error' = FALSE
  /\ UNCHANGED <<serviceVars, view, lookedUp, trip, missed>>

\* The service answers with what it has now; a position only if that is shown.
Lookup ==
  /\ loading /\ lookedUp = <<>>
  /\ lookedUp' = <<[status |-> delivery, arriving |-> FALSE,
                  position |-> IF ShowsLivePosition(delivery) THEN fixes ELSE 0]>>
  /\ missed' = FALSE
  /\ UNCHANGED <<serviceVars, view, loading, error, trip>>

LinkAnswered(ok) ==
  /\ loading /\ (ok => lookedUp # <<>>)
  /\ loading' = FALSE /\ lookedUp' = <<>>
  /\ IF ok THEN view' = lookedUp[1] /\ trip' = view'.position /\ UNCHANGED error
     ELSE error' = TRUE /\ UNCHANGED <<view, trip>>
  /\ UNCHANGED <<serviceVars, missed>>

\* onStatus: the position is kept only from one showing status to another.
MutOnStatus ==
  /\ streamed # <<>> /\ streamed' = Tail(streamed)
  /\ view' = IF view = NoView THEN view ELSE [view EXCEPT !.status = Head(streamed)]
  /\ trip' = IF view # NoView /\ ~ShowsLivePosition(view.status) THEN fixes + 1 ELSE trip
  /\ missed' = (missed \/ lookedUp # <<>>)
  /\ UNCHANGED <<delivery, fixes, loading, error, lookedUp>>
OnStatus ==
  /\ streamed # <<>> /\ streamed' = Tail(streamed)
  /\ view' = IF view = NoView THEN view
             ELSE [view EXCEPT !.status = Head(streamed),
                     !.position = IF ShowsLivePosition(Head(streamed)) THEN @ ELSE 0]
  /\ trip' = IF view # NoView /\ ~ShowsLivePosition(view.status) THEN fixes + 1 ELSE trip
  /\ missed' = (missed \/ lookedUp # <<>>)
  /\ UNCHANGED <<delivery, fixes, loading, error, lookedUp>>

OnPosition ==
  /\ fixes < MaxPositions /\ fixes' = fixes + 1
  /\ view' = IF view # NoView /\ ShowsLivePosition(view.status)
             THEN [view EXCEPT !.position = fixes'] ELSE view
  /\ UNCHANGED <<delivery, streamed, loading, error, lookedUp, trip, missed>>

OnArriving ==
  /\ view' = IF view = NoView THEN view ELSE [view EXCEPT !.arriving = TRUE]
  /\ UNCHANGED <<serviceVars, loading, error, lookedUp, trip, missed>>

TrackingNext ==
  \/ \E status \in UNION {Next1[s] : s \in DOMAIN Next1} : Transition(status)
  \/ ResolveLink \/ Lookup \/ OnStatus \/ OnPosition \/ OnArriving
  \/ \E ok \in BOOLEAN : LinkAnswered(ok)

TrackingSpec == TrackingInit /\ [][TrackingNext]_trackingVars
-----------------------------------------------------------------------------
(***************************************************************************)
(* Properties.                                                             *)
(***************************************************************************)

\* The page is not left with a status of the past: what it shows and what is
\* still on its way end in the status of the delivery, unless a change came
\* between the lookup and the view, and found none to apply it to.
Ahead == IF streamed = <<>> THEN view.status ELSE streamed[Len(streamed)]
PageFollowsDelivery == view # NoView /\ ~missed => Ahead = delivery

\* Without the proviso: the change in between is lost.
PageAlwaysFollows == view # NoView => Ahead = delivery

\* A position is shown with a status of the trip only, and is none from before
\* the trip (the test "hides the position").  And it is shown while the delivery
\* is on its trip, or the change that ends the trip is still on its way to the
\* page, with the same proviso.
OnTripOrEnding == ShowsLivePosition(delivery) \/ (streamed # <<>> /\ Ahead = delivery)
PositionOnlyOnTheTrip ==
  view.position # 0 =>
    /\ ShowsLivePosition(view.status)
    /\ view.position >= trip
    /\ ~missed => OnTripOrEnding

\* Requirement 11.4: "stop displaying the live position" when the delivery is
\* completed.  A completion that comes between the lookup and the view is not
\* seen, and the vehicle stays on display after its trip.
PositionEndsWithTheTrip == view.position # 0 => OnTripOrEnding

\* What the page shows of the delivery and its vehicle, if no change was missed.
TrackingSafe == PositionOnlyOnTheTrip /\ PageFollowsDelivery
=============================================================================
