-------------------------- MODULE ZoneEventDelivery --------------------------
(***************************************************************************)
(* ZoneEventDelivery of the streaming service (internal/hub/retry.go): the *)
(* queue of zone events whose delivery failed, used by goroutines that     *)
(* deliver new events and by goroutines that call Retry.                   *)
(*                                                                         *)
(* The mutex guards the slice pending only.  A send runs outside it and is *)
(* one step; it succeeds or fails as it likes.  Retry takes the whole      *)
(* slice, sends the events one by one, and puts the survivors back.        *)
(***************************************************************************)
EXTENDS Naturals, Sequences, FiniteSets

CONSTANTS
  Event,                \* zone events, each handed to the queue once
  Retrier,              \* goroutines that call Retry
  MaxZoneEventRetries

ASSUME ZoneEventAssumption == MaxZoneEventRetries \in Nat \ {0}

VARIABLES
  at,       \* where the goroutine that delivers an event is
  tries,    \* sends made of each event
  sent,     \* sends of it that succeeded
  pending,  \* d.pending
  batch,    \* what a Retry in progress has still to send
  keep,     \* what it will put back
  busy      \* a Retry is in progress

deliveryVars == <<at, tries, sent, pending, batch, keep, busy>>

Retained == [event : Event, retries : 0..MaxZoneEventRetries]

DeliveryInit ==
  /\ at = [e \in Event |-> "new"]
  /\ tries = [e \in Event |-> 0]
  /\ sent = [e \in Event |-> 0]
  /\ pending = <<>>
  /\ batch = [p \in Retrier |-> <<>>]
  /\ keep = [p \in Retrier |-> <<>>]
  /\ busy = [p \in Retrier |-> FALSE]

\* d.send: ok is what it returns.
Send(e, ok) ==
  /\ tries' = [tries EXCEPT ![e] = @ + 1]
  /\ sent' = [sent EXCEPT ![e] = IF ok THEN @ + 1 ELSE @]

-----------------------------------------------------------------------------
\* Deliver: the first attempt, and on failure the append under the lock.
Deliver(e, ok) ==
  /\ at[e] = "new"
  /\ Send(e, ok)
  /\ at' = [at EXCEPT ![e] = IF ok THEN "returned" ELSE "failed"]
  /\ UNCHANGED <<pending, batch, keep, busy>>

Retain(e) ==
  /\ at[e] = "failed"
  /\ pending' = Append(pending, [event |-> e, retries |-> 0])
  /\ at' = [at EXCEPT ![e] = "returned"]
  /\ UNCHANGED <<tries, sent, batch, keep, busy>>

\* DeliverWithRetries: the first attempt and the retries in one goroutine,
\* which holds the event itself and never retains it.
DeliverWithRetries(e, ok) ==
  /\ at[e] \in {"new", "retrying"}
  /\ Send(e, ok)
  /\ at' = [at EXCEPT ![e] = IF ok \/ tries[e] = MaxZoneEventRetries
                             THEN "returned" ELSE "retrying"]
  /\ UNCHANGED <<pending, batch, keep, busy>>

-----------------------------------------------------------------------------
\* Retry takes the slice and leaves nil.
MutRetryTakeShares(p) ==
  /\ ~busy[p]
  /\ busy' = [busy EXCEPT ![p] = TRUE]
  /\ batch' = [batch EXCEPT ![p] = pending]
  /\ UNCHANGED <<at, tries, sent, pending, keep>>
RetryTake(p) ==
  /\ ~busy[p]
  /\ busy' = [busy EXCEPT ![p] = TRUE]
  /\ batch' = [batch EXCEPT ![p] = pending]
  /\ pending' = <<>>
  /\ UNCHANGED <<at, tries, sent, keep>>

RetrySend(p, ok) ==
  LET r == Head(batch[p]) IN
  /\ batch[p] # <<>>
  /\ Send(r.event, ok)
  /\ batch' = [batch EXCEPT ![p] = Tail(@)]
  /\ keep' = [keep EXCEPT ![p] = IF ~ok /\ r.retries + 1 < MaxZoneEventRetries
                                 THEN Append(@, [r EXCEPT !.retries = @ + 1]) ELSE @]
  /\ UNCHANGED <<at, pending, busy>>

\* The survivors go before what has been retained meanwhile.
MutRetryReturnAppends(p) ==
  /\ busy[p] /\ batch[p] = <<>>
  /\ pending' = pending \o keep[p]
  /\ keep' = [keep EXCEPT ![p] = <<>>]
  /\ busy' = [busy EXCEPT ![p] = FALSE]
  /\ UNCHANGED <<at, tries, sent, batch>>
RetryReturn(p) ==
  /\ busy[p] /\ batch[p] = <<>>
  /\ pending' = keep[p] \o pending
  /\ keep' = [keep EXCEPT ![p] = <<>>]
  /\ busy' = [busy EXCEPT ![p] = FALSE]
  /\ UNCHANGED <<at, tries, sent, batch>>

RetryStep(p) == RetryReturn(p) \/ \E ok \in BOOLEAN : RetrySend(p, ok)

DeliveryNext ==
  \/ \E e \in Event, ok \in BOOLEAN : Deliver(e, ok) \/ DeliverWithRetries(e, ok)
  \/ \E e \in Event : Retain(e)
  \/ \E p \in Retrier : RetryTake(p) \/ RetryStep(p)

DeliverySpec == DeliveryInit /\ [][DeliveryNext]_deliveryVars

\* A Retry that has begun runs on: a send returns.  Nothing is assumed of when
\* Retry is called, for no caller of it exists in the service yet.
DeliveryFairness == \A p \in Retrier : WF_deliveryVars(RetryStep(p))

-----------------------------------------------------------------------------
(***************************************************************************)
(* Properties.                                                             *)
(***************************************************************************)

\* Types of the variables.
DeliveryTypeOK ==
  /\ at \in [Event -> {"new", "failed", "retrying", "returned"}]
  /\ tries \in [Event -> Nat]
  /\ sent \in [Event -> Nat]
  /\ pending \in Seq(Retained)
  /\ batch \in [Retrier -> Seq(Retained)]
  /\ keep \in [Retrier -> Seq(Retained)]
  /\ busy \in [Retrier -> BOOLEAN]

\* The places an event is retained in.
Slots(e) ==
  LET Places(s) == {i \in DOMAIN s : s[i].event = e} IN
  {<<"pending", i>> : i \in Places(pending)}
    \cup (UNION {{<<p, "batch", i>> : i \in Places(batch[p])} : p \in Retrier})
    \cup (UNION {{<<p, "keep", i>> : i \in Places(keep[p])} : p \in Retrier})

Open(e) == sent[e] = 0 /\ tries[e] <= MaxZoneEventRetries

\* An undelivered event within its budget is in exactly one place, and one
\* that is delivered or given up is in none: concurrent calls of Deliver and
\* Retry neither lose nor copy an event.
HeldOnce ==
  \A e \in Event : at[e] = "returned" =>
    Cardinality(Slots(e)) = IF Open(e) THEN 1 ELSE 0

\* The refinement: whatever goroutines make them, the attempts of one event
\* are those requirement 6.7 allows.
Promise == INSTANCE ZoneEventPromise WITH
  outcome <- [e \in Event |-> IF sent[e] > 0 THEN "delivered"
                              ELSE IF tries[e] > MaxZoneEventRetries THEN "given_up"
                              ELSE "open"]

RetriesAsPromised == Promise!Spec

\* While no other Retry is in progress, retained events keep the order in
\* which they failed, through the Retry of p too: what it has put aside, what
\* it has still to send and pending are one queue.
Line(p) == keep[p] \o batch[p] \o pending
Before(e, f, line) == \E i, j \in DOMAIN line : i < j /\ line[i].event = e /\ line[j].event = f
OldestFirst ==
  [][\A p \in Retrier, e, f \in Event :
       /\ \A q \in Retrier \ {p} : ~busy[q] /\ ~busy'[q]
       /\ Before(e, f, Line(p))
       => ~Before(f, e, Line(p)')]_deliveryVars

\* A Retry comes to an end, however often the events it took are retained again.
RetryEnds == \A p \in Retrier : busy[p] ~> ~busy[p]

\* No retained event is lost, copied or malformed.
DeliverySafe == DeliveryTypeOK /\ HeldOnce

\* What becomes of an event: the attempts that were promised, in order, and no
\* Retry that lasts for ever.
DeliveryKept == RetriesAsPromised /\ OldestFirst /\ RetryEnds
=============================================================================
