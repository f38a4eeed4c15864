-------------------------- MODULE ZoneEventPromise --------------------------
(***************************************************************************)
(* What requirement 6.7 promises of a zone event, whoever delivers it: it  *)
(* is attempted one time after the other until an attempt succeeds, and    *)
(* given up after the first attempt and MaxZoneEventRetries retries.       *)
(***************************************************************************)
EXTENDS Naturals

CONSTANTS Event, MaxZoneEventRetries

VARIABLES tries, outcome

Init ==
  /\ tries = [e \in Event |-> 0]
  /\ outcome = [e \in Event |-> "open"]

Succeed(e) ==
  /\ outcome[e] = "open"
  /\ tries' = [tries EXCEPT ![e] = @ + 1]
  /\ outcome' = [outcome EXCEPT ![e] = "delivered"]

Fail(e) ==
  /\ outcome[e] = "open"
  /\ tries' = [tries EXCEPT ![e] = @ + 1]
  /\ outcome' = [outcome EXCEPT ![e] = IF tries[e] = MaxZoneEventRetries THEN "given_up" ELSE @]

Next == \E e \in Event : Succeed(e) \/ Fail(e)

Spec == Init /\ [][Next]_<<tries, outcome>>
=============================================================================
