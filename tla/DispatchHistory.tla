--------------------------- MODULE DispatchHistory ---------------------------
(***************************************************************************)
(* Dispatch with a memory of the calls that bypass the workflow.  The      *)
(* services refuse neither a status set by hand nor accept and completion  *)
(* called again on a Complete assignment, so nothing here forbids them:    *)
(* two history variables, which no call reads, name the drivers and the    *)
(* assignments they were made for, and the rules that tie a driver's       *)
(* status to the assignments are stated for the others.                    *)
(***************************************************************************)
EXTENDS Dispatch

VARIABLES
  byHand,    \* history: the drivers whose status was ever set by hand
  repeated   \* history: the assignments accepted or completed after they were Complete

historyVars == <<driver, vehicle, delivery, assignment, byHand, repeated>>

HistoryInit == Init /\ byHand = {} /\ repeated = {}

Workflow == WorkflowNext /\ UNCHANGED <<byHand, repeated>>

SetByHand(d) ==
  /\ HandCall(d)
  /\ byHand' = byHand \cup {d}
  /\ UNCHANGED repeated

Repeat(a) ==
  /\ RepeatedCall(a)
  /\ repeated' = repeated \cup {a}
  /\ UNCHANGED byHand

HistoryNext ==
  \/ Workflow
  \/ \E d \in Driver : SetByHand(d)
  \/ \E a \in Assignment : Repeat(a)

HistorySpec == HistoryInit /\ [][HistoryNext]_historyVars

-----------------------------------------------------------------------------
(***************************************************************************)
(* Properties.                                                             *)
(***************************************************************************)

\* The drivers on whose behalf the workflow was bypassed.
Bypassed == byHand \cup {assignment[a].driver : a \in repeated}

\* A driver shown On_Delivery has an assignment that is not complete, unless
\* the status was set by hand; repeated calls never break this.
BusyHasAssignment ==
  \A d \in Driver : d \notin byHand /\ driver[d].status = "On_Delivery" =>
    \E a \in Assignment : assignment[a].driver = d /\ Active(assignment[a])

\* Requirement 2.5: the driver of an active assignment is On_Delivery; neither
\* the driver's own choices nor the work of other drivers take that away.
ActiveIsOnDelivery ==
  \A a \in Assignment : Active(assignment[a]) /\ assignment[a].driver \notin Bypassed =>
    driver[assignment[a].driver].status = "On_Delivery"

\* A driver works on at most one active assignment at a time: create accepts
\* only an Available driver.
OneActiveAssignment ==
  \A a, b \in Assignment :
    /\ Active(assignment[a]) /\ Active(assignment[b]) /\ a # b
    /\ assignment[a].driver \notin Bypassed
    => assignment[a].driver # assignment[b].driver

\* A driver's status and the assignments agree for every driver on whose behalf
\* the workflow was never bypassed.
StatusMatchesWork == ActiveIsOnDelivery /\ OneActiveAssignment /\ BusyHasAssignment

\* The same rules for every driver: what requirement 2.5 says.  A repeated call
\* or a status set by hand breaks it.
StatusAlwaysMatchesWork ==
  \A a \in Assignment : Active(assignment[a]) =>
    driver[assignment[a].driver].status = "On_Delivery"
=============================================================================
