------------------------------ MODULE Reporting ------------------------------
(***************************************************************************)
(* The historical queries of the management service (src/reporting) over   *)
(* its two logs: status transitions of deliveries and location pings.      *)
(* Entries arrive in any order of their timestamps, as the pings that a    *)
(* phone has buffered do.                                                  *)
(***************************************************************************)
EXTENDS Ordering, SequencesExt

CONSTANTS
  Subject,     \* deliveries, or vehicles
  Instant,     \* a range of timestamps
  LogSize      \* bound on the records of both logs

ASSUME ReportingAssumption == Instant \subseteq Nat /\ LogSize \in Nat

Terminal == {"Completed", "Failed", "Cancelled"}
ToStatus == Terminal \cup {"Created"}   \* "Created" stands for the others

VARIABLES
  entries,     \* the history repository: delivery, status, time
  pings        \* the ping repository: vehicle, time

reportVars == <<entries, pings>>

ReportInit == entries = <<>> /\ pings = <<>>

InsertEntry(d, status, t) ==
  /\ Len(entries) + Len(pings) < LogSize
  /\ entries' = Append(entries, [of |-> d, status |-> status, at |-> t]) /\ UNCHANGED pings
InsertPing(v, t) ==
  /\ Len(entries) + Len(pings) < LogSize
  /\ pings' = Append(pings, [of |-> v, at |-> t]) /\ UNCHANGED entries

ReportNext ==
  \E s \in Subject, t \in Instant :
    \/ \E status \in ToStatus : InsertEntry(s, status, t)
    \/ InsertPing(s, t)

ReportSpec == ReportInit /\ [][ReportNext]_reportVars
-----------------------------------------------------------------------------
(***************************************************************************)
(* The queries.                                                            *)
(***************************************************************************)

\* stableSortByTime: equal times keep the order of the log.
MutStableSortByTime(log) ==
  LET order == OrderedBy(DOMAIN log, {p \in (DOMAIN log) \X (DOMAIN log) :
                 \/ log[p[1]].at < log[p[2]].at
                 \/ log[p[1]].at = log[p[2]].at /\ p[1] > p[2]})
  IN  [n \in DOMAIN log |-> log[order[n]]]
StableSortByTime(log) ==
  LET order == OrderedBy(DOMAIN log, {p \in (DOMAIN log) \X (DOMAIN log) :
                 \/ log[p[1]].at < log[p[2]].at
                 \/ log[p[1]].at = log[p[2]].at /\ p[1] < p[2]})
  IN  [n \in DOMAIN log |-> log[order[n]]]

\* parseRange rejects an inverted range.
InRange(x, from, to) == x.at \in from..to

DeliveryHistory(d) ==
  StableSortByTime(SelectAt(entries, {i \in DOMAIN entries : entries[i].of = d}))

VehicleTrack(v, from, to) ==
  StableSortByTime(SelectAt(pings,
    {i \in DOMAIN pings : pings[i].of = v /\ InRange(pings[i], from, to)}))

DeliverySummary(from, to) ==
  [status \in Terminal |->
     Cardinality({i \in DOMAIN entries :
                    entries[i].status = status /\ InRange(entries[i], from, to)})]

-----------------------------------------------------------------------------
(***************************************************************************)
(* Properties.                                                             *)
(***************************************************************************)

ByTime(s)      == \A i, j \in DOMAIN s : i < j => s[i].at <= s[j].at
TimesOf(s, x)  == Cardinality({i \in DOMAIN s : s[i] = x})

\* Design, Property 40: a query returns the records of its delivery or vehicle
\* within the range, all of them, by time and then in the order they came.
QueriesAreExact ==
  \A s \in Subject :
    LET history == DeliveryHistory(s) IN
    /\ ByTime(history)
    /\ \A e \in ToSet(entries) :
         TimesOf(history, e) = IF e.of = s THEN TimesOf(entries, e) ELSE 0
    /\ \A t \in Instant :   \* ties
         SelectAt(history, {i \in DOMAIN history : history[i].at = t})
           = SelectAt(entries, {i \in DOMAIN entries : entries[i].of = s /\ entries[i].at = t})
    /\ \A from, to \in Instant :
         LET track == VehicleTrack(s, from, to) IN
         /\ ByTime(track)
         /\ \A p \in ToSet(pings) :
              TimesOf(track, p)
                = IF p.of = s /\ from <= p.at /\ p.at <= to THEN TimesOf(pings, p) ELSE 0

\* Reports of adjoining periods add up: no transition is counted in two of
\* them or falls between them.
SummariesAddUp ==
  \A from, to \in Instant : \A mid \in from..to - 1 : \A status \in Terminal :
    DeliverySummary(from, to)[status]
      = DeliverySummary(from, mid)[status] + DeliverySummary(mid + 1, to)[status]

\* Reports are complete, exact and consistent with each other.
ReportsSafe == QueriesAreExact /\ SummariesAddUp
=============================================================================
