------------------------------- MODULE Tables -------------------------------
(***************************************************************************)
(* The operations views of the dashboard: rows of drivers, deliveries or   *)
(* vehicles under a row of status tiles that filter them, a search box and *)
(* sortable headers (operations/DriversView.tsx, DeliveriesView.tsx,       *)
(* StatusCounts.tsx, views/VehiclesView.tsx, components/Table.tsx).        *)
(*                                                                         *)
(* Rows are numbered as they are given.  Of a row its status and one       *)
(* sortable cell are kept, of a query the rows it matches.                 *)
(***************************************************************************)
EXTENDS Ordering, Integers, SequencesExt

CONSTANTS
  Rows,        \* how many rows
  RowStatus,   \* the canonical statuses
  OtherStatus, \* a status that is not in the list
  Cell, Null   \* values of the sortable cell: numbers, or null

ASSUME TablesAssumption == Rows \in Nat /\ Cell \subseteq Int /\ Null \notin RowStatus

Row == 1..Rows

VARIABLES
  statusOf, cellOf,    \* the data
  tile,        \* filter: the selected status, or Null
  hits,        \* rows the query matches, or the query is blank: {Null}
  sort,        \* "none", "asc" or "desc"
  chosen       \* selectedId, or 0

tableVars == <<statusOf, cellOf, tile, hits, sort, chosen>>

TablesInit ==
  /\ statusOf \in [Row -> RowStatus \cup {OtherStatus}]
  /\ cellOf \in [Row -> {<<c>> : c \in Cell} \cup {<<>>}]
  /\ tile = Null /\ hits = {Null} /\ sort = "none" /\ chosen = 0

-----------------------------------------------------------------------------
\* The tile that is selected clears the filter.
ClickTile(s) ==
  /\ tile' = IF tile = s THEN Null ELSE s
  /\ UNCHANGED <<statusOf, cellOf, hits, sort, chosen>>

Type(rows) ==
  /\ hits' = rows
  /\ UNCHANGED <<statusOf, cellOf, tile, sort, chosen>>

ToggleSort ==
  /\ sort' = IF sort = "asc" THEN "desc" ELSE "asc"
  /\ UNCHANGED <<statusOf, cellOf, tile, hits, chosen>>

Base    == IF hits = {Null} THEN Row ELSE hits
Visible == IF tile = Null THEN Base ELSE {r \in Base : statusOf[r] = tile}

\* sortRows: null cells last in both directions; equal cells as given.
MutPrecedes(q, r) ==
  LET a == cellOf[q]  b == cellOf[r]
      less == IF b = <<>> THEN a # <<>> \/ q < r
              ELSE a # <<>> /\ (a[1] < b[1] \/ (a[1] = b[1] /\ q < r))
  IN  IF sort = "asc" THEN less ELSE q # r /\ ~less
Precedes(q, r) ==
  LET a == cellOf[q]  b == cellOf[r] IN
  \/ a # <<>> /\ b = <<>>
  \/ a = b /\ q < r
  \/ a # <<>> /\ b # <<>> /\ (IF sort = "asc" THEN a[1] < b[1] ELSE a[1] > b[1])

Sorted ==
  IF sort = "none" THEN InOrder(Visible)
  ELSE OrderedBy(Visible, {p \in Visible \X Visible : Precedes(p[1], p[2])})

\* countByStatus, of all rows: every canonical status has a count.
Count(s) == Cardinality({r \in Row : statusOf[r] = s})

ClickRow(r) ==
  /\ r \in Visible /\ chosen' = r
  /\ UNCHANGED <<statusOf, cellOf, tile, hits, sort>>

TablesNext ==
  \/ \E s \in RowStatus : ClickTile(s)
  \/ \E rows \in (SUBSET Row) \cup {{Null}} : Type(rows)
  \/ ToggleSort
  \/ \E r \in Row : ClickRow(r)

TablesSpec == TablesInit /\ [][TablesNext]_tableVars
-----------------------------------------------------------------------------
(***************************************************************************)
(* Properties.                                                             *)
(***************************************************************************)

\* Whatever was clicked and typed before, the rows are exactly those that match
\* tile and query, each once, by the sorted column; cells without a value come
\* last and equal cells keep their order both ways, so that toggling the
\* direction twice gives the rows back as they were.
RowsAreTheMatches ==
  /\ ToSet(Sorted) = {r \in Row : tile \in {Null, statusOf[r]} /\ (hits = {Null} \/ r \in hits)}
  /\ IsInjective(Sorted)
  /\ \A i, j \in DOMAIN Sorted : i < j =>
       LET a == cellOf[Sorted[i]]  b == cellOf[Sorted[j]] IN
         /\ sort = "none" => Sorted[i] < Sorted[j]
         /\ sort # "none" /\ a = b => Sorted[i] < Sorted[j]
         /\ sort # "none" /\ a = <<>> => b = <<>>
         /\ sort = "asc"  /\ a # <<>> /\ b # <<>> => a[1] <= b[1]
         /\ sort = "desc" /\ a # <<>> /\ b # <<>> => a[1] >= b[1]

\* The tiles count the whole fleet, whatever is filtered, and a tile says how
\* many rows a click on it shows when there is no query.
TilesPredictTheRows ==
  \A s \in RowStatus : tile = s /\ hits = {Null} => Len(Sorted) = Count(s)

\* What the live map does with its selection (MapView), the roster does not: a
\* driver who is filtered out stays in the detail panel.
ChosenIsVisible == chosen # 0 => chosen \in Visible

\* What a table shows is what was asked for.
TablesSafe == RowsAreTheMatches /\ TilesPredictTheRows
=============================================================================
