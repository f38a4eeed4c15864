---------------------------- MODULE RouteBuilder ----------------------------
(***************************************************************************)
(* route-builder.ts: the stops of a route from the deliveries of an        *)
(* assignment and what the optimizer answers, a sequence of deliveries and *)
(* groups of them that share a stop.                                       *)
(***************************************************************************)
EXTENDS Ordering, FiniteSetsExt, SequencesExt

MutIsExactCoverCounts(sequence, ids) == Len(sequence) = Len(ids)
IsExactCover(sequence, ids) ==
  /\ Len(sequence) = Len(ids)
  /\ IsInjective(sequence) /\ Range(sequence) \subseteq Range(ids)

AssignedOrderStops(ids) == [i \in DOMAIN ids |-> {ids[i]}]

\* A delivery's group is the last one that lists it; the key of a group is its
\* first delivery of this assignment.
GroupKeyOf(id, groups, ids) ==
  LET of     == {i \in DOMAIN groups : id \in Range(groups[i])}
      own(g) == {i \in DOMAIN g : g[i] \in Range(ids)}
  IN  IF of = {} THEN id ELSE groups[Max(of)][Min(own(groups[Max(of)]))]

\* One stop per key, where the sequence first meets it.  Foreign deliveries are
\* skipped.
OptimizedStops(sequence, groups, ids) ==
  LET visits  == {i \in DOMAIN sequence : sequence[i] \in Range(ids)}
      key(i)  == GroupKeyOf(sequence[i], groups, ids)
      first   == {i \in visits : \A j \in visits : key(j) = key(i) => i <= j}
      stop(i) == {sequence[j] : j \in {k \in visits : key(k) = key(i)}}
      order   == InOrder(first)
  IN  [n \in DOMAIN order |-> stop(order[n])]
=============================================================================
