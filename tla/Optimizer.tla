------------------------------ MODULE Optimizer ------------------------------
(***************************************************************************)
(* The route optimizer (services/optimizer): stops within 25 m of each     *)
(* other, directly or over others, become one stop (cluster_stops, with a  *)
(* union-find), the clusters are put in an order (OR-Tools, which may      *)
(* return any), and the answer goes to the route builder of the management *)
(* service.                                                                *)
(*                                                                         *)
(* Stops are numbered in the order of the request; geometry is abstracted  *)
(* to the pairs that are close.                                            *)
(***************************************************************************)
EXTENDS RouteBuilder

CONSTANT StopCount   \* len(stops)

ASSUME OptimizerAssumption == StopCount \in Nat

Stop == 1..StopCount

VARIABLES
  near,        \* the pairs <<i, j>>, i < j, at most GROUP_THRESHOLD_M apart
  parent,      \* _UnionFind._parent
  todo,        \* the pairs still to be compared, in the order of the loops
  reply        \* what optimize returned

optimizerVars == <<near, parent, todo, reply>>

Pair == {p \in Stop \X Stop : p[1] < p[2]}
Pairs == OrderedBy(Pair, {r \in Pair \X Pair :
           r[1][1] < r[2][1] \/ (r[1][1] = r[2][1] /\ r[1][2] < r[2][2])})

OptimizerInit ==
  /\ near \in SUBSET Pair
  /\ parent = [x \in Stop |-> x]
  /\ todo = Pairs
  /\ reply = <<>>

\* find: the root of a tree; the parents of the path to it are set to it.
Find(x) ==
  LET root[y \in Stop] == IF parent[y] = y THEN y ELSE root[parent[y]] IN root[x]
Path(x) ==
  LET path[y \in Stop] == IF parent[y] = y THEN {} ELSE {y} \cup path[parent[y]] IN path[x]

MutUnion(a, b) ==
  parent' = [parent EXCEPT ![IF a < b THEN b ELSE a] = IF a < b THEN a ELSE b]
Union(a, b) ==
  LET ra == Find(a)
      rb == Find(b)
      flat == [x \in Stop |-> IF x \in Path(a) THEN ra ELSE IF x \in Path(b) THEN rb
                              ELSE parent[x]]
  IN  parent' = IF ra = rb THEN flat
                ELSE [flat EXCEPT ![Max({ra, rb})] = Min({ra, rb})]

Compare ==
  /\ todo # <<>> /\ todo' = Tail(todo)
  /\ IF Head(todo) \in near THEN Union(Head(todo)[1], Head(todo)[2]) ELSE UNCHANGED parent
  /\ UNCHANGED <<near, reply>>

\* The clusters, members in the order of the request, visited in some order.
Cluster(root) == InOrder({x \in Stop : Find(x) = root})
Solve ==
  /\ todo = <<>> /\ reply = <<>>
  /\ \E order \in SetToSeqs({Find(x) : x \in Stop}) :
       LET groups == [i \in DOMAIN order |-> Cluster(order[i])]
       IN  reply' = [sequence |-> FlattenSeq(groups), groups |-> groups]
  /\ UNCHANGED <<near, parent, todo>>

OptimizerNext == Compare \/ Solve

OptimizerSpec == OptimizerInit /\ [][OptimizerNext]_optimizerVars
-----------------------------------------------------------------------------
(***************************************************************************)
(* Properties.                                                             *)
(***************************************************************************)

\* The stops connected to x by pairs in S: in every set that has x and breaks
\* no pair.
Reach(x, S) ==
  {y \in Stop : \A C \in SUBSET Stop :
                  x \in C /\ (\A p \in S : p[1] \in C <=> p[2] \in C) => y \in C}

Compared == {p \in near : ~Contains(todo, p)}

\* Requirement 9.4: at every point of the loops the trees are the connected
\* components of the pairs compared, whatever path compression has rearranged,
\* and the root of each is its first stop.
TreesAreComponents ==
  \A x \in Stop : /\ {y \in Stop : Find(y) = Find(x)} = Reach(x, Compared)
                  /\ Find(x) = Min(Reach(x, Compared))

\* Across the two services: whatever the order, the management service accepts
\* the answer, and makes of it one stop for each cluster, in that order.
AnswerIsAccepted ==
  reply # <<>> =>
    LET ids == [x \in Stop |-> x] IN
      /\ IsExactCover(reply.sequence, ids)
      /\ OptimizedStops(reply.sequence, reply.groups, ids)
           = [i \in DOMAIN reply.groups |-> ToSet(reply.groups[i])]
      /\ \A x \in Stop : \E i \in DOMAIN reply.groups : ToSet(reply.groups[i]) = Reach(x, near)

\* The clusters are right while they grow, and the route builder takes them.
OptimizerSafe == TreesAreComponents /\ AnswerIsAccepted
=============================================================================
