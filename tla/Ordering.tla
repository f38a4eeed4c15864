------------------------------ MODULE Ordering ------------------------------
(***************************************************************************)
(* The sorts and filters of the code, by the position an element gets: a   *)
(* sort puts at i the element with i - 1 others before it, and a filter    *)
(* keeps the order of the positions it leaves.                             *)
(***************************************************************************)
EXTENDS Naturals, Sequences, FiniteSets

\* The elements of the finite set S in the order R, a set of pairs.
OrderedBy(S, R) ==
  [i \in 1..Cardinality(S) |->
     CHOOSE x \in S : Cardinality({y \in S : <<y, x>> \in R}) = i - 1]

\* A set of numbers as an ascending sequence.
InOrder(S) == OrderedBy(S, {p \in S \X S : p[1] < p[2]})

\* What s has at the positions in I.
SelectAt(s, I) == LET at == InOrder(I) IN [n \in DOMAIN at |-> s[at[n]]]
=============================================================================
