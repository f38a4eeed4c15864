--------------------------- MODULE OrderingProofs ---------------------------
(***************************************************************************)
(* Lemmas about finite sets that are put in order, which the proofs about  *)
(* the modules that sort and filter cite.  Ranks, the number of elements   *)
(* before an element, are a numbering of the set.                          *)
(***************************************************************************)
EXTENDS Ordering, Integers, SequencesExt, FiniteSetTheorems, SequenceTheorems, TLAPS

\* R is a strict total order of S.
TotalOrder(S, R) ==
  /\ \A x \in S : <<x, x>> \notin R
  /\ \A x, y, z \in S : <<x, y>> \in R /\ <<y, z>> \in R => <<x, z>> \in R
  /\ \A x, y \in S : x # y => <<x, y>> \in R \/ <<y, x>> \in R

Below(S, R, x) == {y \in S : <<y, x>> \in R}
Rank(S, R, x)  == Cardinality(Below(S, R, x))

\* A rank is a number below the number of elements.
LEMMA RankInRange ==
  ASSUME NEW S, IsFiniteSet(S), NEW R, TotalOrder(S, R), NEW x \in S
  PROVE  /\ IsFiniteSet(Below(S, R, x)) /\ Cardinality(S) \in Nat
         /\ Rank(S, R, x) \in Nat /\ Rank(S, R, x) < Cardinality(S)
<1>1. Below(S, R, x) \in SUBSET S /\ Below(S, R, x) # S
  BY DEF Below, TotalOrder
<1>2. /\ IsFiniteSet(Below(S, R, x)) /\ Cardinality(Below(S, R, x)) <= Cardinality(S)
      /\ Cardinality(Below(S, R, x)) # Cardinality(S)
  BY <1>1, FS_Subset
<1>3. Cardinality(Below(S, R, x)) \in Nat /\ Cardinality(S) \in Nat
  BY <1>2, FS_CardinalityType
<1> QED BY <1>2, <1>3 DEF Rank

\* Later elements have more before them.
LEMMA RankGrows ==
  ASSUME NEW S, IsFiniteSet(S), NEW R, TotalOrder(S, R), NEW x \in S, NEW y \in S,
         <<x, y>> \in R
  PROVE  Rank(S, R, x) < Rank(S, R, y)
<1>1. /\ Below(S, R, x) \in SUBSET Below(S, R, y) /\ x \in Below(S, R, y)
      /\ x \notin Below(S, R, x)
  BY DEF Below, TotalOrder
<1>2. IsFiniteSet(Below(S, R, y)) /\ Rank(S, R, x) \in Nat /\ Rank(S, R, y) \in Nat
  BY RankInRange
<1>3. Rank(S, R, x) <= Rank(S, R, y) /\ Rank(S, R, x) # Rank(S, R, y)
  BY <1>1, <1>2, FS_Subset DEF Rank
<1> QED BY <1>2, <1>3

\* An element that is before another has the smaller rank, and only then.
LEMMA RankDecides ==
  ASSUME NEW S, IsFiniteSet(S), NEW R, TotalOrder(S, R), NEW x \in S, NEW y \in S
  PROVE  /\ Rank(S, R, x) = Rank(S, R, y) => x = y
         /\ Rank(S, R, x) < Rank(S, R, y) => <<x, y>> \in R
<1>1. Rank(S, R, x) \in Nat /\ Rank(S, R, y) \in Nat
  BY RankInRange
<1>2. <<x, y>> \in R => Rank(S, R, x) < Rank(S, R, y)
  BY RankGrows
<1>3. <<y, x>> \in R => Rank(S, R, y) < Rank(S, R, x)
  BY RankGrows
<1>4. x = y \/ <<x, y>> \in R \/ <<y, x>> \in R
  BY DEF TotalOrder
<1> QED BY <1>1, <1>2, <1>3, <1>4

\* A finite set with a strict total order is numbered by its ranks.
LEMMA RankIsNumbering ==
  ASSUME NEW S, IsFiniteSet(S), NEW R, TotalOrder(S, R), NEW i \in 1..Cardinality(S)
  PROVE  \E x \in S : Rank(S, R, x) = i - 1
<1> DEFINE n == Cardinality(S)
           number == [x \in S |-> Rank(S, R, x) + 1]
<1>1. n \in Nat /\ IsFiniteSet(1..n) /\ Cardinality(1..n) = n
  BY FS_CardinalityType, FS_Interval
<1>2. number \in [S -> 1..n]
  <2>1. ASSUME NEW x \in S PROVE Rank(S, R, x) + 1 \in 1..n
    BY RankInRange
  <2> QED BY <2>1
<1>3. \A x, y \in S : number[x] = number[y] => x = y
  <2> SUFFICES ASSUME NEW x \in S, NEW y \in S, number[x] = number[y] PROVE x = y
    OBVIOUS
  <2>1. Rank(S, R, x) \in Nat /\ Rank(S, R, y) \in Nat
    BY RankInRange
  <2>2. Rank(S, R, x) = Rank(S, R, y)
    BY <2>1
  <2> QED BY <2>2, RankDecides
<1>4. number \in Surjection(S, 1..n)
  <2> HIDE DEF number, n
  <2>1. number \in Injection(S, 1..n)
    BY <1>2, <1>3 DEF Injection, IsInjective
  <2> QED BY <1>1, <2>1, FS_Injection DEF n
<1>5. PICK x \in S : number[x] = i
  <2> HIDE DEF number
  <2> QED BY <1>4 DEF Surjection
<1>6. Rank(S, R, x) \in Nat /\ Rank(S, R, x) + 1 = i
  BY <1>5, RankInRange
<1>7. Rank(S, R, x) = i - 1
  BY <1>6
<1> QED BY <1>7

\* What OrderedBy makes is a sequence of all elements, each once, in the order.
LEMMA OrderedByIsNumbering ==
  ASSUME NEW S, IsFiniteSet(S), NEW R, TotalOrder(S, R)
  PROVE  /\ Cardinality(S) \in Nat /\ OrderedBy(S, R) \in [1..Cardinality(S) -> S]
         /\ \A i, j \in 1..Cardinality(S) :
              i < j => <<OrderedBy(S, R)[i], OrderedBy(S, R)[j]>> \in R
         /\ \A x \in S : \E i \in 1..Cardinality(S) : OrderedBy(S, R)[i] = x
         /\ \A i, j \in 1..Cardinality(S) : OrderedBy(S, R)[i] = OrderedBy(S, R)[j] => i = j
<1> DEFINE n == Cardinality(S)
           f == OrderedBy(S, R)
<1>1. n \in Nat
  BY FS_CardinalityType
<1>2. f = [i \in 1..n |-> CHOOSE x \in S : Rank(S, R, x) = i - 1]
  BY DEF OrderedBy, Rank, Below
<1>3. \A i \in 1..n : \E x \in S : Rank(S, R, x) = i - 1
  BY RankIsNumbering
<1>4. f \in [1..n -> S] /\ \A i \in 1..n : Rank(S, R, f[i]) = i - 1
  <2> HIDE DEF f, n
  <2> QED BY <1>2, <1>3
<1> HIDE DEF f
<1>5. ASSUME NEW i \in 1..n, NEW j \in 1..n, i < j PROVE <<f[i], f[j]>> \in R
  <2>1. f[i] \in S /\ f[j] \in S /\ Rank(S, R, f[i]) < Rank(S, R, f[j])
    BY <1>1, <1>4, <1>5
  <2> QED BY <2>1, RankDecides
<1>6. ASSUME NEW x \in S PROVE \E i \in 1..n : f[i] = x
  <2> DEFINE i == Rank(S, R, x) + 1
  <2>1. i \in 1..n /\ Rank(S, R, x) \in Nat
    BY RankInRange
  <2>2. f[i] \in S /\ Rank(S, R, f[i]) = Rank(S, R, x)
    BY <1>4, <2>1
  <2>3. f[i] = x
    BY <2>2, RankDecides
  <2> QED BY <2>1, <2>3
<1>7. ASSUME NEW i \in 1..n, NEW j \in 1..n, f[i] = f[j] PROVE i = j
  <2>1. i - 1 = j - 1
    BY <1>4, <1>7
  <2> QED BY <1>1, <2>1
<1> QED BY <1>1, <1>4, <1>5, <1>6, <1>7 DEF f

\* Numbers are totally ordered by <, so that InOrder is an OrderedBy.
LEMMA NumbersAreOrdered ==
  ASSUME NEW S \in SUBSET Int
  PROVE  TotalOrder(S, {p \in S \X S : p[1] < p[2]})
<1> DEFINE R == {p \in S \X S : p[1] < p[2]}
<1>1. \A x, y \in S : <<x, y>> \in R <=> x < y
  OBVIOUS
<1> HIDE DEF R
<1>2. \A x \in S : x \in Int
  OBVIOUS
<1> QED BY <1>1, <1>2 DEF TotalOrder, R

\* InOrder numbers a finite set of integers, ascending and each once.
LEMMA InOrderIsNumbering ==
  ASSUME NEW S \in SUBSET Int, IsFiniteSet(S)
  PROVE  /\ Cardinality(S) \in Nat /\ InOrder(S) \in [1..Cardinality(S) -> S]
         /\ \A i, j \in 1..Cardinality(S) : i < j => InOrder(S)[i] < InOrder(S)[j]
         /\ \A x \in S : \E i \in 1..Cardinality(S) : InOrder(S)[i] = x
         /\ \A i, j \in 1..Cardinality(S) : InOrder(S)[i] = InOrder(S)[j] => i = j
<1> DEFINE R == {p \in S \X S : p[1] < p[2]}
<1>1. \A x, y : <<x, y>> \in R => x < y
  OBVIOUS
<1>2. InOrder(S) = OrderedBy(S, R) /\ TotalOrder(S, R)
  BY NumbersAreOrdered DEF InOrder
<1> HIDE DEF R
<1> DEFINE f == OrderedBy(S, R)
<1>3. /\ Cardinality(S) \in Nat /\ f \in [1..Cardinality(S) -> S]
      /\ \A i, j \in 1..Cardinality(S) : i < j => <<f[i], f[j]>> \in R
      /\ \A x \in S : \E i \in 1..Cardinality(S) : f[i] = x
      /\ \A i, j \in 1..Cardinality(S) : f[i] = f[j] => i = j
  BY <1>2, OrderedByIsNumbering
<1> HIDE DEF f
<1>4. InOrder(S) = f
  BY <1>2 DEF f
<1> QED BY <1>1, <1>3, <1>4

\* A one-to-one correspondence keeps the number of elements.
LEMMA SameCount ==
  ASSUME NEW S, IsFiniteSet(S), NEW T, NEW f \in [S -> T],
         \A x, y \in S : f[x] = f[y] => x = y, \A z \in T : \E x \in S : f[x] = z
  PROVE  IsFiniteSet(T) /\ Cardinality(T) = Cardinality(S)
<1>1. f \in Bijection(S, T)
  BY DEF Bijection, Injection, Surjection, IsInjective
<1> QED BY <1>1, FS_Bijection DEF ExistsBijection

\* There is only one way to put a set in order.
LEMMA OrderedByIsUnique ==
  ASSUME NEW S, IsFiniteSet(S), NEW R, TotalOrder(S, R), NEW m \in Nat, NEW f \in [1..m -> S],
         \A i, j \in 1..m : i < j => <<f[i], f[j]>> \in R,
         \A x \in S : \E i \in 1..m : f[i] = x
  PROVE  m = Cardinality(S) /\ f = OrderedBy(S, R)
<1>1. ASSUME NEW i \in 1..m, NEW j \in 1..m PROVE <<f[i], f[j]>> \in R <=> i < j
  <2>1. i < j \/ i = j \/ j < i
    OBVIOUS
  <2>2. f[i] \in S /\ f[j] \in S
    OBVIOUS
  <2>3. ~(<<f[i], f[j]>> \in R /\ <<f[j], f[i]>> \in R) /\ <<f[i], f[i]>> \notin R
    BY <2>2 DEF TotalOrder
  <2> QED BY <2>1, <2>3
<1>2. \A i, j \in 1..m : f[i] = f[j] => i = j
  <2> SUFFICES ASSUME NEW i \in 1..m, NEW j \in 1..m, f[i] = f[j], i # j PROVE FALSE
    OBVIOUS
  <2>1. i < j \/ j < i
    OBVIOUS
  <2>2. <<f[i], f[i]>> \in R
    BY <1>1, <2>1
  <2> QED BY <2>2 DEF TotalOrder
<1>3. IsFiniteSet(1..m) /\ Cardinality(1..m) = m
  BY FS_Interval
<1>4. m = Cardinality(S)
  BY <1>2, <1>3, SameCount
<1>5. ASSUME NEW i \in 1..m PROVE Rank(S, R, f[i]) = i - 1
  <2> DEFINE g == [j \in 1..i - 1 |-> f[j]]
             B == Below(S, R, f[i])
  <2>1. i - 1 \in Nat /\ \A j : j \in 1..i - 1 <=> j \in 1..m /\ j < i
    OBVIOUS
  <2>2. \A j \in 1..m : f[j] \in B <=> j < i
    BY <1>1 DEF Below
  <2>3. B \subseteq S
    BY DEF Below
  <2> HIDE DEF B
  <2>4. g \in [1..i - 1 -> B] /\ \A j \in 1..i - 1 : g[j] = f[j]
    BY <2>1, <2>2
  <2>5. \A z \in B : \E j \in 1..i - 1 : g[j] = z
    BY <2>1, <2>2, <2>3, <2>4
  <2>6. \A j, k \in 1..i - 1 : g[j] = g[k] => j = k
    BY <1>2, <2>1, <2>4
  <2>7. IsFiniteSet(1..i - 1) /\ Cardinality(1..i - 1) = i - 1
    BY <2>1, FS_Interval
  <2> HIDE DEF g
  <2> QED BY <2>4, <2>5, <2>6, <2>7, SameCount DEF Rank, B
<1> DEFINE o == OrderedBy(S, R)
<1>6. o = [i \in 1..Cardinality(S) |-> CHOOSE x \in S : Rank(S, R, x) = i - 1]
  BY DEF OrderedBy, Rank, Below
<1> HIDE DEF o
<1>7. ASSUME NEW i \in 1..m PROVE o[i] = f[i]
  <2>1. f[i] \in S /\ Rank(S, R, f[i]) = i - 1
    BY <1>5
  <2>2. o[i] \in S /\ Rank(S, R, o[i]) = i - 1
    BY <1>4, <1>6, <2>1
  <2> DEFINE x == f[i]
             y == o[i]
  <2>3. x \in S /\ y \in S /\ Rank(S, R, x) = Rank(S, R, y)
    BY <2>1, <2>2
  <2> HIDE DEF x, y
  <2>4. x = y
    BY <2>3, RankDecides
  <2> QED BY <2>4 DEF x, y
<1>8. f = o
  BY <1>4, <1>6, <1>7
<1> QED BY <1>4, <1>8 DEF o

\* An ascending numbering of a set is InOrder of it.
LEMMA InOrderIsUnique ==
  ASSUME NEW S \in SUBSET Int, IsFiniteSet(S), NEW m \in Nat, NEW f \in [1..m -> S],
         \A i, j \in 1..m : i < j => f[i] < f[j],
         \A x \in S : \E i \in 1..m : f[i] = x
  PROVE  m = Cardinality(S) /\ f = InOrder(S)
<1>1. TotalOrder(S, {p \in S \X S : p[1] < p[2]})
  BY NumbersAreOrdered
<1>2. ASSUME NEW R, R = {p \in S \X S : p[1] < p[2]}, NEW g, g = f, NEW U, U = S
      PROVE  m = Cardinality(U) /\ g = OrderedBy(U, R)
  <2>1. TotalOrder(U, R) /\ IsFiniteSet(U) /\ g \in [1..m -> U]
    BY <1>1, <1>2
  <2>2. \A i, j \in 1..m : i < j => <<g[i], g[j]>> \in R
    BY <1>2
  <2>3. \A x \in U : \E i \in 1..m : g[i] = x
    BY <1>2
  <2> QED BY ONLY m \in Nat, <2>1, <2>2, <2>3, OrderedByIsUnique
<1> QED BY <1>2 DEF InOrder

\* A set of numbers that is not empty has a least element.
LEMMA LeastExists ==
  ASSUME NEW S \in SUBSET Nat, S # {}
  PROVE  \E m \in S : \A x \in S : m <= x
<1>1. PICK n \in S : TRUE
  OBVIOUS
<1> DEFINE T == {x \in S : x <= n}
           f == InOrder(T)
<1>2. T \in SUBSET Int /\ n \in T /\ IsFiniteSet(T)
  <2>1. n \in Nat /\ \A x \in S : x \in Nat
    OBVIOUS
  <2>2. T \in SUBSET (0..n) /\ n \in T /\ T \in SUBSET Int
    <3>1. \A z \in T : z \in Nat /\ z <= n
      BY <2>1
    <3>2. n \in T
      BY <2>1
    <3> HIDE DEF T
    <3>3. \A z \in T : z \in 0..n /\ z \in Int
      BY <2>1, <3>1
    <3> QED BY <3>2, <3>3
  <2>3. IsFiniteSet(0..n)
    BY <2>1, FS_Interval
  <2> QED BY <2>2, <2>3, FS_Subset
<1>3. /\ Cardinality(T) \in Nat /\ f \in [1..Cardinality(T) -> T]
      /\ \A i, j \in 1..Cardinality(T) : i < j => f[i] < f[j]
      /\ \A x \in T : \E i \in 1..Cardinality(T) : f[i] = x
  <2> HIDE DEF T
  <2> QED BY <1>2, InOrderIsNumbering
<1>4. Cardinality(T) # 0
  BY <1>2, FS_EmptySet
<1>5. 1 \in 1..Cardinality(T)
  BY <1>3, <1>4
<1>6. f[1] \in T
  <2> HIDE DEF T, f
  <2> QED BY <1>3, <1>5
<1>7. ASSUME NEW x \in T PROVE f[1] <= x
  <2> HIDE DEF T, f
  <2>1. PICK i \in 1..Cardinality(T) : f[i] = x
    BY <1>3
  <2>2. 1 < i \/ i = 1
    BY <1>3
  <2>3. f[1] \in Int /\ x \in Int
    BY <1>2, <1>6
  <2> QED BY <1>3, <1>5, <2>1, <2>2, <2>3
<1> DEFINE m == f[1]
<1>8. m \in S /\ m \in Nat /\ m <= n
  BY <1>6
<1> HIDE DEF f, m
<1>9. ASSUME NEW x \in S PROVE m <= x
  <2>1. CASE x <= n
    BY <1>7, <2>1 DEF m
  <2>2. CASE ~(x <= n)
    BY <1>8, <2>2
  <2> QED BY <2>1, <2>2
<1> QED BY <1>8, <1>9

\* A finite set of numbers that is not empty has a greatest element, too.
LEMMA ExtremesExist ==
  ASSUME NEW S \in SUBSET Int, IsFiniteSet(S), S # {}
  PROVE  /\ \E m \in S : \A x \in S : m <= x
         /\ \E m \in S : \A x \in S : x <= m
<1> DEFINE n == Cardinality(S)
           f == InOrder(S)
<1>1. /\ n \in Nat /\ f \in [1..n -> S] /\ \A i, j \in 1..n : i < j => f[i] < f[j]
      /\ \A x \in S : \E i \in 1..n : f[i] = x
  BY InOrderIsNumbering
<1>2. n # 0
  BY FS_EmptySet
<1> HIDE DEF n, f
<1>3. 1 \in 1..n /\ n \in 1..n /\ \A i \in 1..n : (i = 1 \/ 1 < i) /\ (i = n \/ i < n)
  BY <1>1, <1>2
<1>4. \A i \in 1..n : f[i] \in S /\ f[i] \in Int
  BY <1>1
<1>5. ASSUME NEW x \in S PROVE f[1] <= x /\ x <= f[n]
  <2>1. PICK i \in 1..n : f[i] = x
    BY <1>1
  <2> QED BY <1>1, <1>3, <1>4, <2>1
<1> QED BY <1>3, <1>4, <1>5

\* Induction: a set of numbers that has 0, and with a number the next, has all.
LEMMA EveryNumber ==
  ASSUME NEW A, 0 \in A, \A n \in Nat : n \in A => n + 1 \in A
  PROVE  Nat \subseteq A
<1> DEFINE Rest == Nat \ A
<1> SUFFICES ASSUME Rest # {} PROVE FALSE
  OBVIOUS
<1>1. PICK m \in Rest : \A x \in Rest : m <= x
  BY LeastExists
<1>2. m \in Nat /\ m # 0 /\ m - 1 \in Nat /\ (m - 1) + 1 = m /\ ~(m <= m - 1)
  BY <1>1
<1>3. m - 1 \in A
  BY <1>1, <1>2
<1> QED BY <1>1, <1>2, <1>3

\* A function by recursion to smaller numbers, and that one exists.
Descends(to, S) == to \in [S -> S] /\ \A i \in S : to[i] <= i
Recursion(f, to, base, h) ==
  \A i \in DOMAIN f : /\ to[i] = i => f[i] = base[i]
                      /\ to[i] # i => f[i] = h[i][f[to[i]]]

\* What makes a recursive definition (a CHOOSE) that goes down have a value.
LEMMA RecursionExists ==
  ASSUME NEW n \in Nat, NEW S, S = 1..n, NEW to, Descends(to, S),
         NEW T, NEW base \in [S -> T], NEW h \in [S -> [T -> T]]
  PROVE  \E f \in [S -> T] : Recursion(f, to, base, h)
<1> USE DEF Descends
<1> DEFINE Obeys(f, i) == /\ to[i] = i => f[i] = base[i]
                          /\ to[i] # i => f[i] = h[i][f[to[i]]]
           Upto(f, k) == \A i \in S : i <= k => Obeys(f, i)
           A == {k \in Nat : \E f \in [S -> T] : Upto(f, k)}
<1>1. 0 \in A
  <2>1. \A i \in S : ~(i <= 0)
    OBVIOUS
  <2>2. Upto(base, 0)
    BY <2>1
  <2> HIDE DEF Upto
  <2> QED BY <2>2
<1>2. ASSUME NEW k \in Nat, k \in A PROVE k + 1 \in A
  <2>1. PICK f \in [S -> T] : Upto(f, k)
    BY <1>2
  <2> DEFINE x == k + 1
             v == IF to[x] = x THEN base[x] ELSE h[x][f[to[x]]]
             g == [f EXCEPT ![x] = v]
  <2>2. CASE x \in S
    <3>1. v \in T
      BY <2>2
    <3> HIDE DEF v
    <3>2. g \in [S -> T] /\ g[x] = v /\ \A i \in S : i # x => g[i] = f[i]
      BY <2>2, <3>1
    <3> HIDE DEF g
    <3>3. ASSUME NEW i \in S, i <= k PROVE Obeys(g, i)
      <4>1. i # x /\ to[i] # x /\ to[i] \in S
        BY <3>3
      <4>2. Obeys(f, i)
        BY <2>1, <3>3
      <4> QED BY <3>2, <4>1, <4>2
    <3>4. Obeys(g, x)
      <4>1. to[x] \in S
        BY <2>2
      <4> QED BY <3>2, <4>1 DEF v
    <3> HIDE DEF Obeys
    <3>5. ASSUME NEW i \in S, i <= k + 1 PROVE Obeys(g, i)
      <4>1. i <= k \/ i = x
        BY <3>5
      <4> QED BY <3>3, <3>4, <4>1
    <3>6. Upto(g, k + 1)
      BY <3>5
    <3> HIDE DEF Upto
    <3> QED BY <3>2, <3>6
  <2>3. CASE x \notin S
    <3>1. \A i \in S : i <= k + 1 => i <= k
      BY <2>3
    <3> HIDE DEF Obeys
    <3>2. Upto(f, k + 1)
      BY <2>1, <3>1
    <3> HIDE DEF Upto
    <3> QED BY <3>2
  <2> QED BY <2>2, <2>3
<1>3. n \in A
  <2> HIDE DEF A
  <2> QED BY <1>1, <1>2, EveryNumber
<1>4. PICK f \in [S -> T] : Upto(f, n)
  BY <1>3
<1>5. \A i \in S : Obeys(f, i)
  <2>1. \A i \in S : i <= n
    OBVIOUS
  <2> HIDE DEF Obeys
  <2> QED BY <1>4, <2>1
<1> QED BY <1>5 DEF Recursion

\* What SelectAt makes of a sequence: its elements at those positions, in order.
LEMMA SelectAtIsSelection ==
  ASSUME NEW T, NEW s \in Seq(T), NEW I \in SUBSET DOMAIN s
  PROVE  /\ IsFiniteSet(I) /\ Cardinality(I) \in Nat
         /\ SelectAt(s, I) \in Seq(T) /\ DOMAIN SelectAt(s, I) = 1..Cardinality(I)
         /\ InOrder(I) \in [1..Cardinality(I) -> I]
         /\ \A i, j \in 1..Cardinality(I) : i < j => InOrder(I)[i] < InOrder(I)[j]
         /\ \A x \in I : \E i \in 1..Cardinality(I) : InOrder(I)[i] = x
         /\ \A i, j \in 1..Cardinality(I) : InOrder(I)[i] = InOrder(I)[j] => i = j
         /\ \A i \in 1..Cardinality(I) : SelectAt(s, I)[i] = s[InOrder(I)[i]]
<1> DEFINE n == Cardinality(I)
           at == InOrder(I)
           g == [i \in DOMAIN at |-> s[at[i]]]
<1>1. Len(s) \in Nat /\ DOMAIN s = 1..Len(s) /\ \A i \in DOMAIN s : s[i] \in T
  BY LenProperties
<1>2. IsFiniteSet(I) /\ I \in SUBSET Int
  <2>1. IsFiniteSet(1..Len(s)) /\ 1..Len(s) \subseteq Int
    BY <1>1, FS_Interval
  <2> QED BY <1>1, <2>1, FS_Subset
<1>3. /\ n \in Nat /\ at \in [1..n -> I]
      /\ \A i, j \in 1..n : i < j => at[i] < at[j]
      /\ \A x \in I : \E i \in 1..n : at[i] = x
      /\ \A i, j \in 1..n : at[i] = at[j] => i = j
  BY <1>2, InOrderIsNumbering
<1>4. g = SelectAt(s, I)
  BY DEF SelectAt
<1> HIDE DEF at, n
<1>5. g \in [1..n -> T] /\ \A i \in 1..n : g[i] = s[at[i]]
  BY <1>1, <1>3
<1>6. g \in Seq(T) /\ DOMAIN g = 1..n
  BY <1>3, <1>5, SeqDef
<1> QED BY <1>2, <1>3, <1>4, <1>5, <1>6 DEF at, n

\* The two sequences in a concatenation.
LEMMA ConcatFacts ==
  ASSUME NEW T, NEW a \in Seq(T), NEW b \in Seq(T)
  PROVE  LET r == a \o b IN
         /\ r \in Seq(T) /\ Len(a) \in Nat /\ DOMAIN a = 1..Len(a)
         /\ \A i \in DOMAIN a : i \in DOMAIN r /\ r[i] = a[i]
         /\ \A i \in DOMAIN b : Len(a) + i \in DOMAIN r /\ r[Len(a) + i] = b[i]
         /\ \A i \in DOMAIN r : i \in Nat /\ (i \in DOMAIN a \/ (i > Len(a) /\ i - Len(a) \in DOMAIN b))
         /\ ToSet(r) = ToSet(a) \cup ToSet(b)
<1> DEFINE r == a \o b
           m == Len(a)
           n == Len(b)
<1>1. m \in Nat /\ n \in Nat /\ DOMAIN a = 1..m /\ DOMAIN b = 1..n
  BY LenProperties
<1>2. /\ r \in Seq(T) /\ Len(r) = m + n
      /\ \A i \in 1..m + n : r[i] = IF i <= m THEN a[i] ELSE b[i - m]
  BY ConcatProperties
<1> HIDE DEF r, m, n
<1>3. DOMAIN r = 1..m + n
  BY <1>2, LenProperties
<1>4. ASSUME NEW i \in DOMAIN a PROVE i \in DOMAIN r /\ r[i] = a[i]
  <2>1. i \in 1..m + n /\ i <= m
    BY <1>1
  <2> QED BY <1>2, <1>3, <2>1
<1>5. ASSUME NEW i \in DOMAIN b PROVE m + i \in DOMAIN r /\ r[m + i] = b[i]
  <2>1. m + i \in 1..m + n /\ ~(m + i <= m) /\ (m + i) - m = i
    BY <1>1
  <2> QED BY <1>2, <1>3, <2>1
<1>6. ASSUME NEW i \in DOMAIN r
      PROVE  i \in Nat /\ (i \in DOMAIN a \/ (i > m /\ i - m \in DOMAIN b))
  BY <1>1, <1>3
<1>7. ToSet(r) = ToSet(a) \cup ToSet(b)
  <2>1. \A x : x \in ToSet(r) <=> \E i \in DOMAIN r : r[i] = x
    BY DEF ToSet
  <2>2. \A x : x \in ToSet(a) <=> \E i \in DOMAIN a : a[i] = x
    BY DEF ToSet
  <2>3. \A x : x \in ToSet(b) <=> \E i \in DOMAIN b : b[i] = x
    BY DEF ToSet
  <2>4. ASSUME NEW i \in DOMAIN r PROVE r[i] \in ToSet(a) \cup ToSet(b)
    <3>1. CASE i \in DOMAIN a
      BY <1>4, <2>2, <3>1
    <3>2. CASE i - m \in DOMAIN b
      <4>1. m + (i - m) = i
        BY <1>1, <1>6
      <4> QED BY <1>5, <2>3, <3>2, <4>1
    <3> QED BY <1>6, <3>1, <3>2
  <2> QED BY <1>4, <1>5, <2>1, <2>2, <2>3, <2>4
<1> QED BY <1>1, <1>2, <1>4, <1>5, <1>6, <1>7 DEF r, m

\* A function that goes on to something smaller until it stops: it has, for
\* whatever it is asked of, the answer of where it stops.
GoesOn(D, size, next, stop, answer, T) ==
  /\ size \in [D -> Nat] /\ next \in [D -> D]
  /\ \A x \in D : x \in stop => answer[x] \in T
  /\ \A x \in D : x \notin stop => size[next[x]] < size[x]
Follows(f, D, next, stop, answer) ==
  \A x \in D : f[x] = IF x \in stop THEN answer[x] ELSE f[next[x]]

LEMMA GoingOnEnds ==
  ASSUME NEW D, NEW size, NEW next, NEW stop, NEW answer, NEW T,
         GoesOn(D, size, next, stop, answer, T)
  PROVE  \E f \in [D -> T] : Follows(f, D, next, stop, answer)
<1> USE DEF GoesOn
<1> DEFINE Obeys(f, x) == f[x] = IF x \in stop THEN answer[x] ELSE f[next[x]]
           Upto(f, k) == \A x \in D : size[x] <= k => f[x] \in T /\ Obeys(f, x)
           A == {k \in Nat : \E f : Upto(f, k)}
\* Two that obey as far as k agree as far as k.
<1>1. ASSUME NEW k \in Nat, NEW f, NEW g, Upto(f, k), Upto(g, k)
      PROVE  \A x \in D : size[x] <= k => f[x] = g[x]
  <2> DEFINE Bad == {x \in D : size[x] <= k /\ f[x] # g[x]}
             Sizes == {size[x] : x \in Bad}
  <2> SUFFICES ASSUME Bad # {} PROVE FALSE
    OBVIOUS
  <2>1. Sizes \in SUBSET Nat /\ Sizes # {}
    OBVIOUS
  <2>2. PICK m \in Sizes : \A n \in Sizes : m <= n
    BY <2>1, LeastExists
  <2>3. PICK x \in Bad : size[x] = m
    OBVIOUS
  <2>4. x \in D /\ size[x] <= k /\ f[x] # g[x] /\ Obeys(f, x) /\ Obeys(g, x)
    BY <1>1, <2>3
  <2>5. x \notin stop /\ next[x] \in D /\ size[next[x]] < size[x]
    BY <2>4
  <2>6. f[next[x]] # g[next[x]]
    BY <2>4, <2>5
  <2>7. size[next[x]] \in Nat /\ size[x] \in Nat /\ size[next[x]] <= k
    BY <2>4, <2>5
  <2>8. size[next[x]] \in Sizes
    BY <2>5, <2>6, <2>7
  <2>9. m <= size[next[x]] /\ m = size[x]
    <3> HIDE DEF Sizes, Bad
    <3> QED BY <2>2, <2>3, <2>8
  <2> HIDE DEF Sizes, Bad
  <2> QED BY <2>5, <2>7, <2>9
<1>2. 0 \in A
  <2> DEFINE f == [x \in D |-> answer[x]]
  <2>1. ASSUME NEW x \in D, size[x] <= 0 PROVE x \in stop
    <3>1. size[x] \in Nat /\ (x \notin stop => size[next[x]] \in Nat /\ size[next[x]] < size[x])
      OBVIOUS
    <3> QED BY <2>1, <3>1
  <2>2. Upto(f, 0)
    BY <2>1
  <2> QED BY <2>2
<1>3. ASSUME NEW k \in Nat, k \in A PROVE k + 1 \in A
  <2>1. PICK f : Upto(f, k)
    BY <1>3
  <2> DEFINE g == [x \in D |-> IF x \in stop THEN answer[x] ELSE f[next[x]]]
  <2>2. ASSUME NEW x \in D, size[x] <= k PROVE g[x] = f[x]
    BY <2>1, <2>2
  <2>3. ASSUME NEW x \in D, size[x] <= k + 1, x \notin stop
        PROVE  next[x] \in D /\ size[next[x]] <= k
    <3>1. size[x] \in Nat /\ next[x] \in D /\ size[next[x]] \in Nat /\ size[next[x]] < size[x]
      BY <2>3
    <3> QED BY <2>3, <3>1
  <2>4. ASSUME NEW x \in D, size[x] <= k + 1 PROVE g[x] \in T /\ Obeys(g, x)
    <3>1. CASE x \in stop
      BY <3>1
    <3>2. CASE x \notin stop
      <4>1. next[x] \in D /\ size[next[x]] <= k
        BY <2>3, <2>4, <3>2
      <4>2. g[next[x]] = f[next[x]] /\ f[next[x]] \in T
        BY <2>1, <2>2, <4>1
      <4> QED BY <3>2, <4>2
    <3> QED BY <3>1, <3>2
  <2> HIDE DEF g
  <2>5. Upto(g, k + 1)
    BY <2>4
  <2> QED BY <2>5
<1>4. Nat \subseteq A
  <2> HIDE DEF A
  <2> QED BY <1>2, <1>3, EveryNumber
<1> DEFINE at(k) == CHOOSE f : Upto(f, k)
           h == [x \in D |-> at(size[x])[x]]
<1>5. \A k \in Nat : Upto(at(k), k)
  <2> TAKE k \in Nat
  <2>1. \E f : Upto(f, k)
    BY <1>4
  <2> HIDE DEF Upto
  <2> QED BY <2>1
<1>6. ASSUME NEW x \in D PROVE h[x] \in T /\ Obeys(h, x)
  <2>1. size[x] \in Nat /\ Upto(at(size[x]), size[x])
    BY <1>5
  <2> HIDE DEF at
  <2>2. at(size[x])[x] \in T /\ Obeys(at(size[x]), x)
    BY <2>1
  <2>3. CASE x \in stop
    BY <2>2, <2>3
  <2>4. CASE x \notin stop
    <3>1. next[x] \in D /\ size[next[x]] \in Nat /\ size[next[x]] < size[x]
      BY <2>4
    <3>2. Upto(at(size[next[x]]), size[next[x]])
      BY <1>5, <3>1
    <3>3. Upto(at(size[x]), size[next[x]])
      BY <2>1, <3>1
    <3>4. at(size[x])[next[x]] = at(size[next[x]])[next[x]]
      <4> HIDE DEF Upto
      <4> QED BY <1>1, <3>1, <3>2, <3>3
    <3> QED BY <2>2, <2>4, <3>1, <3>4
  <2> QED BY <2>3, <2>4
<1> HIDE DEF at
<1>7. h \in [D -> T]
  BY <1>6
<1> QED BY <1>6, <1>7 DEF Follows

-----------------------------------------------------------------------------
(***************************************************************************)
(* Selections: what SelectAt takes of a sequence at a set of positions.    *)
(* Filtering, appending and keeping the last few all stay selections of    *)
(* what there was at first, which is how a list that is trimmed again and  *)
(* again can be told from what it once was given.                          *)
(***************************************************************************)

\* Selecting from a selection is a selection.
LEMMA SelectAgain ==
  ASSUME NEW T, NEW s \in Seq(T), NEW I \in SUBSET DOMAIN s,
         NEW J \in SUBSET (1..Cardinality(I))
  PROVE  /\ {InOrder(I)[i] : i \in J} \subseteq I
         /\ SelectAt(SelectAt(s, I), J) = SelectAt(s, {InOrder(I)[i] : i \in J})
<1> DEFINE at == InOrder(I)
           u == SelectAt(s, I)
           to == InOrder(J)
           S == {at[i] : i \in J}
           f == [k \in 1..Cardinality(J) |-> at[to[k]]]
<1>1. /\ IsFiniteSet(I) /\ Cardinality(I) \in Nat /\ u \in Seq(T) /\ DOMAIN u = 1..Cardinality(I)
      /\ at \in [1..Cardinality(I) -> I]
      /\ \A i, j \in 1..Cardinality(I) : i < j => at[i] < at[j]
      /\ \A i \in 1..Cardinality(I) : u[i] = s[at[i]]
  BY SelectAtIsSelection
<1> HIDE DEF at, u
<1>0. J \in SUBSET DOMAIN u
  BY <1>1
<1>2. /\ Cardinality(J) \in Nat /\ to \in [1..Cardinality(J) -> J] /\ IsFiniteSet(J)
      /\ \A i, j \in 1..Cardinality(J) : i < j => to[i] < to[j]
      /\ \A x \in J : \E i \in 1..Cardinality(J) : to[i] = x
      /\ DOMAIN SelectAt(u, J) = 1..Cardinality(J)
      /\ \A i \in 1..Cardinality(J) : SelectAt(u, J)[i] = u[to[i]]
  BY <1>0, <1>1, SelectAtIsSelection
<1>3. S \subseteq I /\ S \in SUBSET Int /\ IsFiniteSet(S)
  <2>1. S \subseteq I
    BY <1>1
  <2>2. DOMAIN s \subseteq Int
    OBVIOUS
  <2>3. QED
    BY <1>1, <2>1, <2>2, FS_Subset
<1> HIDE DEF to
<1>4. f \in [1..Cardinality(J) -> S]
  BY <1>2
<1>5. \A i, j \in 1..Cardinality(J) : i < j => f[i] < f[j]
  BY <1>1, <1>2
<1>6. \A x \in S : \E i \in 1..Cardinality(J) : f[i] = x
  BY <1>2
<1>7. Cardinality(J) = Cardinality(S) /\ f = InOrder(S)
  <2> HIDE DEF f, S
  <2>1. QED
    BY <1>2, <1>3, <1>4, <1>5, <1>6, InOrderIsUnique
<1>8. /\ DOMAIN SelectAt(s, S) = 1..Cardinality(S)
      /\ \A i \in 1..Cardinality(S) : SelectAt(s, S)[i] = s[InOrder(S)[i]]
  <2>1. S \in SUBSET DOMAIN s
    BY <1>3
  <2> HIDE DEF S
  <2>2. QED
    BY <2>1, SelectAtIsSelection
<1>9. \A i \in 1..Cardinality(J) : SelectAt(u, J)[i] = SelectAt(s, S)[i]
  <2> TAKE i \in 1..Cardinality(J)
  <2>1. SelectAt(u, J)[i] = u[to[i]] /\ u[to[i]] = s[at[to[i]]]
    BY <1>1, <1>2
  <2>2. f[i] = at[to[i]]
    OBVIOUS
  <2> HIDE DEF f, S
  <2>3. SelectAt(s, S)[i] = s[f[i]]
    BY <1>7, <1>8
  <2>4. QED
    BY <2>1, <2>2, <2>3
<1>10. SelectAt(u, J) = SelectAt(s, S)
  <2>1. SelectAt(u, J) = [i \in DOMAIN SelectAt(u, J) |-> SelectAt(u, J)[i]]
    BY DEF SelectAt
  <2>2. SelectAt(s, S) = [i \in DOMAIN SelectAt(s, S) |-> SelectAt(s, S)[i]]
    BY DEF SelectAt
  <2> HIDE DEF S, f
  <2>3. QED
    BY <1>2, <1>7, <1>8, <1>9, <2>1, <2>2
<1>11. QED
  BY <1>3, <1>10 DEF at, u

LEMMA SelectRest ==
  ASSUME NEW T, NEW s \in Seq(T), NEW I \in SUBSET DOMAIN s,
         NEW a \in 1..Cardinality(I) + 1
  PROVE  SubSeq(SelectAt(s, I), a, Cardinality(I))
           = SelectAt(s, {InOrder(I)[i] : i \in a..Cardinality(I)})
<1> DEFINE c == Cardinality(I)
           at == InOrder(I)
           u == SelectAt(s, I)
           J == a..c
           f == [k \in 1..(c - a + 1) |-> k + a - 1]
<1>1. /\ c \in Nat /\ u \in Seq(T) /\ DOMAIN u = 1..c /\ Len(u) = c
  BY SelectAtIsSelection
<1>2. J \in SUBSET (1..c) /\ J \in SUBSET Int /\ IsFiniteSet(J) /\ c - a + 1 \in Nat
  <2>1. a \in Nat /\ a >= 1 /\ a <= c + 1 /\ c - a + 1 \in Nat
    BY <1>1
  <2>2. IsFiniteSet(J)
    BY <1>1, <2>1, FS_Interval
  <2> HIDE DEF c
  <2>3. QED
    BY <1>1, <2>1, <2>2
<1>3. f \in [1..(c - a + 1) -> J]
  BY <1>1
<1>4. \A i, j \in 1..(c - a + 1) : i < j => f[i] < f[j]
  BY <1>1
<1>5. \A x \in J : \E i \in 1..(c - a + 1) : f[i] = x
  <2> TAKE x \in J
  <2>1. x - a + 1 \in 1..(c - a + 1) /\ f[x - a + 1] = x
    BY <1>1
  <2>2. QED
    BY <2>1
<1> HIDE DEF u, at, J, f, c
<1>6. c - a + 1 = Cardinality(J) /\ f = InOrder(J)
  BY <1>2, <1>3, <1>4, <1>5, InOrderIsUnique
<1>7. SelectAt(u, J) = [k \in 1..(c - a + 1) |-> u[k + a - 1]]
  <2>1. DOMAIN InOrder(J) = 1..(c - a + 1) /\ \A k \in 1..(c - a + 1) : InOrder(J)[k] = k + a - 1
    BY <1>6 DEF f
  <2>2. QED
    BY <2>1 DEF SelectAt
<1>8. SubSeq(u, a, c) = [k \in 1..(c - a + 1) |-> u[k + a - 1]]
  BY <1>1 DEF c
<1>9. SelectAt(u, J) = SelectAt(s, {at[i] : i \in J})
  BY <1>2, SelectAgain DEF u, at, c
<1>10. QED
  BY <1>7, <1>8, <1>9 DEF u, at, J, c

LEMMA AppendIs ==
  ASSUME NEW T, NEW u \in Seq(T), NEW t \in T
  PROVE  Append(u, t) = [k \in 1..Len(u) + 1 |-> IF k = Len(u) + 1 THEN t ELSE u[k]]
<1>1. /\ Append(u, t) \in Seq(T) /\ Len(Append(u, t)) = Len(u) + 1 /\ Len(u) \in Nat
      /\ \A k \in 1..Len(u) : Append(u, t)[k] = u[k]
      /\ Append(u, t)[Len(u) + 1] = t
  BY AppendProperties
<1> DEFINE r == Append(u, t)
<1> HIDE DEF r
<1>2. r = [k \in 1..Len(r) |-> r[k]]
  <2>1. r \in Seq(T)
    BY <1>1 DEF r
  <2>2. QED
    BY <2>1
<1>3. \A k \in 1..Len(u) + 1 : k # Len(u) + 1 => k \in 1..Len(u)
  BY <1>1
<1>4. QED
  BY <1>1, <1>2, <1>3 DEF r

LEMMA SelectAppend ==
  ASSUME NEW T, NEW s \in Seq(T), NEW I \in SUBSET DOMAIN s, NEW t \in T
  PROVE  Append(SelectAt(s, I), t) = SelectAt(Append(s, t), I \cup {Len(s) + 1})
<1> DEFINE n == Len(s)
           c == Cardinality(I)
           at == InOrder(I)
           u == SelectAt(s, I)
           S == I \cup {n + 1}
           f == [k \in 1..c + 1 |-> IF k = c + 1 THEN n + 1 ELSE at[k]]
<1>1. /\ IsFiniteSet(I) /\ c \in Nat /\ u \in Seq(T) /\ DOMAIN u = 1..c /\ Len(u) = c
      /\ at \in [1..c -> I]
      /\ \A i, j \in 1..c : i < j => at[i] < at[j]
      /\ \A x \in I : \E i \in 1..c : at[i] = x
      /\ \A i \in 1..c : u[i] = s[at[i]]
  BY SelectAtIsSelection
<1>2. n \in Nat /\ DOMAIN s = 1..n
  OBVIOUS
<1>3. /\ S \in SUBSET Int /\ IsFiniteSet(S) /\ S \in SUBSET DOMAIN Append(s, t)
      /\ Append(s, t) \in Seq(T)
  <2>1. IsFiniteSet(S)
    BY <1>1, FS_AddElement
  <2>2. Append(s, t) \in Seq(T) /\ DOMAIN Append(s, t) = 1..n + 1
    BY <1>2
  <2>3. S \in SUBSET (1..n + 1)
    BY <1>2
  <2>4. S \in SUBSET Int
    BY <1>2, <2>3
  <2> HIDE DEF S, n
  <2> QED BY <2>1, <2>2, <2>3, <2>4
<1> HIDE DEF c, at, u, n
<1>4. f \in [1..c + 1 -> S]
  BY <1>1, <1>2
<1>5. \A i, j \in 1..c + 1 : i < j => f[i] < f[j]
  <2> TAKE i, j \in 1..c + 1
  <2> HAVE i < j
  <2>1. i \in 1..c /\ f[i] = at[i] /\ at[i] \in 1..n
    BY <1>1, <1>2
  <2>2. CASE j = c + 1
    BY <1>2, <2>1, <2>2
  <2>3. CASE j # c + 1
    <3>1. j \in 1..c /\ f[j] = at[j]
      BY <1>1, <2>3
    <3>2. QED
      BY <1>1, <2>1, <3>1
  <2>4. QED
    BY <2>2, <2>3
<1>6. \A x \in S : \E i \in 1..c + 1 : f[i] = x
  <2> TAKE x \in S
  <2>1. CASE x = n + 1
    <3>1. c + 1 \in 1..c + 1 /\ f[c + 1] = x
      BY <1>1, <2>1
    <3>2. QED
      BY <3>1
  <2>2. CASE x \in I
    <3>1. PICK i \in 1..c : at[i] = x
      BY <1>1, <2>2
    <3>2. i \in 1..c + 1 /\ f[i] = x
      BY <1>1, <3>1
    <3>3. QED
      BY <3>2
  <2>3. QED
    BY <2>1, <2>2
<1>7. c + 1 = Cardinality(S) /\ f = InOrder(S)
  <2> HIDE DEF f, S
  <2>1. c + 1 \in Nat
    BY <1>1
  <2>2. QED
    BY <1>3, <1>4, <1>5, <1>6, <2>1, InOrderIsUnique
<1>8. SelectAt(Append(s, t), S) = [k \in 1..c + 1 |-> Append(s, t)[f[k]]]
  <2> HIDE DEF S
  <2>1. DOMAIN InOrder(S) = 1..c + 1
    BY <1>7
  <2> HIDE DEF f
  <2>2. QED
    BY <1>7, <2>1 DEF SelectAt
<1>9. \A k \in 1..c + 1 : Append(s, t)[f[k]] = IF k = c + 1 THEN t ELSE u[k]
  <2> TAKE k \in 1..c + 1
  <2>1. CASE k = c + 1
    BY <1>1, <1>2, <2>1 DEF n
  <2>2. CASE k # c + 1
    <3>1. k \in 1..c /\ f[k] = at[k] /\ at[k] \in 1..n /\ u[k] = s[at[k]]
      BY <1>1, <1>2, <2>2
    <3>2. QED
      BY <2>2, <3>1 DEF n
  <2>3. QED
    BY <2>1, <2>2
<1>10. Append(u, t) = [k \in 1..c + 1 |-> IF k = c + 1 THEN t ELSE u[k]]
  BY <1>1, AppendIs
<1>11. QED
  BY <1>8, <1>9, <1>10 DEF u, S, n

\* In an ascending sequence of numbers, later ones are at least as far as their
\* places.
LEMMA StepsAreWide ==
  ASSUME NEW c \in Nat, NEW f \in [1..c -> Int],
         \A i, j \in 1..c : i < j => f[i] < f[j],
         NEW i \in 1..c, NEW j \in 1..c, i <= j
  PROVE  f[j] - f[i] >= j - i
<1> DEFINE A == {d \in Nat : i + d <= c => f[i + d] - f[i] >= d}
<1>1. 0 \in A
  OBVIOUS
<1>2. ASSUME NEW d \in Nat, d \in A
      PROVE  d + 1 \in A
  <2>1. SUFFICES ASSUME i + (d + 1) <= c PROVE f[i + (d + 1)] - f[i] >= d + 1
    OBVIOUS
  <2>2. i + d \in 1..c /\ i + (d + 1) \in 1..c /\ i + d < i + (d + 1)
    BY <2>1
  <2>3. f[i + d] < f[i + (d + 1)] /\ f[i + d] - f[i] >= d
    BY <1>2, <2>2
  <2>4. f[i + d] \in Int /\ f[i + (d + 1)] \in Int /\ f[i] \in Int
    BY <2>2
  <2>5. QED
    BY <2>3, <2>4
<1>3. j - i \in A
  <2> HIDE DEF A
  <2>1. j - i \in Nat
    OBVIOUS
  <2>2. QED
    BY <1>1, <1>2, <2>1, EveryNumber
<1>4. QED
  BY <1>3

\* The last m of a set of positions.
LastIn(I, m) ==
  LET c == Cardinality(I) IN {InOrder(I)[i] : i \in (IF c > m THEN c - m + 1 ELSE 1)..c}

\* They are among the last m of all, and contain those.
LEMMA LastAreLast ==
  ASSUME NEW n \in Nat, NEW I \in SUBSET (1..n), NEW m \in Nat \ {0}
  PROVE  /\ LastIn(I, m) \subseteq I
         /\ \A j \in I : j + m > n => j \in LastIn(I, m)
         /\ (\A j \in I, k \in 1..n : j < k => k \in I) => LastIn(I, m) = {j \in I : j + m > n}
<1> DEFINE c == Cardinality(I)
           at == InOrder(I)
           a == IF c > m THEN c - m + 1 ELSE 1
<1>1. IsFiniteSet(I) /\ I \in SUBSET Int
  <2>1. IsFiniteSet(1..n)
    BY FS_Interval
  <2>2. IsFiniteSet(I)
    BY ONLY I \in SUBSET (1..n), <2>1, FS_Subset
  <2>3. I \in SUBSET Int
    OBVIOUS
  <2>4. QED
    BY <2>2, <2>3
<1>2. /\ c \in Nat /\ at \in [1..c -> I]
      /\ \A i, j \in 1..c : i < j => at[i] < at[j]
      /\ \A x \in I : \E i \in 1..c : at[i] = x
  BY <1>1, InOrderIsNumbering
<1> HIDE DEF c, at
<1>3. a \in 1..c + 1
  BY <1>2
<1>4. LastIn(I, m) = {at[i] : i \in a..c}
  BY DEF LastIn, c, at
<1>5. LastIn(I, m) \subseteq I
  BY <1>2, <1>3, <1>4
<1>6. at \in [1..c -> Int]
  BY <1>1, <1>2
<1>7. ASSUME NEW j \in I, j + m > n
      PROVE  j \in LastIn(I, m)
  <2>1. PICK i \in 1..c : at[i] = j
    BY <1>2
  <2>2. c \in 1..c /\ i <= c /\ at[c] \in 1..n
    <3>1. c \in 1..c /\ i <= c
      BY <1>2
    <3>2. at[c] \in I
      BY <1>2, <3>1
    <3>3. QED
      BY <3>1, <3>2
  <2>3. at[c] - at[i] >= c - i
    BY <1>2, <1>6, <2>2, StepsAreWide
  <2>4. i \in a..c
    BY <1>2, <1>7, <2>1, <2>2, <2>3
  <2>5. QED
    BY <1>4, <2>1, <2>4
<1>8. ASSUME \A j \in I, k \in 1..n : j < k => k \in I
      PROVE  LastIn(I, m) \subseteq {j \in I : j + m > n}
  <2> SUFFICES ASSUME NEW i \in a..c PROVE at[i] + m > n
    BY <1>4, <1>5
  <2>1. i \in 1..c /\ at[i] \in I /\ at[i] \in 1..n
    <3>1. i \in 1..c
      BY <1>2, <1>3
    <3>2. at[i] \in I
      BY <1>2, <3>1
    <3>3. QED
      BY <3>1, <3>2
  <2>2. n \in I
    BY <1>8, <2>1
  <2>3. \A d \in Nat : at[i] + d <= n => i + d <= c /\ at[i + d] = at[i] + d
    <3> DEFINE A == {d \in Nat : at[i] + d <= n => i + d <= c /\ at[i + d] = at[i] + d}
    <3>1. 0 \in A
      BY <2>1
    <3>2. ASSUME NEW d \in Nat, d \in A
          PROVE  d + 1 \in A
      <4> SUFFICES ASSUME at[i] + (d + 1) <= n
                   PROVE  i + (d + 1) <= c /\ at[i + (d + 1)] = at[i] + (d + 1)
        OBVIOUS
      <4>1. i + d \in 1..c /\ at[i + d] = at[i] + d
        BY <2>1, <3>2
      <4>2. at[i] + (d + 1) \in I
        BY <1>8, <2>1
      <4>3. PICK k \in 1..c : at[k] = at[i] + (d + 1)
        BY <1>2, <4>2
      <4>4. k > i + d
        <5>1. ~(k < i + d) /\ k # i + d
          BY <1>2, <2>1, <4>1, <4>3
        <5>2. QED
          BY <4>1, <5>1
      <4>5. k = i + (d + 1)
        <5>1. CASE k > i + (d + 1)
          <6>1. i + (d + 1) \in 1..c /\ i + d < i + (d + 1)
            BY <1>2, <2>1, <4>3, <5>1
          <6>2. at[i + d] < at[i + (d + 1)] /\ at[i + (d + 1)] < at[k]
            BY <1>2, <4>1, <5>1, <6>1
          <6>3. at[i + (d + 1)] \in Int
            BY <1>6, <6>1
          <6>4. QED
            BY <2>1, <4>1, <4>3, <6>2, <6>3
        <5>2. QED
          BY <2>1, <4>4, <5>1
      <4>6. QED
        BY <4>3, <4>5
    <3> HIDE DEF A
    <3>3. Nat \subseteq A
      BY <3>1, <3>2, EveryNumber
    <3>4. QED
      BY <3>3 DEF A
  <2>4. n - at[i] \in Nat /\ at[i] + (n - at[i]) <= n
    BY <2>1
  <2>5. i + (n - at[i]) <= c
    BY <2>3, <2>4
  <2>6. QED
    BY <1>2, <2>1, <2>5
<1>9. QED
  BY <1>5, <1>7, <1>8

\* Selecting everything changes nothing.
LEMMA SelectAll ==
  ASSUME NEW T, NEW s \in Seq(T)
  PROVE  SelectAt(s, DOMAIN s) = s
<1> DEFINE n == Len(s)
           f == [i \in 1..n |-> i]
<1>1. n \in Nat /\ DOMAIN s = 1..n /\ s = [i \in 1..n |-> s[i]]
  OBVIOUS
<1> HIDE DEF n
<1>2. /\ f \in [1..n -> 1..n] /\ \A i, j \in 1..n : i < j => f[i] < f[j]
      /\ \A x \in 1..n : \E i \in 1..n : f[i] = x
      /\ 1..n \in SUBSET Int
  BY <1>1
<1>0. n \in Nat
  BY <1>1
<1>3. IsFiniteSet(1..n)
  BY <1>0, FS_Interval
<1>4. f = InOrder(1..n)
  <2> HIDE DEF f
  <2>1. QED
    BY <1>1, <1>2, <1>3, InOrderIsUnique
<1>5. DOMAIN InOrder(1..n) = 1..n /\ \A i \in 1..n : InOrder(1..n)[i] = i
  BY <1>4
<1>6. QED
  BY <1>1, <1>5 DEF SelectAt

\* Nothing is selected by no positions.
LEMMA SelectNone == \A s : SelectAt(s, {}) = <<>>
<1>1. Cardinality({}) = 0
  BY FS_EmptySet
<1>2. DOMAIN InOrder({}) = 1..0
  BY <1>1 DEF InOrder, OrderedBy
<1>3. QED
  BY <1>2 DEF SelectAt

=============================================================================
