--------------------------- MODULE OptimizerProofs ---------------------------
(***************************************************************************)
(* Proofs about Optimizer, for any number of stops: the trees of the       *)
(* union-find are the connected components of the pairs compared, and the  *)
(* management service accepts the answer.  What makes the invariant        *)
(* inductive is that a parent is never above its child, so that find ends, *)
(* and that a pair is compared once.                                       *)
(***************************************************************************)
EXTENDS Optimizer, OrderingProofs

\* Every tree leads down to a root: the recursions of Find and Path end.
ParentsBelow == parent \in [Stop -> Stop] /\ \A x \in Stop : parent[x] <= x

\* The stops are finitely many numbers.
LEMMA StopIsNat == Stop \in SUBSET Nat /\ IsFiniteSet(Stop) /\ Cardinality(Stop) = StopCount
BY OptimizerAssumption, FS_Interval DEF Stop

\* What holds of a stop when it holds of its parent holds of every stop.
LEMMA TreeInduction ==
  ASSUME ParentsBelow, NEW A,
         \A x \in Stop : (parent[x] = x \/ parent[x] \in A) => x \in A
  PROVE  Stop \subseteq A
<1> DEFINE Rest == Stop \ A
<1> SUFFICES ASSUME Rest # {} PROVE FALSE
  OBVIOUS
<1>1. Rest \in SUBSET Nat
  BY StopIsNat
<1>2. PICK m \in Rest : \A x \in Rest : m <= x
  BY <1>1, LeastExists
<1>3. m \in Stop /\ parent[m] \in Stop /\ parent[m] <= m /\ m \in Nat /\ parent[m] \in Nat
  BY <1>2, StopIsNat DEF ParentsBelow
<1>4. parent[m] = m \/ parent[m] \in A
  BY <1>2, <1>3
<1> QED BY <1>2, <1>3, <1>4

\* A function defined at a stop from its value at the parent exists: parents
\* are not above their children.
LEMMA TreeRecursion ==
  ASSUME ParentsBelow, NEW T, NEW base \in [Stop -> T], NEW h \in [Stop -> [T -> T]]
  PROVE  \E f \in [Stop -> T] : Recursion(f, parent, base, h)
<1>1. StopCount \in Nat /\ Stop = 1..StopCount
  BY OptimizerAssumption DEF Stop
<1>2. Descends(parent, Stop)
  BY DEF ParentsBelow, Descends
<1> QED BY <1>1, <1>2, RecursionExists

\* find returns a root, the same as it returns for the parent.
LEMMA FindIsRoot ==
  ASSUME ParentsBelow
  PROVE  \A x \in Stop : /\ Find(x) \in Stop /\ Find(x) <= x /\ parent[Find(x)] = Find(x)
                         /\ Find(x) = IF parent[x] = x THEN x ELSE Find(parent[x])
                         /\ Find(Find(x)) = Find(x)
<1> DEFINE same == [y \in Stop |-> [t \in Stop |-> t]]
           id   == [y \in Stop |-> y]
           R(f) == f = [y \in Stop |-> IF parent[y] = y THEN y ELSE f[parent[y]]]
           root == CHOOSE f : R(f)
<1>1. \E f : R(f)
  <2>1. \E f \in [Stop -> Stop] : Recursion(f, parent, id, same)
    <3>1. id \in [Stop -> Stop] /\ same \in [Stop -> [Stop -> Stop]]
      OBVIOUS
    <3> HIDE DEF id, same
    <3> QED BY <3>1, TreeRecursion
  <2>2. PICK f \in [Stop -> Stop] : Recursion(f, parent, id, same)
    BY <2>1
  <2>3. \A y \in Stop : f[y] = IF parent[y] = y THEN y ELSE f[parent[y]]
    BY <2>2 DEF ParentsBelow, Recursion
  <2>4. R(f)
    BY <2>2, <2>3
  <2> QED BY <2>4
<1>2. R(root)
  BY <1>1
<1>3. \A x \in Stop : Find(x) = root[x]
  BY DEF Find
<1> HIDE DEF root
<1>4. \A x \in Stop : Find(x) = IF parent[x] = x THEN x ELSE Find(parent[x])
  BY <1>2, <1>3 DEF ParentsBelow
<1> DEFINE A == {x \in Stop : Find(x) \in Stop /\ Find(x) <= x /\ parent[Find(x)] = Find(x)}
<1>5. Stop \subseteq A
  <2>1. ASSUME NEW x \in Stop, parent[x] = x \/ parent[x] \in A PROVE x \in A
    <3>1. x \in Nat /\ parent[x] \in Nat /\ parent[x] <= x
      BY StopIsNat DEF ParentsBelow
    <3>2. CASE parent[x] = x
      BY <1>4, <3>1, <3>2
    <3>3. CASE parent[x] # x
      <4>1. Find(x) = Find(parent[x]) /\ parent[x] \in A
        BY <1>4, <2>1, <3>3
      <4>2. Find(x) \in Nat
        BY <4>1, StopIsNat
      <4> QED BY <3>1, <4>1, <4>2
    <3> QED BY <3>2, <3>3
  <2> HIDE DEF A
  <2> QED BY <2>1, TreeInduction
<1>6. \A x \in Stop : Find(x) \in Stop /\ Find(x) <= x /\ parent[Find(x)] = Find(x)
  BY <1>5
<1> QED BY <1>4, <1>6

\* The stops whose parents find sets have the root it returns.
LEMMA PathToRoot ==
  ASSUME ParentsBelow
  PROVE  \A x \in Stop : \A y \in Path(x) :
           y \in Stop /\ parent[y] # y /\ Find(y) = Find(x)
<1> DEFINE none == [y \in Stop |-> {}]
           add  == [y \in Stop |-> [S \in SUBSET Stop |-> {y} \cup S]]
           R(f) == f = [y \in Stop |-> IF parent[y] = y THEN {} ELSE {y} \cup f[parent[y]]]
           path == CHOOSE f : R(f)
<1>1. \E f : R(f)
  <2>1. \E f \in [Stop -> SUBSET Stop] : Recursion(f, parent, none, add)
    <3>1. none \in [Stop -> SUBSET Stop] /\ add \in [Stop -> [SUBSET Stop -> SUBSET Stop]]
      OBVIOUS
    <3> HIDE DEF none, add
    <3> QED BY <3>1, TreeRecursion
  <2>2. PICK f \in [Stop -> SUBSET Stop] : Recursion(f, parent, none, add)
    BY <2>1
  <2>3. \A y \in Stop : f[y] = IF parent[y] = y THEN {} ELSE {y} \cup f[parent[y]]
    BY <2>2 DEF ParentsBelow, Recursion
  <2>4. R(f)
    BY <2>2, <2>3
  <2> QED BY <2>4
<1>2. R(path)
  BY <1>1
<1>3. \A x \in Stop : Path(x) = path[x]
  BY DEF Path
<1> HIDE DEF path
<1>4. \A x \in Stop : Path(x) = IF parent[x] = x THEN {} ELSE {x} \cup Path(parent[x])
  BY <1>2, <1>3 DEF ParentsBelow
<1> DEFINE A == {x \in Stop : \A y \in Path(x) :
                   y \in Stop /\ parent[y] # y /\ Find(y) = Find(x)}
<1>5. Stop \subseteq A
  <2>1. ASSUME NEW x \in Stop, parent[x] = x \/ parent[x] \in A PROVE x \in A
    <3>1. CASE parent[x] = x
      BY <1>4, <3>1
    <3>2. CASE parent[x] # x
      <4>1. Path(x) = {x} \cup Path(parent[x]) /\ Find(x) = Find(parent[x]) /\ parent[x] \in A
        BY <1>4, <2>1, <3>2, FindIsRoot
      <4> QED BY <3>2, <4>1
    <3> QED BY <3>1, <3>2
  <2> HIDE DEF A
  <2> QED BY <2>1, TreeInduction
<1> QED BY <1>5

Roots == [x \in Stop |-> Find(x)]

\* The roots as one function of the state, for steps to compare.
LEMMA RootsInvariant ==
  ParentsBelow => Roots \in [Stop -> Stop] /\ \A x \in Stop :
    Roots[x] = IF parent[x] = x THEN x ELSE Roots[parent[x]]
<1> SUFFICES ASSUME ParentsBelow
    PROVE  Roots \in [Stop -> Stop] /\ \A x \in Stop :
             Roots[x] = IF parent[x] = x THEN x ELSE Roots[parent[x]]
  OBVIOUS
<1>1. \A x \in Stop : parent[x] \in Stop
  BY DEF ParentsBelow
<1> QED BY <1>1, FindIsRoot DEF Roots

\* union takes the lower of two roots and gives it the higher.
LEMMA LowHigh ==
  ASSUME NEW a \in Nat, NEW b \in Nat
  PROVE  /\ Min({a, b}) \in {a, b} /\ Max({a, b}) \in {a, b} /\ Min({a, b}) <= Max({a, b})
         /\ {a, b} = {Min({a, b}), Max({a, b})}
<1>1. \E m \in {a, b} : \A y \in {a, b} : m <= y
  OBVIOUS
<1>2. \E m \in {a, b} : \A y \in {a, b} : m >= y
  OBVIOUS
<1>3. Min({a, b}) \in {a, b} /\ \A y \in {a, b} : Min({a, b}) <= y
  BY <1>1 DEF Min
<1>4. Max({a, b}) \in {a, b} /\ \A y \in {a, b} : Max({a, b}) >= y
  BY <1>2 DEF Max
<1> QED BY <1>3, <1>4

\* A union changes no root but those of the two trees, which become the lower.
LEMMA UnionMerges ==
  ASSUME ParentsBelow, NEW a \in Stop, NEW b \in Stop, Union(a, b)
  PROVE  /\ ParentsBelow'
         /\ \A x \in Stop : Find(x)' = IF Find(x) \in {Find(a), Find(b)}
                                       THEN Min({Find(a), Find(b)}) ELSE Find(x)
<1> DEFINE ra == Find(a)
           rb == Find(b)
           lo == Min({ra, rb})
           hi == Max({ra, rb})
           flat == [x \in Stop |-> IF x \in Path(a) THEN ra ELSE IF x \in Path(b) THEN rb
                                   ELSE parent[x]]
<1>1. /\ ra \in Stop /\ rb \in Stop /\ parent[ra] = ra /\ parent[rb] = rb
      /\ ra \in Nat /\ rb \in Nat
  BY FindIsRoot, StopIsNat
<1>2. parent' = IF ra = rb THEN flat ELSE [flat EXCEPT ![hi] = lo]
  BY DEF Union
<1>3. /\ \A x \in Path(a) : x \in Stop /\ parent[x] # x /\ Find(x) = ra
      /\ \A x \in Path(b) : x \in Stop /\ parent[x] # x /\ Find(x) = rb
  BY PathToRoot
<1>4. \A x \in Stop : /\ x \in Nat /\ Find(x) \in Stop /\ Find(x) <= x
                      /\ parent[x] \in Stop /\ parent[x] <= x
                      /\ Find(x) = IF parent[x] = x THEN x ELSE Find(parent[x])
  BY FindIsRoot, StopIsNat DEF ParentsBelow
<1>5. lo \in {ra, rb} /\ hi \in {ra, rb} /\ lo <= hi /\ {ra, rb} = {lo, hi}
  <2> HIDE DEF ra, rb
  <2> QED BY <1>1, LowHigh
<1> HIDE DEF ra, rb, lo, hi
<1>6. /\ flat \in [Stop -> Stop]
      /\ \A x \in Path(a) : flat[x] = ra
      /\ \A x \in Path(b) \ Path(a) : flat[x] = rb
      /\ \A x \in Stop : x \notin Path(a) /\ x \notin Path(b) => flat[x] = parent[x]
  <2>1. flat \in [Stop -> Stop]
    BY <1>1, <1>4
  <2> QED BY <1>3, <2>1
<1> HIDE DEF flat
<1>7. ra = rb => lo = hi
  BY <1>5
<1>8. ra # rb => lo # hi
  BY <1>5
<1>9. /\ parent' \in [Stop -> Stop]
      /\ \A x \in Stop : parent[x] = x => parent'[x] = IF x = hi THEN lo ELSE x
      /\ \A x \in Stop : parent[x] # x => parent'[x] = flat[x]
  <2>1. CASE ra = rb
    BY <1>1, <1>2, <1>3, <1>5, <1>6, <1>7, <2>1
  <2>2. CASE ra # rb
    <3>1. parent' = [flat EXCEPT ![hi] = lo] /\ hi \in Stop /\ lo \in Stop /\ parent[hi] = hi
      BY <1>1, <1>2, <1>5, <2>2
    <3>2. /\ parent' \in [Stop -> Stop] /\ parent'[hi] = lo
          /\ \A x \in Stop : x # hi => parent'[x] = flat[x]
      BY <1>6, <3>1
    <3> QED BY <1>3, <1>6, <3>1, <3>2
  <2> QED BY <2>1, <2>2
<1>10. \A x \in Stop : flat[x] <= x
  <2> TAKE x \in Stop
  <2>1. CASE x \in Path(a)
    BY <1>3, <1>4, <1>6, <2>1
  <2>2. CASE x \in Path(b) \ Path(a)
    BY <1>3, <1>4, <1>6, <2>2
  <2>3. CASE x \notin Path(a) /\ x \notin Path(b)
    BY <1>4, <1>6, <2>3
  <2> QED BY <2>1, <2>2, <2>3
<1>11. ParentsBelow'
  <2>1. ASSUME NEW x \in Stop PROVE parent'[x] <= x
    BY <1>4, <1>5, <1>9, <1>10
  <2>2. Stop' = Stop
    BY DEF Stop
  <2> QED BY <1>9, <2>1, <2>2 DEF ParentsBelow
<1> DEFINE merged(x) == IF Find(x) \in {ra, rb} THEN lo ELSE Find(x)
           G == Roots'
<1>12. \A x \in Stop : Find(x)' = G[x] /\ G[x] = IF parent'[x] = x THEN x ELSE G[parent'[x]]
  <2>1. ParentsBelow' => Roots' \in [Stop -> Stop] /\ \A x \in Stop :
          Roots'[x] = IF parent'[x] = x THEN x ELSE Roots'[parent'[x]]
    <3>1. (ParentsBelow => Roots \in [Stop -> Stop] /\ \A x \in Stop :
             Roots[x] = IF parent[x] = x THEN x ELSE Roots[parent[x]])'
      BY RootsInvariant, PTL
    <3>2. Stop' = Stop
      BY DEF Stop
    <3> QED BY <3>1, <3>2
  <2>2. \A x \in Stop : Find(x)' = Roots'[x]
    <3>1. Roots' = [x \in Stop |-> Find(x)']
      BY DEF Roots, Stop
    <3> QED BY <3>1
  <2> QED BY <1>11, <2>1, <2>2
<1> HIDE DEF G
<1>13. \A x \in Stop : parent[x] = x => G[x] = merged(x)
  <2> TAKE x \in Stop
  <2> HAVE parent[x] = x
  <2>1. Find(x) = x
    BY <1>4
  <2>2. CASE x # hi \/ lo = hi
    <3>1. parent'[x] = x
      BY <1>9, <2>2
    <3>2. G[x] = x
      BY <1>12, <3>1
    <3> QED BY <1>5, <2>1, <2>2, <3>2
  <2>3. CASE x = hi /\ lo # hi
    <3>1. parent'[x] = lo /\ lo \in Stop /\ parent[lo] = lo
      BY <1>1, <1>5, <1>9, <2>3
    <3>2. parent'[lo] = lo
      BY <1>9, <2>3, <3>1
    <3>3. G[lo] = lo /\ G[x] = G[lo]
      BY <1>12, <2>3, <3>1, <3>2
    <3> QED BY <1>5, <2>1, <2>3, <3>3
  <2> QED BY <2>2, <2>3
<1> DEFINE A == {x \in Stop : G[x] = merged(x)}
<1>14. Stop \subseteq A
  <2>1. ASSUME NEW x \in Stop, parent[x] = x \/ parent[x] \in A PROVE x \in A
    <3>1. CASE parent[x] = x
      BY <1>13, <3>1
    <3>2. CASE parent[x] # x
      <4>1. parent'[x] = flat[x] /\ Find(x) = Find(parent[x])
        BY <1>4, <1>9, <3>2
      <4>2. G[ra] = lo /\ G[rb] = lo
        <5>1. Find(ra) = ra /\ Find(rb) = rb
          BY <1>1, <1>4
        <5> QED BY <1>1, <1>13, <5>1
      <4>3. CASE x \in Path(a)
        <5>1. parent'[x] = ra /\ ra # x /\ Find(x) = ra
          BY <1>1, <1>3, <1>6, <3>2, <4>1, <4>3
        <5> QED BY <1>12, <4>2, <5>1
      <4>4. CASE x \in Path(b) \ Path(a)
        <5>1. parent'[x] = rb /\ rb # x /\ Find(x) = rb
          BY <1>1, <1>3, <1>6, <3>2, <4>1, <4>4
        <5> QED BY <1>12, <4>2, <5>1
      <4>5. CASE x \notin Path(a) /\ x \notin Path(b)
        <5>1. parent'[x] = parent[x]
          BY <1>6, <4>1, <4>5
        <5>2. G[x] = G[parent[x]] /\ parent[x] \in A
          BY <1>12, <2>1, <3>2, <5>1
        <5> QED BY <4>1, <5>2
      <4> QED BY <4>3, <4>4, <4>5
    <3> QED BY <3>1, <3>2
  <2> HIDE DEF A
  <2> QED BY <2>1, TreeInduction
<1>15. \A x \in Stop : Find(x)' = merged(x)
  BY <1>12, <1>14
<1> QED BY <1>11, <1>15 DEF ra, rb, lo

\* Trees that are joined are the classes of one pair more.
Connects(F, S) == \A x, y \in Stop : F[x] = F[y] <=> y \in Reach(x, S)
Joins(G, F, a, b, lo) ==
  lo \in {F[a], F[b]} /\ \A x \in Stop : G[x] = IF F[x] \in {F[a], F[b]} THEN lo ELSE F[x]

\* Joining the classes of a and b is what one more pair between them does to
\* what pairs connect.
LEMMA ReachGrows ==
  ASSUME NEW S \in SUBSET Pair, NEW a \in Stop, NEW b \in Stop, <<a, b>> \in Pair,
         NEW F \in [Stop -> Stop], NEW G \in [Stop -> Stop], NEW lo,
         Connects(F, S), Joins(G, F, a, b, lo)
  PROVE  Connects(G, S \cup {<<a, b>>})
<1> USE DEF Connects, Joins
<1> DEFINE Whole(C, P) == \A p \in P : p[1] \in C <=> p[2] \in C
           T == S \cup {<<a, b>>}
<1>1. \A x, y \in Stop : \A P : y \in Reach(x, P)
        <=> \A C \in SUBSET Stop : x \in C /\ Whole(C, P) => y \in C
  BY DEF Reach
<1>2. \A C : Whole(C, T) <=> Whole(C, S) /\ (a \in C <=> b \in C)
  OBVIOUS
<1>3. \A p \in S : p[1] \in Stop /\ p[2] \in Stop /\ F[p[1]] = F[p[2]]
  <2> TAKE p \in S
  <2>1. p[1] \in Stop /\ p[2] \in Stop
    BY DEF Pair
  <2>2. p[2] \in Reach(p[1], S)
    BY <1>1, <2>1
  <2> QED BY <2>1, <2>2
<1> HIDE DEF T
<1>4. ASSUME NEW x \in Stop, NEW y \in Stop, y \in Reach(x, T) PROVE G[x] = G[y]
  <2> DEFINE C == {z \in Stop : G[z] = G[x]}
  <2>1. Whole(C, S)
    BY <1>3
  <2>2. a \in C <=> b \in C
    OBVIOUS
  <2>3. x \in C /\ C \in SUBSET Stop
    OBVIOUS
  <2> HIDE DEF Whole
  <2>4. y \in C
    <3> HIDE DEF C
    <3> QED BY <1>1, <1>2, <1>4, <2>1, <2>2, <2>3
  <2> QED BY <2>4
<1>5. ASSUME NEW x \in Stop, NEW y \in Stop, G[x] = G[y],
             NEW C \in SUBSET Stop, x \in C, Whole(C, T)
      PROVE  y \in C
  <2> HIDE DEF Whole
  <2>1. Whole(C, S) /\ (a \in C <=> b \in C)
    BY <1>2, <1>5
  <2>2. \A u, v \in Stop : F[u] = F[v] /\ u \in C => v \in C
    BY <1>1, <2>1
  <2>3. \/ F[x] = F[y]
        \/ F[x] = F[a] /\ F[y] = F[b]
        \/ F[x] = F[b] /\ F[y] = F[a]
    BY <1>5
  <2> QED BY <1>5, <2>1, <2>2, <2>3
<1> HIDE DEF Whole
<1>6. \A x, y \in Stop : G[x] = G[y] <=> y \in Reach(x, T)
  BY <1>1, <1>4, <1>5
<1> QED BY <1>6 DEF T

-----------------------------------------------------------------------------
(***************************************************************************)
(* The answer: groups of stops one after the other.                        *)
(***************************************************************************)

\* Groups of different elements put one after the other.
LEMMA FlattenGroups ==
  ASSUME NEW T, NEW n \in Nat, NEW groups \in [1..n -> Seq(T)],
         \A i \in 1..n : IsInjective(groups[i]),
         \A i, j \in 1..n : i # j => ToSet(groups[i]) \cap ToSet(groups[j]) = {}
  PROVE  LET s == FlattenSeq(groups) IN
         /\ s \in Seq(T) /\ IsInjective(s)
         /\ \A x : x \in ToSet(s) <=> \E i \in 1..n : x \in ToSet(groups[i])
         /\ \A i, j \in 1..n : \A p, q \in DOMAIN s :
              i < j /\ s[p] \in ToSet(groups[i]) /\ s[q] \in ToSet(groups[j]) => p < q
<1> DEFINE Good(s, k) ==
             /\ s \in Seq(T) /\ IsInjective(s)
             /\ \A x : x \in ToSet(s) <=> \E i \in 1..k : x \in ToSet(groups[i])
             /\ \A i, j \in 1..k : \A p, q \in DOMAIN s :
                  i < j /\ s[p] \in ToSet(groups[i]) /\ s[q] \in ToSet(groups[j]) => p < q
<1>1. groups \in Seq(Seq(T)) /\ Len(groups) = n
  <2>1. groups \in Seq(Seq(T))
    BY SeqDef
  <2>2. Len(groups) \in Nat /\ DOMAIN groups = 1..Len(groups) /\ DOMAIN groups = 1..n
    BY <2>1, LenProperties
  <2> QED BY <2>1, <2>2
<1>2. CASE n = 0
  <2>1. groups = <<>> /\ FlattenSeq(groups) = groups
    BY <1>1, <1>2, EmptySeq DEF FlattenSeq
  <2>2. <<>> \in Seq(T) /\ DOMAIN <<>> = {}
    BY EmptySeq
  <2>3. IsInjective(<<>>) /\ ToSet(<<>>) = {}
    BY <2>2 DEF IsInjective, ToSet
  <2> QED BY <1>2, <2>1, <2>2, <2>3
<1>3. CASE n # 0
  <2> DEFINE I == 1..n
             to == [i \in I |-> IF i = 1 THEN 1 ELSE i - 1]
             h == [i \in I |-> [t \in Seq(T) |-> t \o groups[i]]]
             R(f) == f = [i \in 1..Len(groups) |-> IF i = 1 THEN groups[i] ELSE f[i - 1] \o groups[i]]
             flatten == CHOOSE f : R(f)
  <2>1. FlattenSeq(groups) = flatten[n]
    BY <1>1, <1>3 DEF FlattenSeq
  <2>2. \E f \in [I -> Seq(T)] : Recursion(f, to, groups, h)
    <3>1. Descends(to, I)
      <4>1. to \in [I -> I]
        BY <1>3
      <4>2. \A i \in I : to[i] <= i
        OBVIOUS
      <4> HIDE DEF to
      <4> QED BY <4>1, <4>2 DEF Descends
    <3>2. h \in [I -> [Seq(T) -> Seq(T)]]
      <4>1. \A t \in Seq(T) : \A i \in I : t \o groups[i] \in Seq(T)
        BY ConcatProperties
      <4> QED BY <4>1
    <3>3. I = 1..n /\ groups \in [I -> Seq(T)]
      OBVIOUS
    <3> HIDE DEF I, to, h
    <3> QED BY <3>1, <3>2, <3>3, RecursionExists
  <2>3. PICK f \in [I -> Seq(T)] : Recursion(f, to, groups, h)
    BY <2>2
  <2>4. \A i \in I : f[i] = IF i = 1 THEN groups[i] ELSE f[i - 1] \o groups[i]
    <3> TAKE i \in I
    <3>1. (to[i] = i => f[i] = groups[i]) /\ (to[i] # i => f[i] = h[i][f[to[i]]])
      BY <2>3 DEF Recursion
    <3>2. CASE i = 1
      BY <3>1, <3>2
    <3>3. CASE i # 1
      <4>1. to[i] = i - 1 /\ i - 1 \in I /\ i - 1 # i
        BY <3>3
      <4>2. f[i - 1] \in Seq(T)
        BY <4>1
      <4>3. h[i][f[i - 1]] = f[i - 1] \o groups[i]
        BY <4>2
      <4> HIDE DEF to, h
      <4> QED BY <3>1, <3>3, <4>1, <4>3
    <3> QED BY <3>2, <3>3
  <2>5. R(f)
    <3>1. f = [i \in I |-> IF i = 1 THEN groups[i] ELSE f[i - 1] \o groups[i]]
      BY <2>4
    <3> QED BY <1>1, <3>1
  <2>6. R(flatten)
    <3>1. \E g : R(g)
      BY <2>5
    <3> HIDE DEF R
    <3> QED BY <3>1
  <2> HIDE DEF flatten
  <2>7. \A i \in I : flatten[i] = IF i = 1 THEN groups[i] ELSE flatten[i - 1] \o groups[i]
    BY <1>1, <2>6
  <2> DEFINE A == {k \in Nat : k + 1 \in I => Good(flatten[k + 1], k + 1)}
  <2>8. Good(flatten[1], 1)
    <3>1. 1 \in I /\ flatten[1] = groups[1] /\ \A i \in 1..1 : i = 1
      BY <1>3, <2>7
    <3> QED BY <3>1
  <2>9. ASSUME NEW k \in Nat, k + 1 \in I, k + 2 \in I, Good(flatten[k + 1], k + 1)
        PROVE  Good(flatten[k + 2], k + 2)
    <3> DEFINE a == flatten[k + 1]
               b == groups[k + 2]
               r == a \o b
    <3>1. flatten[k + 2] = r
      <4>1. (k + 2) - 1 = k + 1 /\ k + 2 # 1
        OBVIOUS
      <4> QED BY <2>7, <2>9, <4>1
    <3>2. a \in Seq(T) /\ b \in Seq(T) /\ IsInjective(a) /\ IsInjective(b)
      BY <2>9
    <3>3. \A i \in 1..k + 2 : i \in 1..k + 1 \/ i = k + 2
      OBVIOUS
    <3>4. \A i \in 1..k + 1 : i \in 1..n /\ i # k + 2 /\ i \in 1..k + 2
      BY <2>9
    <3>5. /\ \A x : x \in ToSet(a) <=> \E i \in 1..k + 1 : x \in ToSet(groups[i])
          /\ \A i, j \in 1..k + 1 : \A p, q \in DOMAIN a :
               i < j /\ a[p] \in ToSet(groups[i]) /\ a[q] \in ToSet(groups[j]) => p < q
      BY <2>9
    <3>6. ToSet(a) \cap ToSet(b) = {}
      BY <2>9, <3>4, <3>5
    <3> HIDE DEF a, b
    <3>7. /\ r \in Seq(T) /\ Len(a) \in Nat /\ DOMAIN a = 1..Len(a)
          /\ \A i \in DOMAIN a : i \in DOMAIN r /\ r[i] = a[i]
          /\ \A i \in DOMAIN b : Len(a) + i \in DOMAIN r /\ r[Len(a) + i] = b[i]
          /\ \A i \in DOMAIN r : i \in Nat /\ (i \in DOMAIN a \/ (i > Len(a) /\ i - Len(a) \in DOMAIN b))
          /\ ToSet(r) = ToSet(a) \cup ToSet(b)
      BY <3>2, ConcatFacts
    <3> HIDE DEF r
    <3>8. \A i \in DOMAIN r :
             \/ i \in DOMAIN a /\ r[i] = a[i] /\ r[i] \in ToSet(a) /\ r[i] \notin ToSet(b)
             \/ /\ i > Len(a) /\ i - Len(a) \in DOMAIN b /\ r[i] = b[i - Len(a)]
                /\ r[i] \in ToSet(b) /\ r[i] \notin ToSet(a)
      <4> TAKE i \in DOMAIN r
      <4>1. (\A x \in DOMAIN a : a[x] \in ToSet(a)) /\ (\A x \in DOMAIN b : b[x] \in ToSet(b))
        BY DEF ToSet
      <4>2. CASE i \in DOMAIN a
        BY <3>6, <3>7, <4>1, <4>2
      <4>3. CASE i > Len(a) /\ i - Len(a) \in DOMAIN b
        <5>1. Len(a) + (i - Len(a)) = i
          BY <3>7
        <5>2. r[i] = b[i - Len(a)]
          BY <3>7, <4>3, <5>1
        <5> QED BY <3>6, <4>1, <4>3, <5>2
      <4> QED BY <3>7, <4>2, <4>3
    <3>9. IsInjective(r)
      <4> SUFFICES ASSUME NEW i \in DOMAIN r, NEW j \in DOMAIN r, r[i] = r[j] PROVE i = j
        BY DEF IsInjective
      <4>1. CASE i \in DOMAIN a /\ j \in DOMAIN a /\ r[i] = a[i] /\ r[j] = a[j]
        BY <3>2, <4>1 DEF IsInjective
      <4>2. CASE /\ i - Len(a) \in DOMAIN b /\ j - Len(a) \in DOMAIN b
                 /\ r[i] = b[i - Len(a)] /\ r[j] = b[j - Len(a)]
        <5>1. i - Len(a) = j - Len(a)
          BY <3>2, <4>2 DEF IsInjective
        <5> QED BY <3>7, <5>1
      <4> QED BY <3>8, <4>1, <4>2
    <3>10. \A x : x \in ToSet(r) <=> \E i \in 1..k + 2 : x \in ToSet(groups[i])
      <4>1. b = groups[k + 2] /\ k + 2 \in 1..k + 2
        BY DEF b
      <4> QED BY <3>3, <3>4, <3>5, <3>7, <4>1
    <3>11. ASSUME NEW i \in 1..k + 2, NEW j \in 1..k + 2, NEW p \in DOMAIN r, NEW q \in DOMAIN r,
                  i < j, r[p] \in ToSet(groups[i]), r[q] \in ToSet(groups[j])
           PROVE  p < q
      <4>1. i \in 1..k + 1
        BY <3>11
      <4>2. r[p] \in ToSet(a)
        BY <3>5, <3>11, <4>1
      <4>3. p \in DOMAIN a /\ r[p] = a[p]
        BY <3>8, <4>2
      <4>4. CASE j \in 1..k + 1
        <5>1. r[q] \in ToSet(a)
          BY <3>5, <3>11, <4>4
        <5>2. q \in DOMAIN a /\ r[q] = a[q]
          BY <3>8, <5>1
        <5> QED BY <3>5, <3>11, <4>1, <4>3, <4>4, <5>2
      <4>5. CASE j = k + 2
        <5>1. r[q] \in ToSet(b)
          BY <3>11, <4>5 DEF b
        <5>2. q > Len(a)
          BY <3>6, <3>8, <5>1
        <5> QED BY <3>7, <4>3, <5>2
      <4> QED BY <3>3, <4>4, <4>5
    <3>12. Good(r, k + 2)
      BY <3>7, <3>9, <3>10, <3>11
    <3> HIDE DEF Good
    <3> QED BY <3>1, <3>12
  <2>10. Nat \subseteq A
    <3> HIDE DEF Good
    <3>1. 0 \in A
      BY <2>8
    <3>2. ASSUME NEW k \in Nat, k \in A PROVE k + 1 \in A
      <4>1. (k + 1) + 1 = k + 2 /\ (k + 2 \in I => k + 1 \in I)
        OBVIOUS
      <4>2. k + 2 \in I => Good(flatten[k + 2], k + 2)
        BY <2>9, <3>2, <4>1
      <4> QED BY <4>1, <4>2
    <3> HIDE DEF A
    <3> QED BY <3>1, <3>2, EveryNumber
  <2>11. Good(flatten[n], n)
    <3> HIDE DEF Good
    <3>1. n - 1 \in Nat /\ (n - 1) + 1 = n /\ n \in I
      BY <1>3
    <3>2. n - 1 \in A
      BY <2>10, <3>1
    <3> QED BY <3>1, <3>2
  <2> QED BY <2>1, <2>11
<1> QED BY <1>2, <1>3

\* The answer for groups of different stops: every stop once, and the route
\* builder makes one stop of each group, in their order.
LEMMA GroupsAreStops ==
  ASSUME NEW n \in Nat, NEW groups \in [1..n -> Seq(Stop)],
         \A i \in 1..n : IsInjective(groups[i]) /\ ToSet(groups[i]) # {},
         \A i, j \in 1..n : i # j => ToSet(groups[i]) \cap ToSet(groups[j]) = {},
         \A x \in Stop : \E i \in 1..n : x \in ToSet(groups[i])
  PROVE  LET s == FlattenSeq(groups)
             ids == [x \in Stop |-> x]
         IN  /\ IsExactCover(s, ids)
             /\ OptimizedStops(s, groups, ids) = [i \in DOMAIN groups |-> ToSet(groups[i])]
<1> DEFINE s == FlattenSeq(groups)
           ids == [x \in Stop |-> x]
<1>1. /\ s \in Seq(Stop) /\ IsInjective(s)
      /\ \A x : x \in ToSet(s) <=> \E i \in 1..n : x \in ToSet(groups[i])
      /\ \A i, j \in 1..n : \A p, q \in DOMAIN s :
           i < j /\ s[p] \in ToSet(groups[i]) /\ s[q] \in ToSet(groups[j]) => p < q
  BY FlattenGroups
<1> HIDE DEF s
<1>2. Len(s) \in Nat /\ DOMAIN s = 1..Len(s) /\ \A p \in DOMAIN s : s[p] \in Stop
  BY <1>1, LenProperties
<1>3. /\ ids \in Seq(Stop) /\ Len(ids) = StopCount /\ DOMAIN ids = Stop
      /\ Range(ids) = Stop /\ \A x \in Stop : ids[x] = x
  <2>1. ids \in Seq(Stop)
    <3>1. ids \in [1..StopCount -> Stop] /\ StopCount \in Nat
      BY OptimizerAssumption DEF Stop
    <3> HIDE DEF ids
    <3> QED BY <3>1, SeqDef
  <2>2. Len(ids) \in Nat /\ DOMAIN ids = 1..Len(ids) /\ DOMAIN ids = 1..StopCount
    BY <2>1, LenProperties DEF Stop
  <2>3. Len(ids) = StopCount
    BY <2>2, OptimizerAssumption
  <2> QED BY <2>1, <2>3 DEF Range
<1> HIDE DEF ids
<1>4. Range(s) = ToSet(s) /\ ToSet(s) = Stop
  <2>1. Range(s) = ToSet(s)
    BY DEF Range, ToSet
  <2>2. \A x \in ToSet(s) : x \in Stop
    BY <1>2 DEF ToSet
  <2>3. \A x \in Stop : x \in ToSet(s)
    BY <1>1
  <2> QED BY <2>1, <2>2, <2>3
<1>5. \A x \in Stop : \E p \in DOMAIN s : s[p] = x
  BY <1>4 DEF ToSet
<1>6. Len(s) = StopCount
  <2> DEFINE D == DOMAIN s
  <2>1. IsFiniteSet(D) /\ Cardinality(D) = Len(s)
    <3>1. \A m \in Nat : IsFiniteSet(1..m) /\ Cardinality(1..m) = m
      BY FS_Interval
    <3> QED BY <1>2, <3>1
  <2>2. s \in [D -> Stop]
    <3>1. s \in [1..Len(s) -> Stop]
      BY <1>1, LenProperties
    <3> QED BY <1>2, <3>1
  <2>3. \A p, q \in D : s[p] = s[q] => p = q
    BY <1>1 DEF IsInjective
  <2>4. \A x \in Stop : \E p \in D : s[p] = x
    BY <1>5
  <2> HIDE DEF D
  <2>5. Cardinality(Stop) = Cardinality(D)
    BY <2>1, <2>2, <2>3, <2>4, SameCount
  <2> QED BY <2>1, <2>5, StopIsNat
<1>7. IsExactCover(s, ids)
  BY <1>1, <1>3, <1>4, <1>6 DEF IsExactCover
<1>8. DOMAIN groups = 1..n
  OBVIOUS
\* The key of a stop is the first of its group.
<1> DEFINE key(p) == GroupKeyOf(s[p], groups, ids)
<1>9. \A p \in DOMAIN s : \A i \in 1..n : s[p] \in ToSet(groups[i]) => key(p) = groups[i][1]
  <2> TAKE p \in DOMAIN s
  <2> TAKE i \in 1..n
  <2> HAVE s[p] \in ToSet(groups[i])
  <2> DEFINE of == {j \in DOMAIN groups : s[p] \in Range(groups[j])}
             own(g) == {j \in DOMAIN g : g[j] \in Range(ids)}
  <2>1. \A j \in 1..n : Range(groups[j]) = ToSet(groups[j])
    BY DEF Range, ToSet
  <2>2. of = {i}
    <3>1. \A j \in 1..n : s[p] \in ToSet(groups[j]) <=> j = i
      OBVIOUS
    <3>2. \A j \in 1..n : s[p] \in Range(groups[j]) <=> j = i
      BY <2>1, <3>1
    <3> QED BY <1>8, <3>2
  <2>3. Max(of) = i
    BY <2>2 DEF Max
  <2>4. /\ groups[i] \in Seq(Stop) /\ Len(groups[i]) \in Nat
        /\ DOMAIN groups[i] = 1..Len(groups[i]) /\ \A j \in DOMAIN groups[i] : groups[i][j] \in Stop
    <3>1. groups[i] \in Seq(Stop)
      OBVIOUS
    <3> QED BY <3>1, LenProperties
  <2>5. own(groups[i]) = 1..Len(groups[i])
    BY <1>3, <2>4
  <2>6. 1 \in 1..Len(groups[i])
    <3>1. \E j \in DOMAIN groups[i] : TRUE
      BY DEF ToSet
    <3> QED BY <2>4, <3>1
  <2>7. Min(1..Len(groups[i])) = 1
    <3>1. \A y \in 1..Len(groups[i]) : 1 <= y
      OBVIOUS
    <3>2. \A x \in 1..Len(groups[i]) : (\A y \in 1..Len(groups[i]) : x <= y) => x = 1
      BY <2>6
    <3> QED BY <2>6, <3>1, <3>2 DEF Min
  <2>8. key(p) = IF of = {} THEN s[p] ELSE groups[Max(of)][Min(own(groups[Max(of)]))]
    BY DEF GroupKeyOf
  <2> HIDE DEF of, own, key
  <2> QED BY <2>2, <2>3, <2>5, <2>7, <2>8
<1> HIDE DEF key
<1>10. \A i \in 1..n : 1 \in DOMAIN groups[i] /\ groups[i][1] \in ToSet(groups[i])
  <2> TAKE i \in 1..n
  <2>1. groups[i] \in Seq(Stop) /\ \E j \in DOMAIN groups[i] : TRUE
    BY DEF ToSet
  <2>2. 1 \in DOMAIN groups[i]
    BY <2>1, LenProperties
  <2> QED BY <2>2 DEF ToSet
<1>11. \A p, q \in DOMAIN s : \A i \in 1..n : s[p] \in ToSet(groups[i]) =>
         (key(q) = key(p) <=> s[q] \in ToSet(groups[i]))
  <2> SUFFICES ASSUME NEW p \in DOMAIN s, NEW q \in DOMAIN s, NEW i \in 1..n,
                      s[p] \in ToSet(groups[i])
      PROVE  key(q) = key(p) <=> s[q] \in ToSet(groups[i])
    OBVIOUS
  <2>1. key(p) = groups[i][1]
    BY <1>9
  <2>2. PICK j \in 1..n : s[q] \in ToSet(groups[j])
    BY <1>2
  <2>3. key(q) = groups[j][1]
    BY <1>9, <2>2
  <2>4. i # j => groups[i][1] # groups[j][1]
    BY <1>10
  <2>5. i # j => s[q] \notin ToSet(groups[i])
    BY <2>2
  <2> QED BY <2>1, <2>2, <2>3, <2>4, <2>5
\* The first visits are the ascending first positions of the groups.
<1> DEFINE visits == {p \in DOMAIN s : s[p] \in Range(ids)}
           first  == {p \in visits : \A q \in visits : key(q) = key(p) => p <= q}
           stop(p) == {s[q] : q \in {k \in visits : key(k) = key(p)}}
           inGroup(p, i) == s[p] \in ToSet(groups[i])
<1>12. visits = DOMAIN s /\ OptimizedStops(s, groups, ids)
                              = [i \in DOMAIN InOrder(first) |-> stop(InOrder(first)[i])]
  BY <1>2, <1>3 DEF OptimizedStops, key
<1> HIDE DEF visits
<1>13. ASSUME NEW i \in 1..n
       PROVE  \E p \in DOMAIN s : inGroup(p, i) /\ \A q \in DOMAIN s : inGroup(q, i) => p <= q
  <2> DEFINE P == {p \in DOMAIN s : inGroup(p, i)}
  <2>1. PICK x \in ToSet(groups[i]) : TRUE
    OBVIOUS
  <2>2. PICK p \in DOMAIN s : s[p] = x
    BY <1>1, <1>4, <1>5, <2>1
  <2>3. P \in SUBSET Nat /\ P # {}
    BY <1>2, <2>1, <2>2
  <2>4. PICK m \in P : \A q \in P : m <= q
    BY <2>3, LeastExists
  <2> QED BY <2>4
<1> DEFINE f == [i \in 1..n |-> CHOOSE p \in DOMAIN s :
                   inGroup(p, i) /\ \A q \in DOMAIN s : inGroup(q, i) => p <= q]
<1>14. \A i \in 1..n : /\ f[i] \in DOMAIN s /\ inGroup(f[i], i)
                       /\ \A q \in DOMAIN s : inGroup(q, i) => f[i] <= q
  <2> HIDE DEF inGroup
  <2> QED BY <1>13
<1>15. f \in [1..n -> DOMAIN s]
  <2>1. \A i \in 1..n : f[i] \in DOMAIN s
    BY <1>14
  <2>2. f = [i \in 1..n |-> f[i]]
    OBVIOUS
  <2> HIDE DEF f
  <2> QED BY <2>1, <2>2
<1> HIDE DEF f
<1>16. \A i \in 1..n : f[i] \in first
  <2> TAKE i \in 1..n
  <2>1. \A q \in visits : key(q) = key(f[i]) => f[i] <= q
    BY <1>11, <1>12, <1>14
  <2> QED BY <1>12, <1>14, <2>1
<1>17. \A p \in first : \E i \in 1..n : f[i] = p
  <2> TAKE p \in first
  <2>1. p \in DOMAIN s /\ \A q \in DOMAIN s : key(q) = key(p) => p <= q
    BY <1>12
  <2>2. PICK i \in 1..n : inGroup(p, i)
    BY <1>2, <2>1
  <2>3. key(f[i]) = key(p)
    BY <1>11, <1>14, <2>1, <2>2
  <2>4. f[i] \in Nat /\ p \in Nat /\ p <= f[i] /\ f[i] <= p
    BY <1>2, <1>14, <2>1, <2>2, <2>3
  <2>5. f[i] = p
    BY <2>4
  <2> QED BY <2>5
<1>18. \A i, j \in 1..n : i < j => f[i] < f[j]
  BY <1>1, <1>14
<1>19. first \in SUBSET Int /\ IsFiniteSet(first)
  <2>1. IsFiniteSet(DOMAIN s) /\ DOMAIN s \in SUBSET Int
    BY <1>2, FS_Interval
  <2>2. first \in SUBSET DOMAIN s
    BY <1>12
  <2> HIDE DEF first
  <2>3. IsFiniteSet(first)
    BY <2>1, <2>2, FS_Subset
  <2> QED BY <2>1, <2>2, <2>3
<1>20. \A i \in 1..n : stop(f[i]) = ToSet(groups[i])
  <2> TAKE i \in 1..n
  <2>1. \A x \in stop(f[i]) : x \in ToSet(groups[i])
    BY <1>11, <1>12, <1>14
  <2>2. ASSUME NEW x \in ToSet(groups[i]) PROVE x \in stop(f[i])
    <3>1. PICK q \in DOMAIN s : s[q] = x
      BY <1>1, <1>4, <1>5
    <3>2. key(q) = key(f[i])
      BY <1>11, <1>14, <3>1
    <3> QED BY <1>12, <3>1, <3>2
  <2> HIDE DEF stop
  <2> QED BY <2>1, <2>2
<1> HIDE DEF first, stop, inGroup
<1>21. f \in [1..n -> first]
  BY <1>15, <1>16
<1>22. f = InOrder(first)
  BY <1>17, <1>18, <1>19, <1>21, InOrderIsUnique
<1>23. OptimizedStops(s, groups, ids) = [i \in DOMAIN groups |-> ToSet(groups[i])]
  BY <1>8, <1>12, <1>15, <1>20, <1>22
<1> QED BY <1>7, <1>23 DEF s, ids

-----------------------------------------------------------------------------
(***************************************************************************)
(* The invariant of the loops.                                             *)
(***************************************************************************)

PairLess == {r \in Pair \X Pair :
               r[1][1] < r[2][1] \/ (r[1][1] = r[2][1] /\ r[1][2] < r[2][2])}

\* The two loops of cluster_stops visit every pair of stops once.
LEMMA PairsAreAll ==
  /\ Pairs \in Seq(Pair) /\ IsInjective(Pairs)
  /\ \A p \in Pair : \E i \in DOMAIN Pairs : Pairs[i] = p
<1>1. IsFiniteSet(Pair)
  <2>1. IsFiniteSet(Stop \X Stop)
    BY StopIsNat, FS_Product
  <2>2. Pair \in SUBSET (Stop \X Stop)
    BY DEF Pair
  <2> QED BY <2>1, <2>2, FS_Subset
<1>2. TotalOrder(Pair, PairLess)
  <2>1. \A p \in Pair : p[1] \in Nat /\ p[2] \in Nat /\ p = <<p[1], p[2]>>
    <3> TAKE p \in Pair
    <3>1. p \in Stop \X Stop
      BY DEF Pair
    <3>2. p = <<p[1], p[2]>> /\ p[1] \in Stop /\ p[2] \in Stop
      BY <3>1
    <3>3. \A x \in Stop : x \in Nat
      BY StopIsNat
    <3> QED BY <3>2, <3>3
  <2>2. \A p, q \in Pair : <<p, q>> \in PairLess <=>
          (p[1] < q[1] \/ (p[1] = q[1] /\ p[2] < q[2]))
    BY DEF PairLess
  <2>3. \A p \in Pair : <<p, p>> \notin PairLess
    BY <2>1, <2>2
  <2>4. ASSUME NEW p \in Pair, NEW q \in Pair, NEW r \in Pair,
               <<p, q>> \in PairLess, <<q, r>> \in PairLess
        PROVE  <<p, r>> \in PairLess
    BY <2>1, <2>2, <2>4
  <2>5. ASSUME NEW p \in Pair, NEW q \in Pair, p # q
        PROVE  <<p, q>> \in PairLess \/ <<q, p>> \in PairLess
    BY <2>1, <2>2, <2>5
  <2> QED BY <2>3, <2>4, <2>5 DEF TotalOrder
<1> DEFINE c == Cardinality(Pair)
<1>3. /\ c \in Nat /\ Pairs \in [1..c -> Pair]
      /\ \A x \in Pair : \E i \in 1..c : Pairs[i] = x
      /\ \A i, j \in 1..c : Pairs[i] = Pairs[j] => i = j
  <2>1. Pairs = OrderedBy(Pair, PairLess)
    BY DEF Pairs, PairLess
  <2> QED BY <1>1, <1>2, <2>1, OrderedByIsNumbering
<1> HIDE DEF c
<1>4. Pairs \in Seq(Pair) /\ DOMAIN Pairs = 1..c
  BY <1>3, SeqDef
<1> QED BY <1>3, <1>4 DEF IsInjective

\* The answers for the trees there are.
Answers ==
  {[sequence |-> FlattenSeq([i \in DOMAIN order |-> Cluster(order[i])]),
    groups   |-> [i \in DOMAIN order |-> Cluster(order[i])]] :
       order \in SetToSeqs({Find(x) : x \in Stop})}

\* Two stops have one root exactly when pairs compared connect them.
TreesAreReached == Connects(Roots, Compared)

OptimizerInv ==
  /\ near \in SUBSET Pair
  /\ todo \in Seq(Pair) /\ IsInjective(todo)
  /\ ParentsBelow
  /\ TreesAreReached
  /\ reply # <<>> => todo = <<>> /\ reply \in Answers

\* Before the loops every stop is a tree of its own and no pair is compared.
LEMMA OptimizerInvInit == OptimizerInit => OptimizerInv
<1> SUFFICES ASSUME OptimizerInit PROVE OptimizerInv
  OBVIOUS
<1>1. near \in SUBSET Pair /\ parent = [x \in Stop |-> x] /\ todo = Pairs /\ reply = <<>>
  BY DEF OptimizerInit
<1>2. ParentsBelow
  BY <1>1, StopIsNat DEF ParentsBelow
<1>3. Compared = {}
  <2>1. \A p \in Pair : Contains(Pairs, p)
    BY PairsAreAll, LenProperties DEF Contains
  <2> QED BY <1>1, <2>1 DEF Compared
<1>4. \A x \in Stop : Roots[x] = x
  BY <1>1, <1>2, RootsInvariant
<1>5. TreesAreReached
  <2>1. ASSUME NEW x \in Stop, NEW y \in Stop, y \in Reach(x, {}) PROVE y = x
    BY <2>1 DEF Reach
  <2>2. \A x \in Stop : x \in Reach(x, {})
    BY DEF Reach
  <2> QED BY <1>3, <1>4, <2>1, <2>2 DEF TreesAreReached, Connects
<1> QED BY <1>1, <1>2, <1>5, PairsAreAll DEF OptimizerInv

\* A turn of the inner loop: the pair taken off todo is compared, and union,
\* with its path compression, joins what it connects and nothing else.
LEMMA CompareStep == OptimizerInv /\ Compare => OptimizerInv'
<1> SUFFICES ASSUME OptimizerInv, Compare PROVE OptimizerInv'
  OBVIOUS
<1> DEFINE p == Head(todo)
<1>1. /\ near \in SUBSET Pair /\ todo \in Seq(Pair) /\ IsInjective(todo) /\ ParentsBelow
      /\ TreesAreReached /\ todo # <<>> /\ todo' = Tail(todo)
      /\ near' = near /\ reply' = reply /\ reply = <<>>
  BY DEF OptimizerInv, Compare
<1>2. /\ todo' \in Seq(Pair) /\ Len(todo) \in Nat \ {0} /\ Len(todo') = Len(todo) - 1
      /\ DOMAIN todo = 1..Len(todo) /\ DOMAIN todo' = 1..Len(todo')
      /\ \A i \in 1..Len(todo') : todo'[i] = todo[i + 1]
      /\ p = todo[1] /\ p \in Pair
  <2>1. todo' \in Seq(Pair) /\ Len(todo) \in Nat \ {0} /\ Len(todo') = Len(todo) - 1
    BY <1>1, EmptySeq, HeadTailProperties
  <2>2. \A i \in 1..Len(todo') : todo'[i] = todo[i + 1]
    BY <1>1, <2>1, HeadTailProperties
  <2>3. p = todo[1] /\ p \in Pair
    BY <1>1, <2>1, HeadTailProperties
  <2>4. DOMAIN todo = 1..Len(todo) /\ DOMAIN todo' = 1..Len(todo')
    BY <1>1, <2>1, LenProperties
  <2> QED BY <2>1, <2>2, <2>3, <2>4
<1> HIDE DEF p
<1>3. IsInjective(todo')
  <2> SUFFICES ASSUME NEW i \in DOMAIN todo', NEW j \in DOMAIN todo', todo'[i] = todo'[j]
      PROVE  i = j
    BY DEF IsInjective
  <2>1. i + 1 \in DOMAIN todo /\ j + 1 \in DOMAIN todo /\ todo[i + 1] = todo[j + 1]
    BY <1>2
  <2>2. i + 1 = j + 1
    BY <1>1, <2>1 DEF IsInjective
  <2> QED BY <1>2, <2>2
<1>4. \A q : Contains(todo', q) <=> Contains(todo, q) /\ q # p
  <2> TAKE q
  <2>1. ASSUME NEW i \in 1..Len(todo'), todo'[i] = q PROVE Contains(todo, q) /\ q # p
    <3>1. i + 1 \in DOMAIN todo /\ 1 \in DOMAIN todo /\ i + 1 # 1 /\ todo[i + 1] = q
      BY <1>2, <2>1
    <3> QED BY <1>1, <1>2, <3>1 DEF Contains, IsInjective
  <2>2. ASSUME NEW i \in 1..Len(todo), todo[i] = q, q # p PROVE Contains(todo', q)
    <3>1. i - 1 \in 1..Len(todo') /\ (i - 1) + 1 = i
      BY <1>2, <2>2
    <3>2. todo'[i - 1] = q
      BY <1>2, <2>2, <3>1
    <3> QED BY <3>1, <3>2 DEF Contains
  <2> QED BY <2>1, <2>2 DEF Contains
<1>5. Compared' = IF p \in near THEN Compared \cup {p} ELSE Compared
  <2>1. Contains(todo, p)
    BY <1>2 DEF Contains
  <2>2. Compared' = {q \in near : ~Contains(todo', q)}
    BY <1>1 DEF Compared
  <2> QED BY <1>4, <2>1, <2>2 DEF Compared
<1>6. Compared \in SUBSET Pair
  BY <1>1 DEF Compared
<1>7. CASE p \notin near
  <2>1. parent' = parent
    BY <1>7 DEF Compare, p
  <2>2. ParentsBelow' /\ Roots' = Roots
    BY <1>1, <2>1 DEF ParentsBelow, Roots, Find, Stop
  <2>3. TreesAreReached'
    <3>1. \A x, y \in Stop : Roots'[x] = Roots'[y] <=> y \in Reach(x, Compared')
      BY <1>1, <1>5, <1>7, <2>2 DEF TreesAreReached, Connects
    <3>2. \A x : Reach(x, Compared)' = Reach(x, Compared')
      BY DEF Reach, Stop
    <3> QED BY <3>1, <3>2 DEF TreesAreReached, Connects, Stop
  <2> QED BY <1>1, <1>2, <1>3, <2>2, <2>3 DEF OptimizerInv, Pair, Stop
<1>8. CASE p \in near
  <2> DEFINE a == p[1]
             b == p[2]
             lo == Min({Find(a), Find(b)})
  <2>1. a \in Stop /\ b \in Stop /\ p = <<a, b>>
    BY <1>2 DEF Pair
  <2>2. Union(a, b)
    BY <1>8 DEF Compare, p
  <2> HIDE DEF a, b
  <2>3. /\ ParentsBelow'
        /\ \A x \in Stop : Find(x)' = IF Find(x) \in {Find(a), Find(b)} THEN lo ELSE Find(x)
    BY <1>1, <2>1, <2>2, UnionMerges
  <2>4. lo \in {Find(a), Find(b)}
    <3>1. Find(a) \in Nat /\ Find(b) \in Nat
      BY <1>1, <2>1, FindIsRoot, StopIsNat
    <3> QED BY <3>1, LowHigh
  <2> HIDE DEF lo
  <2>5. Roots \in [Stop -> Stop] /\ \A x \in Stop : Roots[x] = Find(x)
    BY <1>1, FindIsRoot DEF Roots
  <2>6. Roots' \in [Stop -> Stop] /\ \A x \in Stop : Roots'[x] = Find(x)'
    <3>1. Roots' = [x \in Stop |-> Find(x)']
      BY DEF Roots, Stop
    <3>2. \A x \in Stop : Find(x)' \in Stop
      BY <1>1, <2>1, <2>3, <2>4, FindIsRoot
    <3> QED BY <3>1, <3>2
  <2>7. \A x, y \in Stop : Roots'[x] = Roots'[y] <=> y \in Reach(x, Compared \cup {<<a, b>>})
    <3>1. \A x, y \in Stop : Roots[x] = Roots[y] <=> y \in Reach(x, Compared)
      BY <1>1 DEF TreesAreReached, Connects
    <3>2. \A x \in Stop : Roots'[x] = IF Roots[x] \in {Roots[a], Roots[b]} THEN lo ELSE Roots[x]
      BY <2>1, <2>3, <2>5, <2>6
    <3>3. lo \in {Roots[a], Roots[b]} /\ <<a, b>> \in Pair
      BY <1>2, <2>1, <2>4, <2>5
    <3> DEFINE F == Roots
               G == Roots'
               S == Compared
    <3>4. F \in [Stop -> Stop] /\ G \in [Stop -> Stop] /\ S \in SUBSET Pair
      BY <1>6, <2>5, <2>6
    <3> HIDE DEF F, G, S
    <3>5. \A x \in Stop : G[x] = IF F[x] \in {F[a], F[b]} THEN lo ELSE F[x]
      BY <3>2 DEF F, G
    <3>6. \A x, y \in Stop : F[x] = F[y] <=> y \in Reach(x, S)
      BY <3>1 DEF F, S
    <3>7. lo \in {F[a], F[b]} /\ <<a, b>> \in Pair
      BY <3>3 DEF F
    <3>8. Connects(F, S) /\ Joins(G, F, a, b, lo)
      BY <3>5, <3>6, <3>7 DEF Connects, Joins
    <3>9. Connects(G, S \cup {<<a, b>>})
      BY <2>1, <3>4, <3>7, <3>8, ReachGrows
    <3> QED BY <3>9 DEF G, S, Connects
  <2>8. TreesAreReached'
    <3>1. \A x, y \in Stop : Roots'[x] = Roots'[y] <=> y \in Reach(x, Compared')
      BY <1>5, <1>8, <2>1, <2>7
    <3>2. \A x : Reach(x, Compared)' = Reach(x, Compared')
      BY DEF Reach, Stop
    <3> QED BY <3>1, <3>2 DEF TreesAreReached, Connects, Stop
  <2> QED BY <1>1, <1>2, <1>3, <2>3, <2>8 DEF OptimizerInv, Pair, Stop
<1> QED BY <1>7, <1>8

\* The solver changes no tree: whatever order it returns is of these clusters.
LEMMA SolveStep == OptimizerInv /\ Solve => OptimizerInv'
<1> SUFFICES ASSUME OptimizerInv, Solve PROVE OptimizerInv'
  OBVIOUS
<1>1. near' = near /\ parent' = parent /\ todo' = todo /\ todo = <<>>
  BY DEF Solve
<1>2. reply' \in Answers
  BY DEF Solve, Answers
<1>3. ParentsBelow' /\ TreesAreReached' /\ Answers' = Answers
  BY <1>1 DEF OptimizerInv, ParentsBelow, TreesAreReached, Connects, Roots, Find, Stop, Compared,
                Reach, Answers, Cluster
<1> QED BY <1>1, <1>2, <1>3 DEF OptimizerInv, Pair, Stop

\* The invariant is inductive.
LEMMA OptimizerInvStep == OptimizerInv /\ [OptimizerNext]_optimizerVars => OptimizerInv'
<1> SUFFICES ASSUME OptimizerInv, [OptimizerNext]_optimizerVars PROVE OptimizerInv'
  OBVIOUS
<1>1. CASE UNCHANGED optimizerVars
  <2>1. near' = near /\ parent' = parent /\ todo' = todo /\ reply' = reply
    BY <1>1 DEF optimizerVars
  <2>2. ParentsBelow' /\ TreesAreReached' /\ Answers' = Answers
    BY <2>1 DEF OptimizerInv, ParentsBelow, TreesAreReached, Connects, Roots, Find, Stop, Compared,
                  Reach, Answers, Cluster
  <2> QED BY <2>1, <2>2 DEF OptimizerInv, Pair, Stop
<1> QED BY <1>1, CompareStep, SolveStep DEF OptimizerNext

\* The trees are the connected components and a root is the first of its own.
LEMMA InvComponents == OptimizerInv => TreesAreComponents
<1> SUFFICES ASSUME OptimizerInv, NEW x \in Stop
    PROVE  /\ {y \in Stop : Find(y) = Find(x)} = Reach(x, Compared)
           /\ Find(x) = Min(Reach(x, Compared))
  BY DEF TreesAreComponents
<1> DEFINE R == Reach(x, Compared)
<1>1. ParentsBelow /\ Connects(Roots, Compared)
  BY DEF OptimizerInv, TreesAreReached
<1>2. \A y \in Stop : Roots[y] = Find(y) /\ Find(y) \in Stop /\ Find(y) <= y
                     /\ Find(Find(y)) = Find(y)
  BY <1>1, FindIsRoot DEF Roots
<1>3. R \subseteq Stop /\ \A y \in Stop : y \in R <=> Find(y) = Find(x)
  <2>1. R \subseteq Stop
    BY DEF Reach
  <2> QED BY <1>1, <1>2, <2>1 DEF Connects
<1> HIDE DEF R
<1>4. {y \in Stop : Find(y) = Find(x)} = R
  BY <1>3
<1>5. Find(x) \in R /\ \A y \in R : Find(x) <= y
  BY <1>2, <1>3
<1>6. \A m \in R : m \in Nat
  BY <1>3, StopIsNat
<1>7. \A m \in R : (\A y \in R : m <= y) => m = Find(x)
  BY <1>5, <1>6
<1>8. Min(R) \in R /\ \A y \in R : Min(R) <= y
  BY <1>5 DEF Min
<1> QED BY <1>4, <1>7, <1>8 DEF R

\* When the loops are done an answer has every stop once, in the clusters of
\* close stops, and the route builder takes it as it is.
LEMMA InvAnswer == OptimizerInv => AnswerIsAccepted
<1> SUFFICES ASSUME OptimizerInv, reply # <<>> PROVE AnswerIsAccepted
  BY DEF AnswerIsAccepted
<1>1. ParentsBelow /\ todo = <<>> /\ reply \in Answers
  BY DEF OptimizerInv
<1>2. Compared = near
  <2>1. \A p : ~Contains(<<>>, p)
    BY EmptySeq DEF Contains
  <2> QED BY <1>1, <2>1 DEF Compared
<1>3. \A x \in Stop : {y \in Stop : Find(y) = Find(x)} = Reach(x, near)
  BY <1>2, InvComponents DEF TreesAreComponents
<1> DEFINE F == {Find(x) : x \in Stop}
           n == Cardinality(F)
<1>4. PICK order \in SetToSeqs(F) :
        reply = [sequence |-> FlattenSeq([i \in DOMAIN order |-> Cluster(order[i])]),
                 groups   |-> [i \in DOMAIN order |-> Cluster(order[i])]]
  BY <1>1 DEF Answers
<1>5. /\ IsFiniteSet(F) /\ n \in Nat /\ F \in SUBSET Stop
      /\ \A x \in Stop : Find(x) \in F
      /\ \A r \in F : r \in Stop /\ Find(r) = r
  <2>1. F \in SUBSET Stop /\ \A r \in F : Find(r) = r
    BY <1>1, FindIsRoot
  <2>2. \A x \in Stop : Find(x) \in F
    OBVIOUS
  <2> HIDE DEF F
  <2> QED BY <2>1, <2>2, StopIsNat, FS_Subset, FS_CardinalityType
<1> HIDE DEF F
<1>6. order \in [1..n -> F] /\ \A i, j \in 1..n : i # j => order[i] # order[j]
  BY <1>4 DEF SetToSeqs
<1>7. \A r \in F : \E i \in 1..n : order[i] = r
  <2> DEFINE D == 1..n
  <2>1. IsFiniteSet(D) /\ Cardinality(D) = n
    BY <1>5, FS_Interval
  <2>2. order \in Injection(D, F)
    BY <1>6 DEF Injection, IsInjective
  <2> HIDE DEF D
  <2>3. order \in Surjection(D, F)
    BY <1>5, <2>1, <2>2, FS_Injection
  <2> QED BY <2>3 DEF Surjection, D
<1> HIDE DEF n
<1> DEFINE groups == [i \in DOMAIN order |-> Cluster(order[i])]
<1>8. /\ DOMAIN groups = 1..n
      /\ \A i \in 1..n : /\ groups[i] \in Seq(Stop) /\ IsInjective(groups[i])
                         /\ ToSet(groups[i]) = {y \in Stop : Find(y) = order[i]}
  <2>1. DOMAIN groups = 1..n
    BY <1>6
  <2>2. ASSUME NEW i \in 1..n
        PROVE  /\ groups[i] \in Seq(Stop) /\ IsInjective(groups[i])
               /\ ToSet(groups[i]) = {y \in Stop : Find(y) = order[i]}
    <3> DEFINE C == {y \in Stop : Find(y) = order[i]}
               g == InOrder(C)
               m == Cardinality(C)
    <3>1. groups[i] = g
      BY <2>1 DEF Cluster
    <3>2. C \in SUBSET Stop
      OBVIOUS
    <3> HIDE DEF C
    <3>3. IsFiniteSet(C) /\ C \in SUBSET Int
      <4>1. IsFiniteSet(C)
        BY <3>2, StopIsNat, FS_Subset
      <4>2. \A x \in Stop : x \in Int
        BY StopIsNat
      <4> QED BY <3>2, <4>1, <4>2
    <3>4. /\ m \in Nat /\ g \in [1..m -> C]
          /\ \A x \in C : \E k \in 1..m : g[k] = x
          /\ \A k, l \in 1..m : g[k] = g[l] => k = l
      BY <3>3, InOrderIsNumbering
    <3> HIDE DEF g, m
    <3>5. g \in Seq(Stop) /\ DOMAIN g = 1..m
      BY <3>2, <3>4, SeqDef
    <3>6. IsInjective(g)
      BY <3>4, <3>5 DEF IsInjective
    <3>7. ToSet(g) = C
      <4>1. \A x : x \in ToSet(g) <=> \E k \in 1..m : g[k] = x
        BY <3>5 DEF ToSet
      <4>2. \A x \in C : x \in ToSet(g)
        BY <3>4, <4>1
      <4>3. \A x \in ToSet(g) : x \in C
        BY <3>4, <4>1
      <4> QED BY <4>2, <4>3
    <3> QED BY <3>1, <3>5, <3>6, <3>7 DEF C
  <2> HIDE DEF groups
  <2> QED BY <2>1, <2>2
<1>9. groups \in [1..n -> Seq(Stop)]
  BY <1>6, <1>8
<1>10. reply = [sequence |-> FlattenSeq(groups), groups |-> groups]
  BY <1>4
<1> HIDE DEF groups
<1>11. \A i \in 1..n : IsInjective(groups[i]) /\ ToSet(groups[i]) # {}
  <2> TAKE i \in 1..n
  <2>1. order[i] \in F
    BY <1>6
  <2>2. order[i] \in ToSet(groups[i])
    BY <1>5, <1>8, <2>1
  <2> QED BY <1>8, <2>2
<1>12. \A i, j \in 1..n : i # j => ToSet(groups[i]) \cap ToSet(groups[j]) = {}
  BY <1>6, <1>8
<1>13. ASSUME NEW x \in Stop
       PROVE  \E i \in 1..n : x \in ToSet(groups[i]) /\ ToSet(groups[i]) = Reach(x, near)
  <2>1. PICK i \in 1..n : order[i] = Find(x)
    BY <1>5, <1>7
  <2>2. ToSet(groups[i]) = {y \in Stop : Find(y) = Find(x)}
    BY <1>8, <2>1
  <2> QED BY <1>3, <2>2
<1> DEFINE ids == [x \in Stop |-> x]
<1>14. /\ IsExactCover(FlattenSeq(groups), ids)
       /\ OptimizedStops(FlattenSeq(groups), groups, ids)
            = [i \in DOMAIN groups |-> ToSet(groups[i])]
  <2>1. \A x \in Stop : \E i \in 1..n : x \in ToSet(groups[i])
    BY <1>13
  <2> QED BY <1>5, <1>9, <1>11, <1>12, <2>1, GroupsAreStops DEF n
<1>15. reply.sequence = FlattenSeq(groups) /\ reply.groups = groups
  BY <1>10
<1>16. \A x \in Stop : \E i \in DOMAIN groups : ToSet(groups[i]) = Reach(x, near)
  BY <1>8, <1>13
<1> QED BY <1>14, <1>15, <1>16 DEF AnswerIsAccepted

\* cluster_stops and the route builder, for any number of stops and any set of
\* close pairs: at every point of the loops the trees of the union-find are the
\* components of the pairs compared, rooted at their first stop, and every answer
\* is accepted and becomes one route stop for each cluster (solver.py,
\* route-builder.ts).
THEOREM OptimizerCorrect == OptimizerSpec => []OptimizerSafe
<1>1. OptimizerInv => OptimizerSafe
  BY InvComponents, InvAnswer DEF OptimizerSafe
<1> QED BY <1>1, OptimizerInvInit, OptimizerInvStep, PTL DEF OptimizerSpec
=============================================================================
