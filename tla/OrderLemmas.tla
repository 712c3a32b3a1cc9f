---------------------------- MODULE OrderLemmas ----------------------------
(***************************************************************************)
(* Facts about numbers and recursion that the proofs of several components *)
(* need: sets that have a least or a greatest element, the rank of an      *)
(* element of a finite set, functions defined by recursion, and sums.      *)
(***************************************************************************)
EXTENDS Integers, FiniteSetsExt, FiniteSetTheorems, TLAPS

LEMMA LeastNatural ==
  ASSUME NEW S \in SUBSET Nat, S # {}
  PROVE  \E n \in S : \A m \in S : n <= m
<1>1. IsWellFoundedOn(OpToRel(<, Nat), Nat)
  BY NatLessThanWellFounded
<1>2. PICK n \in S : \A m \in S : ~ (<<m, n>> \in OpToRel(<, Nat))
  BY <1>1, WFMin
<1>3. \A m \in S : n <= m
  <2> SUFFICES ASSUME NEW m \in S, m < n PROVE FALSE
    OBVIOUS
  <2>1. <<m, n>> \in OpToRel(<, Nat)
    BY DEF OpToRel
  <2> QED BY <1>2, <2>1
<1> QED BY <1>3

(* The least element of a set of integers with a lower bound.              *)
LEMMA MinIsLeast ==
  ASSUME NEW S \in SUBSET Int, S # {}, NEW b \in Int, \A s \in S : b <= s
  PROVE  /\ Min(S) \in S
         /\ \A s \in S : Min(S) <= s
<1>1. PICK D \in SUBSET Nat : D = {s - b : s \in S}
  <2>1. \A s \in S : s - b \in Nat
    OBVIOUS
  <2>2. {s - b : s \in S} \in SUBSET Nat
    BY <2>1
  <2> QED BY <2>2
<1>2. PICK d \in D : \A e \in D : d <= e
  <2>1. D # {}
    BY <1>1
  <2> QED BY <2>1, LeastNatural
<1>3. b + d \in S /\ \A s \in S : b + d <= s
  BY <1>1, <1>2
<1>4. \E n \in S : \A s \in S : n <= s
  BY <1>3
<1> QED BY <1>4 DEF Min

LEMMA MaxIsGreatest ==
  ASSUME NEW S \in SUBSET Int, S # {}, NEW b \in Int, \A s \in S : s <= b
  PROVE  /\ Max(S) \in S
         /\ \A s \in S : s <= Max(S)
<1>1. PICK D \in SUBSET Nat : D = {b - s : s \in S}
  <2>1. \A s \in S : b - s \in Nat
    OBVIOUS
  <2>2. {b - s : s \in S} \in SUBSET Nat
    BY <2>1
  <2> QED BY <2>2
<1>2. PICK d \in D : \A e \in D : d <= e
  <2>1. D # {}
    BY <1>1
  <2> QED BY <2>1, LeastNatural
<1>3. b - d \in S /\ \A s \in S : s <= b - d
  BY <1>1, <1>2
<1>4. \E n \in S : \A s \in S : n >= s
  BY <1>3
<1> QED BY <1>4 DEF Max
-----------------------------------------------------------------------------
(* The numbers of a finite set below one of its elements are fewer than    *)
(* those below a greater one, and fewer than its elements.                 *)
LEMMA RanksGrow ==
  ASSUME NEW S \in SUBSET Int, IsFiniteSet(S), NEW m \in S, NEW n \in S, m < n
  PROVE  Cardinality({i \in S : i < m}) < Cardinality({i \in S : i < n})
<1>1. PICK A \in SUBSET S : A = {i \in S : i < m}
  OBVIOUS
<1>2. PICK B \in SUBSET S : B = {i \in S : i < n}
  OBVIOUS
<1>3. A \in SUBSET B /\ A # B
  <2>1. m \in B /\ m \notin A
    BY <1>1, <1>2
  <2>2. \A i \in A : i \in B
    BY <1>1, <1>2
  <2> QED BY <2>1, <2>2
<1>4. IsFiniteSet(B)
  BY FS_Subset
<1>5. IsFiniteSet(A) /\ Cardinality(A) <= Cardinality(B) /\ Cardinality(A) # Cardinality(B)
  BY <1>3, <1>4, FS_Subset
<1>6. Cardinality(A) \in Nat /\ Cardinality(B) \in Nat
  BY <1>4, <1>5, FS_CardinalityType
<1>7. Cardinality(A) < Cardinality(B)
  BY <1>5, <1>6
<1> QED BY <1>1, <1>2, <1>7

LEMMA RankBounded ==
  ASSUME NEW S \in SUBSET Int, IsFiniteSet(S), NEW n \in S
  PROVE  Cardinality({i \in S : i < n}) \in 0..(Cardinality(S) - 1)
<1>1. PICK A \in SUBSET S : A = {i \in S : i < n}
  OBVIOUS
<1>2. IsFiniteSet(A) /\ Cardinality(A) <= Cardinality(S) /\ Cardinality(A) # Cardinality(S)
  <2>1. A # S
    BY <1>1
  <2> QED BY <2>1, FS_Subset
<1>3. Cardinality(A) \in Nat /\ Cardinality(S) \in Nat
  BY <1>2, FS_CardinalityType
<1>4. Cardinality(A) \in 0..(Cardinality(S) - 1)
  BY <1>2, <1>3
<1> QED BY <1>1, <1>4

(* Every rank below the size of the set is some element's.                 *)
LEMMA RankIsTaken ==
  ASSUME NEW S \in SUBSET Int, IsFiniteSet(S), NEW k \in 1..Cardinality(S)
  PROVE  \E n \in S : Cardinality({i \in S : i < n}) = k - 1
<1>1. Cardinality(S) \in Nat
  BY FS_CardinalityType
<1>2. PICK R : R = 0..(Cardinality(S) - 1)
  OBVIOUS
<1>3. IsFiniteSet(R) /\ Cardinality(R) = Cardinality(S)
  BY <1>1, <1>2, FS_Interval
<1>4. PICK rank : rank = [n \in S |-> Cardinality({i \in S : i < n})]
  OBVIOUS
<1>5. rank \in [S -> R]
  BY <1>2, <1>4, RankBounded
<1>6. \A m, n \in S : m < n => rank[m] < rank[n]
  BY <1>4, RanksGrow
<1>7. \A m, n \in S : rank[m] = rank[n] => m = n
  <2> SUFFICES ASSUME NEW m \in S, NEW n \in S, m # n PROVE rank[m] # rank[n]
    OBVIOUS
  <2>1. rank[m] \in Int /\ rank[n] \in Int
    BY <1>1, <1>2, <1>5
  <2>2. CASE m < n
    BY <1>6, <2>1, <2>2
  <2>3. CASE n < m
    BY <1>6, <2>1, <2>3
  <2> QED BY <2>2, <2>3
<1>8. rank \in Injection(S, R)
  BY <1>5, <1>7, Zenon DEF Injection, IsInjective
<1>9. rank \in Surjection(S, R)
  BY <1>3, <1>8, FS_Injection
<1>10. \E n \in S : rank[n] = k - 1
  <2>1. k - 1 \in R
    BY <1>1, <1>2
  <2> QED BY <1>9, <2>1, Zenon DEF Surjection
<1> QED BY <1>4, <1>10
-----------------------------------------------------------------------------
(* A function can be defined by recursion on smaller numbers: its value at *)
(* k from the one at the parent of k.                                      *)
IsRecursive(f, a, n, root, parent, Step) ==
  /\ f[a] = root
  /\ \A k \in (a + 1)..n : f[k] = Step[k][f[parent[k]]]

LEMMA TreeRecursion ==
  ASSUME NEW a \in Int, NEW n \in Int, a <= n,
         NEW V, NEW root \in V, NEW parent,
         \A k \in (a + 1)..n : parent[k] \in a..(k - 1),
         NEW Step \in [(a + 1)..n -> [V -> V]]
  PROVE  \E f \in [a..n -> V] : IsRecursive(f, a, n, root, parent, Step)
<1> DEFINE Follows(f, m) ==
             /\ f \in [a..m -> V]
             /\ f[a] = root
             /\ \A k \in (a + 1)..m : f[k] = Step[k][f[parent[k]]]
<1> SUFFICES ASSUME \A f : ~Follows(f, n) PROVE FALSE
  BY DEF IsRecursive
<1>1. PICK D \in SUBSET (a..n) : D = {m \in a..n : \A f : ~Follows(f, m)}
  <2> HIDE DEF Follows
  <2> QED OBVIOUS
<1>2. n \in D
  BY <1>1
<1>3. PICK d \in D : \A m \in D : d <= m
  <2>1. D \in SUBSET Int /\ D # {} /\ \A m \in D : a <= m
    <3> HIDE DEF Follows
    <3> QED BY <1>2
  <2>2. Min(D) \in D /\ \A m \in D : Min(D) <= m
    BY <2>1, MinIsLeast
  <2> QED BY <2>2
<1>4. d \in a..n /\ \A f : ~Follows(f, d)
  BY <1>1, <1>3
<1>5. d # a
  <2>1. PICK f : f = [k \in a..a |-> root]
    OBVIOUS
  <2>2. Follows(f, a)
    BY <2>1
  <2> QED BY <1>4, <2>2
<1>6. d - 1 \in a..n /\ d - 1 \notin D
  BY <1>3, <1>4, <1>5
<1>7. PICK f : Follows(f, d - 1)
  BY <1>1, <1>6
<1>8. parent[d] \in a..(d - 1) /\ d \in (a + 1)..n
  BY <1>4, <1>5
<1>9. PICK v \in V : v = Step[d][f[parent[d]]]
  BY <1>7, <1>8
<1>10. PICK g : g = [k \in a..d |-> IF k = d THEN v ELSE f[k]]
  OBVIOUS
<1>11. g \in [a..d -> V] /\ g[d] = v /\ \A k \in a..(d - 1) : g[k] = f[k]
  BY <1>4, <1>7, <1>10
<1>12. g[a] = root
  BY <1>4, <1>5, <1>7, <1>11
<1>13. ASSUME NEW k \in (a + 1)..d
       PROVE  g[k] = Step[k][g[parent[k]]]
  <2>1. parent[k] \in a..(k - 1)
    BY <1>4
  <2>2. g[parent[k]] = f[parent[k]]
    BY <1>4, <1>11, <2>1
  <2>3. CASE k = d
    BY <1>9, <1>11, <2>2, <2>3
  <2>4. CASE k # d
    <3>1. k \in (a + 1)..(d - 1)
      BY <1>4, <2>4
    <3> QED BY <1>7, <1>11, <2>2, <3>1
  <2> QED BY <2>3, <2>4
<1>14. Follows(g, d)
  BY <1>11, <1>12, <1>13
<1> QED BY <1>4, <1>14
-----------------------------------------------------------------------------
(* A running total.                                                         *)
IsSum(f, n, add) == f = [k \in 0..n |-> IF k = 0 THEN 0 ELSE f[k - 1] + add[k]]

LEMMA SumExists ==
  ASSUME NEW n \in Nat, NEW add \in [1..n -> Nat]
  PROVE  \E f : IsSum(f, n, add)
<1>1. PICK next : next = [k \in 1..n |-> [v \in Nat |-> v + add[k]]]
  OBVIOUS
<1>2. next \in [1..n -> [Nat -> Nat]]
  BY <1>1
<1>3. PICK parent : parent = [k \in 1..n |-> k - 1]
  OBVIOUS
<1>4. PICK f \in [0..n -> Nat] :
        /\ f[0] = 0
        /\ \A k \in 1..n : f[k] = next[k][f[parent[k]]]
  <2>1. PICK a, m, root \in Int : a = 0 /\ m = n /\ root = 0
    OBVIOUS
  <2>2. a <= m /\ root \in Nat /\ next \in [(a + 1)..m -> [Nat -> Nat]]
    BY <1>2, <2>1
  <2>3. \A k \in (a + 1)..m : parent[k] \in a..(k - 1)
    BY <1>3, <2>1
  <2>4. PICK f \in [a..m -> Nat] : IsRecursive(f, a, m, root, parent, next)
    BY <2>2, <2>3, TreeRecursion
  <2>5. f[a] = root /\ \A k \in (a + 1)..m : f[k] = next[k][f[parent[k]]]
    BY <2>4 DEF IsRecursive
  <2>6. a..m = 0..n /\ (a + 1)..m = 1..n
    BY <2>1
  <2>7. f \in [0..n -> Nat] /\ f[0] = 0 /\ \A k \in 1..n : f[k] = next[k][f[parent[k]]]
    BY <2>1, <2>5, <2>6
  <2> QED BY <2>7, Zenon
<1>5. ASSUME NEW k \in 1..n
      PROVE  f[k] = f[k - 1] + add[k]
  <2>1. k - 1 \in 0..n /\ parent[k] = k - 1
    BY <1>3
  <2>2. f[k - 1] \in Nat
    BY <2>1
  <2> QED BY <1>1, <1>4, <2>1, <2>2
<1>6. f = [k \in 0..n |-> IF k = 0 THEN 0 ELSE f[k - 1] + add[k]]
  <2>1. \A k \in 0..n : k # 0 => k \in 1..n
    OBVIOUS
  <2> QED BY <1>4, <1>5, <2>1
<1> QED BY <1>6, Zenon DEF IsSum

(* It grows from term to term.                                              *)
LEMMA SumGrows ==
  ASSUME NEW n \in Nat, NEW add \in [1..n -> Nat], NEW f, IsSum(f, n, add)
  PROVE  /\ f[0] = 0 /\ \A k \in 1..n : f[k] = f[k - 1] + add[k]
         /\ \A k \in 0..n : f[k] \in Nat
         /\ \A a, b \in 0..n : a <= b => f[a] <= f[b]
<1>1. f = [k \in 0..n |-> IF k = 0 THEN 0 ELSE f[k - 1] + add[k]]
  BY DEF IsSum
<1>2. f[0] = 0
  BY <1>1
<1>3. ASSUME NEW k \in 1..n
      PROVE  f[k] = f[k - 1] + add[k]
  BY <1>1
<1>4. ASSUME NEW D, D = {k \in 0..n : f[k] \notin Nat}, D # {}
      PROVE  FALSE
  <2>1. D \in SUBSET Nat
    BY <1>4
  <2>2. PICK d \in D : \A k \in D : d <= k
    BY <1>4, <2>1, LeastNatural
  <2>3. d \in 0..n /\ f[d] \notin Nat /\ d # 0
    BY <1>2, <1>4, <2>2
  <2>4. d - 1 \in 0..n /\ d \in 1..n /\ ~(d <= d - 1)
    BY <2>3
  <2>5. f[d - 1] \in Nat
    BY <1>4, <2>2, <2>4
  <2> QED BY <1>3, <2>3, <2>4, <2>5
<1>5. \A k \in 0..n : f[k] \in Nat
  BY <1>4
<1>6. ASSUME NEW a \in 0..n, NEW D, D = {b \in a..n : ~(f[a] <= f[b])}, D # {}
      PROVE  FALSE
  <2>1. D \in SUBSET Nat
    BY <1>6
  <2>2. PICK d \in D : \A k \in D : d <= k
    BY <1>6, <2>1, LeastNatural
  <2>3. d \in a..n /\ ~(f[a] <= f[d]) /\ f[a] \in Nat
    BY <1>5, <1>6, <2>2
  <2>4. d # a
    BY <2>3
  <2>5. d - 1 \in a..n /\ d \in 1..n /\ ~(d <= d - 1) /\ d - 1 \in 0..n
    BY <2>3, <2>4
  <2>6. f[a] <= f[d - 1]
    BY <1>6, <2>2, <2>5
  <2>7. f[d] = f[d - 1] + add[d] /\ f[d - 1] \in Nat /\ add[d] \in Nat
    BY <1>3, <1>5, <2>5
  <2> QED BY <2>3, <2>6, <2>7
<1>7. ASSUME NEW a \in 0..n, NEW b \in 0..n, a <= b
      PROVE  f[a] <= f[b]
  <2>1. {c \in a..n : ~(f[a] <= f[c])} = {}
    BY <1>6
  <2>2. b \in a..n
    BY <1>7
  <2> QED BY <2>1, <2>2
<1> QED BY <1>2, <1>3, <1>5, <1>7

(* The more is added the greater it is.                                     *)
LEMMA SumOrder ==
  ASSUME NEW n \in Nat, NEW add \in [1..n -> Nat], NEW more \in [1..n -> Nat],
         \A k \in 1..n : add[k] <= more[k],
         NEW f, IsSum(f, n, add), NEW g, IsSum(g, n, more)
  PROVE  \A k \in 0..n : f[k] <= g[k]
<1>1. /\ f[0] = 0 /\ \A k \in 1..n : f[k] = f[k - 1] + add[k]
      /\ \A k \in 0..n : f[k] \in Nat
  BY SumGrows
<1>2. /\ g[0] = 0 /\ \A k \in 1..n : g[k] = g[k - 1] + more[k]
      /\ \A k \in 0..n : g[k] \in Nat
  BY SumGrows
<1>3. ASSUME NEW D, D = {k \in 0..n : ~(f[k] <= g[k])}, D # {}
      PROVE  FALSE
  <2>1. D \in SUBSET Nat
    BY <1>3
  <2>2. PICK d \in D : \A k \in D : d <= k
    BY <1>3, <2>1, LeastNatural
  <2>3. d \in 0..n /\ ~(f[d] <= g[d]) /\ d # 0
    BY <1>1, <1>2, <1>3, <2>2
  <2>4. d - 1 \in 0..n /\ d \in 1..n /\ ~(d <= d - 1)
    BY <2>3
  <2>5. f[d - 1] <= g[d - 1]
    BY <1>3, <2>2, <2>4
  <2>6. PICK u, v, x, y \in Nat :
          /\ u = f[d - 1] /\ v = g[d - 1] /\ x = add[d] /\ y = more[d]
    <3>1. f[d - 1] \in Nat /\ g[d - 1] \in Nat /\ add[d] \in Nat /\ more[d] \in Nat
      BY <1>1, <1>2, <2>4
    <3> QED BY <3>1
  <2>7. f[d] = u + x /\ g[d] = v + y
    BY <1>1, <1>2, <2>4, <2>6
  <2>8. x <= y /\ u <= v
    BY <2>4, <2>5, <2>6
  <2>9. u + x <= v + y
    BY <2>8
  <2> QED BY <2>3, <2>7, <2>9
<1> QED BY <1>3

(* If one term changes the sum changes by the difference.                   *)
Differs(f, g, n, i, add, more) == g[n] = f[n] - add[i] + more[i]

LEMMA SumDiffers ==
  ASSUME NEW n \in Nat, NEW add \in [1..n -> Nat], NEW more \in [1..n -> Nat],
         NEW i \in 1..n, \A k \in 1..n : k # i => more[k] = add[k],
         NEW f, IsSum(f, n, add), NEW g, IsSum(g, n, more)
  PROVE  Differs(f, g, n, i, add, more)
<1>1. /\ f[0] = 0 /\ \A k \in 1..n : f[k] = f[k - 1] + add[k]
      /\ \A k \in 0..n : f[k] \in Nat
  BY SumGrows
<1>2. /\ g[0] = 0 /\ \A k \in 1..n : g[k] = g[k - 1] + more[k]
      /\ \A k \in 0..n : g[k] \in Nat
  BY SumGrows
<1>3. PICK x, y \in Nat : x = add[i] /\ y = more[i]
  OBVIOUS
<1> DEFINE Right(k) == g[k] = IF k < i THEN f[k] ELSE f[k] - x + y
<1>4. ASSUME NEW D, D = {k \in 0..n : ~Right(k)}, D # {}
      PROVE  FALSE
  <2>1. D \in SUBSET Nat
    BY <1>4
  <2>2. PICK d \in D : \A k \in D : d <= k
    BY <1>4, <2>1, LeastNatural
  <2>3. d \in 0..n /\ ~Right(d) /\ d # 0
    BY <1>1, <1>2, <1>4, <2>2
  <2>4. d - 1 \in 0..n /\ d \in 1..n /\ ~(d <= d - 1)
    BY <2>3
  <2>5. Right(d - 1)
    BY <1>4, <2>2, <2>4
  <2>6. PICK u, v, a, b \in Nat :
          /\ u = f[d - 1] /\ v = g[d - 1] /\ a = add[d] /\ b = more[d]
    <3>1. f[d - 1] \in Nat /\ g[d - 1] \in Nat /\ add[d] \in Nat /\ more[d] \in Nat
      BY <1>1, <1>2, <2>4
    <3> QED BY <3>1
  <2>7. f[d] = u + a /\ g[d] = v + b
    BY <1>1, <1>2, <2>4, <2>6
  <2>8. v = IF d - 1 < i THEN u ELSE u - x + y
    BY <2>5, <2>6
  <2>9. IF d = i THEN a = x /\ b = y ELSE a = b
    BY <1>3, <2>4, <2>6
  <2>10. v + b = IF d < i THEN u + a ELSE u + a - x + y
    BY <2>4, <2>8, <2>9
  <2> QED BY <2>3, <2>7, <2>10
<1>5. Right(n)
  <2>1. {k \in 0..n : ~Right(k)} = {}
    BY <1>4
  <2> QED BY <2>1
<1> QED BY <1>3, <1>5 DEF Differs

-----------------------------------------------------------------------------
(* The greatest of finitely many.                                           *)
LEMMA FiniteHasMax ==
  ASSUME NEW S \in SUBSET Int, IsFiniteSet(S), S # {}
  PROVE  Max(S) \in S /\ \A s \in S : s <= Max(S)
<1>1. PICK c \in Nat : c = Cardinality(S)
  BY FS_CardinalityType
<1>2. c # 0
  BY <1>1, FS_EmptySet
<1>3. c \in 1..Cardinality(S)
  BY <1>1, <1>2
<1>4. PICK n \in S : Cardinality({i \in S : i < n}) = c - 1
  BY <1>3, RankIsTaken
<1>5. ASSUME NEW m \in S, n < m
      PROVE  FALSE
  <2>1. Cardinality({i \in S : i < n}) < Cardinality({i \in S : i < m})
    BY <1>5, RanksGrow
  <2>2. Cardinality({i \in S : i < m}) \in 0..(Cardinality(S) - 1)
    BY RankBounded
  <2> QED BY <1>1, <1>4, <2>1, <2>2
<1>6. n \in Int /\ \A s \in S : s <= n
  BY <1>5
<1> QED BY <1>6, MaxIsGreatest

(* At most two have fewer than two before them, by score and then by number.*)
LEMMA TwoComeFirst ==
  ASSUME NEW B \in SUBSET Int, IsFiniteSet(B), NEW score, \A r \in B : score[r] \in Int,
         NEW W, W = {r \in B : Cardinality({o \in B : \/ score[o] > score[r]
                                                      \/ score[o] = score[r] /\ o < r}) < 2}
  PROVE  IsFiniteSet(W) /\ Cardinality(W) <= 2
<1> DEFINE First(o, r) == score[o] > score[r] \/ (score[o] = score[r] /\ o < r)
           Ahead(r) == {o \in B : First(o, r)}
<1>1. IsFiniteSet(W) /\ Cardinality(W) \in Nat
  <2>1. W \in SUBSET B
    OBVIOUS
  <2> QED BY <2>1, FS_Subset, FS_CardinalityType
<1>2. ASSUME NEW x \in W, NEW y \in W, NEW z \in W, x # y, First(x, z), First(y, z)
      PROVE  FALSE
  <2>1. PICK A : A = Ahead(z)
    OBVIOUS
  <2>2. A \in SUBSET B /\ {x, y} \in SUBSET A
    BY <1>2, <2>1
  <2>3. IsFiniteSet(A) /\ Cardinality(A) \in Nat
    BY <2>2, FS_Subset, FS_CardinalityType
  <2>4. Cardinality({x, y}) = 2
    <3>1. IsFiniteSet({x}) /\ Cardinality({x}) = 1
      BY FS_Singleton
    <3>2. Cardinality({x} \cup {y}) = Cardinality({x}) + 1
      BY <1>2, <3>1, FS_AddElement
    <3>3. {x} \cup {y} = {x, y}
      OBVIOUS
    <3> QED BY <3>1, <3>2, <3>3
  <2>5. Cardinality({x, y}) <= Cardinality(A)
    BY <2>2, <2>3, FS_Subset
  <2>6. Cardinality(A) < 2
    BY <2>1
  <2> QED BY <2>3, <2>4, <2>5, <2>6
<1>3. \A x, y \in W : x # y => First(x, y) \/ First(y, x)
  <2> TAKE x, y \in W
  <2>1. x \in Int /\ y \in Int /\ score[x] \in Int /\ score[y] \in Int
    OBVIOUS
  <2> QED BY <2>1
<1>4. \A x, y, z \in W : First(x, y) /\ First(y, z) => First(x, z)
  <2> TAKE x, y, z \in W
  <2>1. x \in Int /\ y \in Int /\ z \in Int
    OBVIOUS
  <2>2. score[x] \in Int /\ score[y] \in Int /\ score[z] \in Int
    OBVIOUS
  <2> QED BY <2>1, <2>2
<1>5. ASSUME NEW x \in W, NEW y \in W, NEW z \in W, x # y, y # z, x # z
      PROVE  FALSE
  <2> HIDE DEF First
  <2>1. \A a, b, c \in W : a # b => ~(First(a, c) /\ First(b, c))
    BY <1>2
  <2> QED BY <1>3, <1>4, <1>5, <2>1
<1> HIDE DEF First
<1>6. PICK c \in Nat : c = Cardinality(W)
  BY <1>1
<1> SUFFICES ASSUME 3 <= c PROVE FALSE
  BY <1>1, <1>6
<1>7. W # {}
  <2>1. c # 0
    OBVIOUS
  <2> QED BY <1>1, <1>6, <2>1, FS_EmptySet
<1>8. PICK x \in W : TRUE
  BY <1>7
<1>9. PICK W1 : W1 = W \ {x}
  OBVIOUS
<1>10. IsFiniteSet(W1) /\ Cardinality(W1) = c - 1
  BY <1>1, <1>6, <1>9, FS_RemoveElement
<1>11. W1 # {}
  BY <1>6, <1>10, FS_EmptySet
<1>12. PICK y \in W1 : TRUE
  BY <1>11
<1>13. IsFiniteSet(W1 \ {y}) /\ Cardinality(W1 \ {y}) = c - 2
  BY <1>6, <1>10, FS_RemoveElement
<1>14. W1 \ {y} # {}
  BY <1>6, <1>13, FS_EmptySet
<1>15. PICK z \in W1 \ {y} : TRUE
  BY <1>14
<1> QED BY <1>5, <1>9, <1>12, <1>15
=============================================================================
