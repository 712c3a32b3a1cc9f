------------------------ MODULE TaskAllocationProofs ------------------------
(***************************************************************************)
(* The allocation of tasks, for any problem: what is kept of a route leg   *)
(* by leg is what its stops amount to, no task is lost or doubled, every   *)
(* move pays, and balancing keeps within its slack.                        *)
(***************************************************************************)
EXTENDS TaskAllocation, OrderLemmas, SequenceTheorems

(* Totals are built up from the left.                                       *)
LEMMA TotalSteps ==
  ASSUME NEW s \in Seq(Int)
  PROVE  \E upTo \in [0..Len(s) -> Int] :
           /\ upTo[0] = 0 /\ \A k \in 1..Len(s) : upTo[k] = upTo[k - 1] + s[k]
           /\ Total(s) = upTo[Len(s)]
<1>1. PICK n \in Nat : n = Len(s)
  OBVIOUS
<1>2. \A k \in 1..n : s[k] \in Int
  BY <1>1
<1>3. PICK next : next = [k \in 1..n |-> [v \in Int |-> v + s[k]]]
  OBVIOUS
<1>4. next \in [1..n -> [Int -> Int]]
  BY <1>2, <1>3
<1>5. PICK parent : parent = [k \in 1..n |-> k - 1]
  OBVIOUS
<1>6. PICK f \in [0..n -> Int] :
        /\ f[0] = 0
        /\ \A k \in 1..n : f[k] = next[k][f[parent[k]]]
  <2>1. PICK a, m, root \in Int : a = 0 /\ m = n /\ root = 0
    OBVIOUS
  <2>2. a <= m /\ next \in [(a + 1)..m -> [Int -> Int]]
    BY <1>4, <2>1
  <2>3. \A k \in (a + 1)..m : parent[k] \in a..(k - 1)
    BY <1>5, <2>1
  <2>4. PICK f \in [a..m -> Int] : IsRecursive(f, a, m, root, parent, next)
    BY <2>2, <2>3, TreeRecursion
  <2>5. f \in [0..n -> Int] /\ f[0] = 0
    BY <2>1, <2>4 DEF IsRecursive
  <2>6. \A k \in 1..n : f[k] = next[k][f[parent[k]]]
    BY <2>1, <2>4 DEF IsRecursive
  <2> QED BY <2>5, <2>6
<1>7. ASSUME NEW k \in 1..n
      PROVE  f[k] = f[k - 1] + s[k]
  <2>1. k - 1 \in 0..n /\ parent[k] = k - 1
    BY <1>5
  <2>2. f[k - 1] \in Int
    BY <2>1
  <2> QED BY <1>3, <1>6, <2>1, <2>2
<1>8. f = [k \in 0..n |-> IF k = 0 THEN 0 ELSE f[k - 1] + s[k]]
  <2>1. \A k \in 0..n : k # 0 => k \in 1..n
    OBVIOUS
  <2> QED BY <1>6, <1>7, <2>1
<1> DEFINE upTo == CHOOSE g : g = [k \in 0..n |-> IF k = 0 THEN 0 ELSE g[k - 1] + s[k]]
<1>9. upTo = [k \in 0..n |-> IF k = 0 THEN 0 ELSE upTo[k - 1] + s[k]]
  BY <1>8, Zenon
<1>10. Total(s) = upTo[n]
  BY <1>1, Zenon DEF Total
<1> HIDE DEF upTo
<1>11. DOMAIN upTo = 0..n /\ upTo[0] = 0 /\ \A k \in 1..n : upTo[k] = upTo[k - 1] + s[k]
  <2>1. \A k \in 1..n : k \in 0..n /\ k # 0
    OBVIOUS
  <2>2. 0 \in 0..n
    OBVIOUS
  <2> QED BY <1>9, <2>1, <2>2
<1>12. ASSUME NEW D, D = {k \in 0..n : upTo[k] \notin Int}, D # {}
       PROVE  FALSE
  <2>1. D \in SUBSET Nat
    BY <1>12
  <2>2. PICK d \in D : \A k \in D : d <= k
    BY <1>12, <2>1, LeastNatural
  <2>3. d \in 0..n /\ upTo[d] \notin Int
    BY <1>12
  <2>4. d # 0
    BY <1>11, <2>3
  <2>5. d \in 1..n /\ d - 1 \in 0..n /\ ~(d <= d - 1)
    BY <2>3, <2>4
  <2>6. upTo[d - 1] \in Int
    BY <1>12, <2>2, <2>5
  <2>7. upTo[d] = upTo[d - 1] + s[d] /\ s[d] \in Int
    BY <1>2, <1>11, <2>5
  <2> QED BY <2>3, <2>6, <2>7
<1>13. \A k \in 0..n : upTo[k] \in Int
  BY <1>12
<1>14. upTo \in [0..n -> Int]
  BY <1>9, <1>13, Zenon
<1> QED BY <1>1, <1>10, <1>11, <1>14

LEMMA TotalIsInt ==
  ASSUME NEW s \in Seq(Int)
  PROVE  Total(s) \in Int
<1>1. Len(s) \in 0..Len(s)
  OBVIOUS
<1> QED BY <1>1, TotalSteps

(* What agrees with a total up to its end is the total.                     *)
LEMMA TotalIsUnique ==
  ASSUME NEW s \in Seq(Int), NEW g,
         g[0] = 0, \A k \in 1..Len(s) : g[k] = g[k - 1] + s[k]
  PROVE  Total(s) = g[Len(s)]
<1>1. PICK n \in Nat : n = Len(s)
  OBVIOUS
<1>2. PICK f \in [0..n -> Int] : /\ f[0] = 0 /\ \A k \in 1..n : f[k] = f[k - 1] + s[k]
                                 /\ Total(s) = f[n]
  BY <1>1, TotalSteps
<1>3. ASSUME NEW e \in 0..n, f[e] # g[e]
      PROVE  FALSE
  <2>0. PICK D \in SUBSET (0..n) : D = {k \in 0..n : f[k] # g[k]}
    OBVIOUS
  <2>1. e \in D /\ D \in SUBSET Nat
    BY <1>3, <2>0
  <2>2. PICK d \in D : \A k \in D : d <= k
    BY <2>1, LeastNatural
  <2>3. d \in 0..n /\ f[d] # g[d]
    BY <2>0
  <2>4. d # 0
    BY <1>2, <2>3
  <2>5. d \in 1..n /\ d - 1 \in 0..n /\ ~(d <= d - 1)
    BY <2>3, <2>4
  <2>6. f[d - 1] = g[d - 1]
    BY <2>0, <2>2, <2>5
  <2> QED BY <1>1, <1>2, <2>3, <2>5, <2>6
<1>4. f[n] = g[n]
  <2>1. \A k \in 0..n : f[k] = g[k]
    BY <1>3
  <2>2. n \in 0..n
    OBVIOUS
  <2> QED BY <2>1, <2>2
<1> QED BY <1>1, <1>2, <1>4

LEMMA TotalOfNone == Total(<< >>) = 0
<1>1. << >> \in Seq(Int) /\ Len(<< >>) = 0
  OBVIOUS
<1>2. PICK s : s = << >>
  OBVIOUS
<1>3. PICK f \in [0..Len(s) -> Int] : f[0] = 0 /\ Total(s) = f[Len(s)]
  BY <1>1, <1>2, TotalSteps
<1> QED BY <1>1, <1>2, <1>3

LEMMA TotalNotNegative ==
  ASSUME NEW s \in Seq(Nat)
  PROVE  Total(s) \in Nat
<1>1. s \in Seq(Int) /\ \A k \in 1..Len(s) : s[k] \in Nat
  OBVIOUS
<1>2. PICK n \in Nat : n = Len(s)
  OBVIOUS
<1>3. PICK f \in [0..n -> Int] : /\ f[0] = 0 /\ \A k \in 1..n : f[k] = f[k - 1] + s[k]
                                 /\ Total(s) = f[n]
  BY <1>1, <1>2, TotalSteps
<1>4. ASSUME NEW D, D = {k \in 0..n : f[k] \notin Nat}, D # {}
      PROVE  FALSE
  <2>1. D \in SUBSET Nat
    BY <1>4
  <2>2. PICK d \in D : \A k \in D : d <= k
    BY <1>4, <2>1, LeastNatural
  <2>3. d \in 0..n /\ f[d] \notin Nat
    BY <1>4
  <2>4. d # 0
    BY <1>3, <2>3
  <2>5. d \in 1..n /\ d - 1 \in 0..n /\ ~(d <= d - 1)
    BY <2>3, <2>4
  <2>6. f[d - 1] \in Nat
    BY <1>4, <2>2, <2>5
  <2> QED BY <1>1, <1>2, <1>3, <2>3, <2>5, <2>6
<1>5. f[n] \in Nat
  <2>1. \A k \in 0..n : f[k] \in Nat
    BY <1>4
  <2>2. n \in 0..n
    OBVIOUS
  <2> QED BY <2>1, <2>2
<1> QED BY <1>3, <1>5

LEMMA TotalOfBoth ==
  ASSUME NEW s \in Seq(Int), NEW t \in Seq(Int)
  PROVE  Total(s \o t) = Total(s) + Total(t)
<1>1. PICK m, n \in Nat : m = Len(s) /\ n = Len(t)
  OBVIOUS
<1>2. PICK st : st = s \o t
  OBVIOUS
<1>3. /\ st \in Seq(Int) /\ Len(st) = m + n
      /\ \A k \in 1..m : st[k] = s[k]
      /\ \A k \in (m + 1)..(m + n) : st[k] = t[k - m]
  BY <1>1, <1>2
<1>4. PICK f \in [0..m -> Int] : /\ f[0] = 0 /\ \A k \in 1..m : f[k] = f[k - 1] + s[k]
                                 /\ Total(s) = f[m]
  BY <1>1, TotalSteps
<1>5. PICK h \in [0..n -> Int] : /\ h[0] = 0 /\ \A k \in 1..n : h[k] = h[k - 1] + t[k]
                                 /\ Total(t) = h[n]
  BY <1>1, TotalSteps
<1>6. PICK g : g = [k \in 0..(m + n) |-> IF k <= m THEN f[k] ELSE f[m] + h[k - m]]
  OBVIOUS
<1>7. g[0] = 0
  BY <1>4, <1>6
<1>8. ASSUME NEW k \in 1..Len(st)
      PROVE  g[k] = g[k - 1] + st[k]
  <2>1. CASE k <= m
    <3>1. k \in 1..m /\ k \in 0..(m + n) /\ k - 1 \in 0..(m + n) /\ k - 1 <= m
      BY <1>3, <2>1
    <3> QED BY <1>3, <1>4, <1>6, <3>1
  <2>2. CASE k = m + 1
    <3>1. /\ k \in 0..(m + n) /\ m \in 0..(m + n) /\ k - 1 = m /\ ~(k <= m) /\ k - m = 1
          /\ k \in (m + 1)..(m + n) /\ 1 \in 1..n /\ f[m] \in Int
      BY <1>3, <2>2
    <3>2. h[1] = h[1 - 1] + t[1] /\ 1 - 1 = 0 /\ t[1] \in Int
      BY <1>1, <1>5, <3>1
    <3>3. g[k] = f[m] + h[1] /\ g[k - 1] = f[m] /\ st[k] = t[1]
      BY <1>3, <1>6, <3>1
    <3> QED BY <1>5, <3>1, <3>2, <3>3
  <2>3. CASE k > m + 1
    <3>1. PICK j \in 2..n : j = k - m
      BY <1>3, <2>3
    <3>2. /\ k \in 0..(m + n) /\ k - 1 \in 0..(m + n) /\ ~(k <= m) /\ ~(k - 1 <= m)
          /\ (k - 1) - m = j - 1 /\ k \in (m + 1)..(m + n) /\ j \in 1..n /\ j - 1 \in 0..n
          /\ m \in 0..m
      BY <1>3, <2>3, <3>1
    <3>3. g[k] = f[m] + h[j] /\ g[k - 1] = f[m] + h[j - 1] /\ st[k] = t[j]
      BY <1>3, <1>6, <3>1, <3>2
    <3>4. h[j] = h[j - 1] + t[j]
      BY <1>5, <3>2
    <3>5. f[m] \in Int /\ h[j - 1] \in Int
      BY <3>2
    <3>6. t[j] \in Int
      BY <1>1, <3>2
    <3>7. \A a, b, c \in Int : a + (b + c) = (a + b) + c
      OBVIOUS
    <3>8. f[m] + (h[j - 1] + t[j]) = (f[m] + h[j - 1]) + t[j]
      BY <3>5, <3>6, <3>7, Zenon
    <3> QED BY <3>3, <3>4, <3>8, Zenon
  <2> QED BY <1>3, <2>1, <2>2, <2>3
<1>9. Total(st) = g[m + n]
  BY <1>3, <1>7, <1>8, TotalIsUnique
<1>10. g[m + n] = f[m] + h[n]
  <2>1. CASE n = 0
    BY <1>4, <1>5, <1>6, <2>1
  <2>2. CASE n # 0
    <3>1. m + n \in 0..(m + n) /\ ~(m + n <= m) /\ (m + n) - m = n
      BY <2>2
    <3> QED BY <1>6, <3>1
  <2> QED BY <2>1, <2>2
<1> QED BY <1>2, <1>4, <1>5, <1>9, <1>10

LEMMA TotalOfOne ==
  ASSUME NEW x \in Int
  PROVE  Total(<<x>>) = x
<1>1. PICK s : s = <<x>>
  OBVIOUS
<1>2. s \in Seq(Int) /\ Len(s) = 1 /\ s[1] = x
  BY <1>1
<1>3. PICK f \in [0..Len(s) -> Int] :
        /\ f[0] = 0 /\ \A k \in 1..Len(s) : f[k] = f[k - 1] + s[k]
        /\ Total(s) = f[Len(s)]
  BY <1>2, TotalSteps
<1>4. f[1] = f[1 - 1] + s[1] /\ 1 - 1 = 0
  BY <1>2, <1>3
<1> QED BY <1>1, <1>2, <1>3, <1>4

-----------------------------------------------------------------------------
(* Sequences put together and taken apart.                                  *)
IsJoined(S, st, s, t) ==
  /\ st \in Seq(S) /\ Len(st) = Len(s) + Len(t)
  /\ \A k \in 1..Len(s) : st[k] = s[k]
  /\ \A k \in 1..Len(t) : st[Len(s) + k] = t[k]

LEMMA JoinFacts ==
  ASSUME NEW S, NEW s \in Seq(S), NEW t \in Seq(S)
  PROVE  IsJoined(S, s \o t, s, t)
<1>1. PICK m \in Nat, n \in Nat : m = Len(s) /\ n = Len(t)
  OBVIOUS
<1>2. PICK st : st = s \o t
  OBVIOUS
<1>3. /\ st \in Seq(S) /\ Len(st) = m + n
      /\ \A k \in 1..(m + n) : st[k] = IF k <= m THEN s[k] ELSE t[k - m]
  BY <1>1, <1>2, ConcatProperties
<1>4. ASSUME NEW k \in 1..m
      PROVE  st[k] = s[k]
  <2>1. k \in 1..(m + n) /\ k <= m
    OBVIOUS
  <2> QED BY <1>3, <2>1
<1>5. ASSUME NEW k \in 1..n
      PROVE  st[m + k] = t[k]
  <2>1. m + k \in 1..(m + n) /\ ~(m + k <= m) /\ (m + k) - m = k
    OBVIOUS
  <2>2. st[m + k] = IF m + k <= m THEN s[m + k] ELSE t[(m + k) - m]
    BY <1>3, <2>1
  <2> QED BY <2>1, <2>2, Zenon
<1> QED BY <1>1, <1>2, <1>3, <1>4, <1>5 DEF IsJoined

LEMMA PartFacts ==
  ASSUME NEW S, NEW s \in Seq(S), NEW n \in Nat, n = Len(s), NEW i \in 0..n
  PROVE  /\ SubSeq(s, 1, i) \in Seq(S) /\ Len(SubSeq(s, 1, i)) = i
         /\ \A k \in 1..i : SubSeq(s, 1, i)[k] = s[k]
         /\ SubSeq(s, i + 1, n) \in Seq(S) /\ Len(SubSeq(s, i + 1, n)) = n - i
         /\ \A k \in 1..(n - i) : SubSeq(s, i + 1, n)[k] = s[i + k]
<1>1. i \in Int /\ i + 1 \in Int /\ n \in Int /\ 1 \in Int
  OBVIOUS
<1>2. \A k \in 1..n : s[k] \in S
  OBVIOUS
<1>3. \A k \in 1..i : s[k] \in S
  BY <1>2
<1>4. \A k \in (i + 1)..n : s[k] \in S
  BY <1>2
<1>5. PICK a : a = SubSeq(s, 1, i)
  OBVIOUS
<1>6. /\ a \in Seq(S) /\ Len(a) = (IF 1 <= i THEN i - 1 + 1 ELSE 0)
      /\ \A k \in 1..(i - 1 + 1) : a[k] = s[1 + k - 1]
  BY <1>1, <1>3, <1>5, SubSeqProperties
<1>7. /\ a \in Seq(S) /\ Len(a) = i
      /\ \A k \in 1..i : a[k] = s[k]
  <2>1. i - 1 + 1 = i /\ \A k \in 1..i : 1 + k - 1 = k
    OBVIOUS
  <2> QED BY <1>6, <2>1
<1>8. PICK b : b = SubSeq(s, i + 1, n)
  OBVIOUS
<1>9. /\ b \in Seq(S) /\ Len(b) = (IF i + 1 <= n THEN n - (i + 1) + 1 ELSE 0)
      /\ \A k \in 1..(n - (i + 1) + 1) : b[k] = s[i + 1 + k - 1]
  BY <1>1, <1>4, <1>8, SubSeqProperties
<1>10. /\ b \in Seq(S) /\ Len(b) = n - i
       /\ \A k \in 1..(n - i) : b[k] = s[i + k]
  <2>1. n - (i + 1) + 1 = n - i /\ \A k \in 1..(n - i) : i + 1 + k - 1 = i + k
    OBVIOUS
  <2> QED BY <1>9, <2>1
<1> QED BY <1>5, <1>7, <1>8, <1>10

LEMMA SplitAt ==
  ASSUME NEW S, NEW s \in Seq(S), NEW n \in Nat, n = Len(s), NEW i \in 0..n
  PROVE  s = SubSeq(s, 1, i) \o SubSeq(s, i + 1, n)
<1>1. PICK a, b : a = SubSeq(s, 1, i) /\ b = SubSeq(s, i + 1, n)
  OBVIOUS
<1>2. PICK m \in Nat, l \in Nat : m = i /\ l = n - i
  <2>1. i \in Nat /\ n - i \in Nat
    OBVIOUS
  <2> QED BY <2>1
<1>3. /\ a \in Seq(S) /\ Len(a) = m /\ \A k \in 1..m : a[k] = s[k]
      /\ b \in Seq(S) /\ Len(b) = l /\ \A k \in 1..l : b[k] = s[i + k]
  BY <1>1, <1>2, PartFacts
<1>4. PICK r : r = a \o b
  OBVIOUS
<1>5. /\ r \in Seq(S) /\ Len(r) = m + l
      /\ \A k \in 1..m : r[k] = a[k]
      /\ \A k \in 1..l : r[m + k] = b[k]
  <2>1. IsJoined(S, a \o b, a, b)
    <3>1. a \in Seq(S) /\ b \in Seq(S)
      BY <1>3
    <3> QED BY <3>1, JoinFacts
  <2> QED BY <1>3, <1>4, <2>1 DEF IsJoined
<1>6. ASSUME NEW k \in 1..n
      PROVE  s[k] = r[k]
  <2>1. CASE k <= m
    BY <1>3, <1>5, <2>1
  <2>2. CASE k > m
    <3>1. PICK j \in 1..l : k = m + j
      <4>1. k - m \in 1..l /\ k = m + (k - m)
        BY <1>2, <2>2
      <4> QED BY <4>1
    <3>2. r[m + j] = b[j] /\ b[j] = s[m + j]
      BY <1>2, <1>3, <1>5
    <3> QED BY <3>1, <3>2
  <2> QED BY <1>2, <2>1, <2>2
<1>7. Len(s) = Len(r)
  BY <1>2, <1>5
<1>8. s = r
  BY <1>5, <1>6, <1>7, SeqEqual
<1> QED BY <1>1, <1>4, <1>8

(* Sequence r is s with e put in at place i, or s without its item there.   *)
IsInsertion(S, r, s, i, e) ==
  /\ r \in Seq(S) /\ Len(r) = Len(s) + 1
  /\ \A k \in 1..(i - 1) : r[k] = s[k]
  /\ r[i] = e
  /\ \A k \in i..Len(s) : r[k + 1] = s[k]

IsRemoval(S, r, s, i) ==
  /\ r \in Seq(S) /\ Len(r) = Len(s) - 1
  /\ \A k \in 1..(i - 1) : r[k] = s[k]
  /\ \A k \in i..(Len(s) - 1) : r[k] = s[k + 1]

LEMMA InsertFacts ==
  ASSUME NEW S, NEW s \in Seq(S), NEW i \in 1..(Len(s) + 1), NEW e \in S
  PROVE  IsInsertion(S, InsertAt(s, i, e), s, i, e)
<1>0. PICK n \in Nat : n = Len(s) /\ i \in 1..(n + 1)
  OBVIOUS
<1>12. PICK r : r = InsertAt(s, i, e)
  OBVIOUS
<1>1. PICK j \in Nat, l \in Nat : j = i - 1 /\ i = j + 1 /\ l = n - j
  <2>1. i - 1 \in Nat /\ i = (i - 1) + 1 /\ n - (i - 1) \in Nat
    BY <1>0
  <2> QED BY <2>1
<1>2. PICK a, m, b : a = SubSeq(s, 1, j) /\ m = << e >> /\ b = SubSeq(s, j + 1, n)
  OBVIOUS
<1>3. /\ a \in Seq(S) /\ Len(a) = j /\ \A k \in 1..j : a[k] = s[k]
      /\ b \in Seq(S) /\ Len(b) = l /\ \A k \in 1..l : b[k] = s[j + k]
  <2>1. j \in 0..n
    BY <1>0, <1>1
  <2> QED BY <1>0, <1>1, <1>2, <2>1, PartFacts
<1>4. m \in Seq(S) /\ Len(m) = 1 /\ m[1] = e /\ 1 \in Nat
  BY <1>2
<1>5. PICK am : am = a \o m
  OBVIOUS
<1>6. /\ am \in Seq(S) /\ Len(am) = j + 1
      /\ \A k \in 1..j : am[k] = a[k]
      /\ \A k \in 1..1 : am[j + k] = m[k]
  <2>1. IsJoined(S, a \o m, a, m)
    <3>1. a \in Seq(S) /\ m \in Seq(S)
      BY <1>3, <1>4
    <3> QED BY <3>1, JoinFacts
  <2> QED BY <1>3, <1>4, <1>5, <2>1 DEF IsJoined
<1>7. /\ am \in Seq(S) /\ Len(am) = i /\ \A k \in 1..j : am[k] = s[k]
      /\ am[i] = e
  <2>1. am[j + 1] = m[1]
    BY <1>6
  <2> QED BY <1>1, <1>3, <1>4, <1>6, <2>1
<1>8. r = am \o b
  BY <1>0, <1>1, <1>2, <1>5, <1>12 DEF InsertAt
<1>9. /\ r \in Seq(S) /\ Len(r) = i + l
      /\ \A k \in 1..i : r[k] = am[k]
      /\ \A k \in 1..l : r[i + k] = b[k]
  <2>1. IsJoined(S, am \o b, am, b)
    <3>1. am \in Seq(S) /\ b \in Seq(S)
      BY <1>3, <1>7
    <3> QED BY <3>1, JoinFacts
  <2> QED BY <1>3, <1>7, <1>8, <2>1 DEF IsJoined
<1>10. Len(r) = n + 1 /\ r[i] = e /\ \A k \in 1..(i - 1) : r[k] = s[k]
  <2>1. i \in 1..i /\ i + l = n + 1
    BY <1>0, <1>1
  <2>2. \A k \in 1..(i - 1) : k \in 1..j /\ k \in 1..i
    BY <1>1
  <2> QED BY <1>7, <1>9, <2>1, <2>2
<1>11. ASSUME NEW k \in i..n
       PROVE  r[k + 1] = s[k]
  <2>1. PICK d \in 1..l : k = j + d /\ k + 1 = i + d
    <3>1. k - j \in 1..l /\ k = j + (k - j) /\ k + 1 = i + (k - j)
      BY <1>0, <1>1
    <3> QED BY <3>1
  <2>2. r[i + d] = b[d] /\ b[d] = s[j + d]
    BY <1>3, <1>9
  <2> QED BY <2>1, <2>2
<1> QED BY <1>0, <1>9, <1>10, <1>11, <1>12 DEF IsInsertion

LEMMA RemoveFacts ==
  ASSUME NEW S, NEW s \in Seq(S), NEW i \in 1..Len(s)
  PROVE  IsRemoval(S, RemoveAt(s, i), s, i)
<1>0. PICK n \in Nat : n = Len(s) /\ i \in 1..n
  OBVIOUS
<1>12. PICK r : r = RemoveAt(s, i)
  OBVIOUS
<1>1. PICK j \in Nat, l \in Nat : j = i - 1 /\ i = j + 1 /\ l = n - i
  <2>1. i - 1 \in Nat /\ i = (i - 1) + 1 /\ n - i \in Nat
    BY <1>0
  <2> QED BY <2>1
<1>2. PICK a, b : a = SubSeq(s, 1, j) /\ b = SubSeq(s, i + 1, n)
  OBVIOUS
<1>3. a \in Seq(S) /\ Len(a) = j /\ \A k \in 1..j : a[k] = s[k]
  <2>1. j \in 0..n
    BY <1>0, <1>1
  <2> QED BY <1>0, <1>1, <1>2, <2>1, PartFacts
<1>4. b \in Seq(S) /\ Len(b) = l /\ \A k \in 1..l : b[k] = s[i + k]
  <2>1. i \in 0..n
    BY <1>0
  <2> QED BY <1>0, <1>1, <1>2, <2>1, PartFacts
<1>5. r = a \o b
  BY <1>0, <1>1, <1>2, <1>12 DEF RemoveAt
<1>6. /\ r \in Seq(S) /\ Len(r) = j + l
      /\ \A k \in 1..j : r[k] = a[k]
      /\ \A k \in 1..l : r[j + k] = b[k]
  <2>1. IsJoined(S, a \o b, a, b)
    <3>1. a \in Seq(S) /\ b \in Seq(S)
      BY <1>3, <1>4
    <3> QED BY <3>1, JoinFacts
  <2> QED BY <1>3, <1>4, <1>5, <2>1 DEF IsJoined
<1>7. ASSUME NEW k \in i..(n - 1)
      PROVE  r[k] = s[k + 1]
  <2>1. PICK d \in 1..l : k = j + d /\ k + 1 = i + d
    <3>1. k - j \in 1..l /\ k = j + (k - j) /\ k + 1 = i + (k - j)
      BY <1>0, <1>1
    <3> QED BY <3>1
  <2>2. r[j + d] = b[d] /\ b[d] = s[i + d]
    BY <1>4, <1>6
  <2> QED BY <2>1, <2>2
<1>8. j + l = n - 1 /\ \A k \in 1..(i - 1) : k \in 1..j
  BY <1>0, <1>1
<1> QED BY <1>0, <1>3, <1>6, <1>7, <1>8, <1>12 DEF IsRemoval

LEMMA SplitTotal ==
  ASSUME NEW s \in Seq(Int), NEW n \in Nat, n = Len(s), NEW i \in 0..n
  PROVE  Total(s) = Total(SubSeq(s, 1, i)) + Total(SubSeq(s, i + 1, n))
<1>1. PICK a, b : a = SubSeq(s, 1, i) /\ b = SubSeq(s, i + 1, n)
  OBVIOUS
<1>2. a \in Seq(Int) /\ b \in Seq(Int)
  BY <1>1, PartFacts
<1>3. s = a \o b
  BY <1>1, SplitAt
<1> QED BY <1>1, <1>2, <1>3, TotalOfBoth

(* A total, around one of its items.                                        *)
LEMMA TotalAround ==
  ASSUME NEW s \in Seq(Int), NEW n \in Nat, n = Len(s), NEW i \in 1..n
  PROVE  /\ SubSeq(s, 1, i - 1) \in Seq(Int) /\ SubSeq(s, i + 1, n) \in Seq(Int)
         /\ Total(s) = Total(SubSeq(s, 1, i - 1)) + s[i] + Total(SubSeq(s, i + 1, n))
<1>1. PICK a, b : a = SubSeq(s, 1, i) /\ b = SubSeq(s, i + 1, n)
  OBVIOUS
<1>2. i \in 0..n /\ i \in Nat /\ i - 1 \in 0..i /\ (i - 1) + 1 = i /\ i - 1 \in 0..n
  OBVIOUS
<1>3. a \in Seq(Int) /\ Len(a) = i /\ b \in Seq(Int) /\ \A k \in 1..i : a[k] = s[k]
  BY <1>1, <1>2, PartFacts
<1>4. Total(s) = Total(a) + Total(b)
  BY <1>1, <1>2, SplitTotal
<1>5. PICK c, d : c = SubSeq(a, 1, i - 1) /\ d = SubSeq(a, i, i)
  OBVIOUS
<1>6. Total(a) = Total(c) + Total(d)
  <2>1. Total(a) = Total(SubSeq(a, 1, i - 1)) + Total(SubSeq(a, (i - 1) + 1, i))
    BY <1>2, <1>3, SplitTotal
  <2> QED BY <1>2, <1>5, <2>1
<1>7. c = SubSeq(s, 1, i - 1) /\ c \in Seq(Int)
  <2>1. PICK e : e = SubSeq(s, 1, i - 1)
    OBVIOUS
  <2>2. e \in Seq(Int) /\ Len(e) = i - 1 /\ \A k \in 1..(i - 1) : e[k] = s[k]
    BY <1>2, <2>1, PartFacts
  <2>3. c \in Seq(Int) /\ Len(c) = i - 1 /\ \A k \in 1..(i - 1) : c[k] = a[k]
    <3>1. PICK j \in 0..i : j = i - 1
      BY <1>2
    <3>2. /\ SubSeq(a, 1, j) \in Seq(Int) /\ Len(SubSeq(a, 1, j)) = j
          /\ \A k \in 1..j : SubSeq(a, 1, j)[k] = a[k]
      BY <1>2, <1>3, PartFacts
    <3> QED BY <1>5, <3>1, <3>2
  <2>4. \A k \in 1..(i - 1) : c[k] = e[k]
    <3>1. \A k \in 1..(i - 1) : k \in 1..i
      BY <1>2
    <3> QED BY <1>3, <2>2, <2>3, <3>1
  <2>5. c = e
    BY <2>2, <2>3, <2>4, SeqEqual
  <2> QED BY <2>1, <2>3, <2>5
<1>8. Total(d) = s[i] /\ s[i] \in Int
  <2>1. /\ d \in Seq(Int) /\ Len(d) = 1 /\ d[1] = a[i]
    <3>1. PICK j \in 0..i : j = i - 1 /\ j + 1 = i
      BY <1>2
    <3>2. /\ SubSeq(a, j + 1, i) \in Seq(Int) /\ Len(SubSeq(a, j + 1, i)) = i - j
          /\ \A k \in 1..(i - j) : SubSeq(a, j + 1, i)[k] = a[j + k]
      BY <1>2, <1>3, <3>1, PartFacts
    <3>3. i - j = 1 /\ 1 \in 1..1
      BY <3>1
    <3> QED BY <1>5, <3>1, <3>2, <3>3
  <2>2. a[i] = s[i]
    BY <1>2, <1>3
  <2>3. PICK x \in Int : x = s[i]
    OBVIOUS
  <2>4. d = << x >>
    BY <2>1, <2>2, <2>3
  <2> QED BY <2>3, <2>4, TotalOfOne
<1>9. Total(b) \in Int /\ Total(c) \in Int
  BY <1>3, <1>7, TotalIsInt
<1> QED BY <1>1, <1>3, <1>4, <1>6, <1>7, <1>8, <1>9

LEMMA SameSubSeq ==
  ASSUME NEW S, NEW s, NEW t, NEW m \in Int, NEW n \in Int, NEW d \in Int,
         \A k \in m..n : s[k] \in S /\ t[k + d] = s[k]
  PROVE  SubSeq(t, m + d, n + d) = SubSeq(s, m, n)
<1>1. PICK a, b : a = SubSeq(s, m, n) /\ b = SubSeq(t, m + d, n + d)
  OBVIOUS
<1>2. PICK l \in Nat : l = (IF m <= n THEN n - m + 1 ELSE 0)
  <2>1. (IF m <= n THEN n - m + 1 ELSE 0) \in Nat
    OBVIOUS
  <2> QED BY <2>1
<1>3. a \in Seq(S) /\ Len(a) = l /\ \A k \in 1..(n - m + 1) : a[k] = s[m + k - 1]
  BY <1>1, <1>2, SubSeqProperties
<1>4. b \in Seq(S) /\ Len(b) = l /\ \A k \in 1..(n - m + 1) : b[k] = t[m + d + k - 1]
  <2>1. m + d \in Int /\ n + d \in Int /\ (n + d) - (m + d) + 1 = n - m + 1
        /\ (m + d <= n + d <=> m <= n)
    OBVIOUS
  <2>2. ASSUME NEW k \in (m + d)..(n + d)
        PROVE  t[k] \in S
    <3>1. k - d \in m..n /\ (k - d) + d = k
      BY <2>1
    <3> QED BY <3>1
  <2>3. /\ b \in Seq(S)
        /\ Len(b) = (IF m + d <= n + d THEN (n + d) - (m + d) + 1 ELSE 0)
        /\ \A k \in 1..((n + d) - (m + d) + 1) : b[k] = t[m + d + k - 1]
    BY <1>1, <2>1, <2>2, SubSeqProperties
  <2> QED BY <1>2, <2>1, <2>3
<1>5. ASSUME NEW k \in 1..l
      PROVE  a[k] = b[k]
  <2>1. m <= n /\ k \in 1..(n - m + 1) /\ m + k - 1 \in m..n /\ (m + k - 1) + d = m + d + k - 1
    BY <1>2
  <2>2. a[k] = s[m + k - 1] /\ b[k] = t[m + d + k - 1]
    BY <1>3, <1>4, <2>1
  <2>3. t[(m + k - 1) + d] = s[m + k - 1]
    BY <2>1
  <2> QED BY <2>1, <2>2, <2>3
<1> QED BY <1>1, <1>3, <1>4, <1>5, SeqEqual

LEMMA TotalInserted ==
  ASSUME NEW s \in Seq(Int), NEW i \in 1..(Len(s) + 1), NEW x \in Int, NEW r,
         IsInsertion(Int, r, s, i, x)
  PROVE  Total(r) = Total(s) + x
<1>1. PICK n \in Nat : n = Len(s) /\ i \in 1..(n + 1)
  OBVIOUS
<1>2. /\ r \in Seq(Int) /\ Len(r) = n + 1 /\ r[i] = x
      /\ \A k \in 1..(i - 1) : r[k] = s[k]
      /\ \A k \in i..n : r[k + 1] = s[k]
  BY <1>1 DEF IsInsertion
<1>3. PICK a, b : a = SubSeq(r, 1, i - 1) /\ b = SubSeq(r, i + 1, n + 1)
  OBVIOUS
<1>4. n + 1 \in Nat /\ i \in Int /\ i - 1 \in 0..n /\ (i - 1) + 1 = i
  BY <1>1
<1>5. a \in Seq(Int) /\ b \in Seq(Int) /\ Total(r) = Total(a) + r[i] + Total(b)
  BY <1>1, <1>2, <1>3, <1>4, TotalAround
<1>6. Total(s) = Total(SubSeq(s, 1, i - 1)) + Total(SubSeq(s, i, n))
  <2>1. Total(s) = Total(SubSeq(s, 1, i - 1)) + Total(SubSeq(s, (i - 1) + 1, n))
    BY <1>1, <1>4, SplitTotal
  <2> QED BY <1>4, <2>1
<1>7. \A k \in 1..n : s[k] \in Int
  BY <1>1
<1>8. a = SubSeq(s, 1, i - 1)
  <2>1. \A k \in 1..(i - 1) : s[k] \in Int /\ r[k + 0] = s[k]
    <3>1. \A k \in 1..(i - 1) : k \in 1..n /\ k + 0 = k
      BY <1>1
    <3> QED BY <1>2, <1>7, <3>1
  <2>2. 1 \in Int /\ i - 1 \in Int /\ 0 \in Int /\ 1 + 0 = 1 /\ (i - 1) + 0 = i - 1
    BY <1>4
  <2>3. SubSeq(r, 1 + 0, (i - 1) + 0) = SubSeq(s, 1, i - 1)
    BY <2>1, <2>2, SameSubSeq
  <2> QED BY <1>3, <2>2, <2>3
<1>9. b = SubSeq(s, i, n)
  <2>1. \A k \in i..n : s[k] \in Int /\ r[k + 1] = s[k]
    <3>1. \A k \in i..n : k \in 1..n
      BY <1>1
    <3> QED BY <1>2, <1>7, <3>1
  <2>2. n \in Int /\ 1 \in Int
    OBVIOUS
  <2>3. SubSeq(r, i + 1, n + 1) = SubSeq(s, i, n)
    BY <1>4, <2>1, <2>2, SameSubSeq
  <2> QED BY <1>3, <2>3
<1>10. Total(a) \in Int /\ Total(b) \in Int
  BY <1>5, TotalIsInt
<1> QED BY <1>2, <1>5, <1>6, <1>8, <1>9, <1>10

LEMMA TotalUpdated ==
  ASSUME NEW s \in Seq(Int), NEW i \in 1..Len(s), NEW t \in Seq(Int), Len(t) = Len(s),
         \A k \in 1..Len(s) : k # i => t[k] = s[k]
  PROVE  Total(t) = Total(s) - s[i] + t[i]
<1>1. PICK n \in Nat : n = Len(s) /\ i \in 1..n /\ n = Len(t)
  OBVIOUS
<1>2. PICK a, b : a = SubSeq(s, 1, i - 1) /\ b = SubSeq(s, i + 1, n)
  OBVIOUS
<1>3. a \in Seq(Int) /\ b \in Seq(Int) /\ Total(s) = Total(a) + s[i] + Total(b)
  BY <1>1, <1>2, TotalAround
<1>4. Total(t) = Total(SubSeq(t, 1, i - 1)) + t[i] + Total(SubSeq(t, i + 1, n))
  BY <1>1, TotalAround
<1>5. \A k \in 1..n : s[k] \in Int /\ t[k] \in Int
  BY <1>1
<1>6. \A k \in 1..n : k # i => t[k] = s[k]
  BY <1>1
<1>7. SubSeq(t, 1, i - 1) = a
  <2>1. \A k \in 1..(i - 1) : s[k] \in Int /\ t[k + 0] = s[k]
    <3>1. \A k \in 1..(i - 1) : k \in 1..n /\ k + 0 = k /\ k # i
      BY <1>1
    <3> QED BY <1>5, <1>6, <3>1
  <2>2. 1 \in Int /\ i - 1 \in Int /\ 0 \in Int /\ 1 + 0 = 1 /\ (i - 1) + 0 = i - 1
    BY <1>1
  <2>3. SubSeq(t, 1 + 0, (i - 1) + 0) = SubSeq(s, 1, i - 1)
    BY <2>1, <2>2, SameSubSeq
  <2> QED BY <1>2, <2>2, <2>3
<1>8. SubSeq(t, i + 1, n) = b
  <2>1. \A k \in (i + 1)..n : s[k] \in Int /\ t[k + 0] = s[k]
    <3>1. \A k \in (i + 1)..n : k \in 1..n /\ k + 0 = k /\ k # i
      BY <1>1
    <3> QED BY <1>5, <1>6, <3>1
  <2>2. i + 1 \in Int /\ n \in Int /\ 0 \in Int /\ (i + 1) + 0 = i + 1 /\ n + 0 = n
    BY <1>1
  <2>3. SubSeq(t, (i + 1) + 0, n + 0) = SubSeq(s, i + 1, n)
    BY <2>1, <2>2, SameSubSeq
  <2> QED BY <1>2, <2>2, <2>3
<1>9. PICK x, y, u, v \in Int : x = Total(a) /\ y = Total(b) /\ u = s[i] /\ v = t[i]
  BY <1>1, <1>3, <1>5, TotalIsInt
<1>10. Total(s) = x + u + y /\ Total(t) = x + v + y
  BY <1>3, <1>4, <1>7, <1>8, <1>9
<1>11. x + v + y = (x + u + y) - u + v
  OBVIOUS
<1> QED BY <1>9, <1>10, <1>11, Zenon

(* What was removed would make the sequence whole again.                    *)
LEMMA RemovalIsInsertion ==
  ASSUME NEW S, NEW s \in Seq(S), NEW i \in 1..Len(s), NEW r, IsRemoval(S, r, s, i)
  PROVE  i \in 1..(Len(r) + 1) /\ IsInsertion(S, s, r, i, s[i])
<1>1. PICK n \in Nat : n = Len(s) /\ i \in 1..n
  OBVIOUS
<1>2. /\ r \in Seq(S) /\ Len(r) = n - 1
      /\ \A k \in 1..(i - 1) : r[k] = s[k]
      /\ \A k \in i..(n - 1) : r[k] = s[k + 1]
  BY <1>1 DEF IsRemoval
<1>3. i \in 1..(Len(r) + 1) /\ Len(s) = Len(r) + 1
  BY <1>1, <1>2
<1> QED BY <1>1, <1>2, <1>3 DEF IsInsertion
-----------------------------------------------------------------------------
(* Sums over the items of a sequence.                                       *)
Images(f, s) == [k \in DOMAIN s |-> f[s[k]]]

SumOf(f, s) == Total(Images(f, s))

AreImages(T, g, f, s) ==
  g \in Seq(T) /\ Len(g) = Len(s) /\ \A k \in 1..Len(s) : g[k] = f[s[k]]

LEMMA ImageFacts ==
  ASSUME NEW S, NEW T, NEW f \in [S -> T], NEW s \in Seq(S)
  PROVE  AreImages(T, Images(f, s), f, s)
<1>1. PICK n \in Nat : n = Len(s) /\ DOMAIN s = 1..n /\ \A k \in 1..n : s[k] \in S
  OBVIOUS
<1>2. PICK g : g = Images(f, s)
  OBVIOUS
<1>3. g = [k \in 1..n |-> f[s[k]]]
  BY <1>1, <1>2 DEF Images
<1>4. g \in [1..n -> T]
  BY <1>1, <1>3
<1>5. g \in Seq(T) /\ Len(g) = n
  BY <1>4
<1> QED BY <1>1, <1>2, <1>3, <1>5 DEF AreImages

LEMMA SumIsInt ==
  ASSUME NEW S, NEW f \in [S -> Int], NEW s \in Seq(S)
  PROVE  SumOf(f, s) \in Int
<1>1. Images(f, s) \in Seq(Int)
  BY ImageFacts DEF AreImages
<1> QED BY <1>1, TotalIsInt DEF SumOf

LEMMA SumNotNegative ==
  ASSUME NEW S, NEW f \in [S -> Nat], NEW s \in Seq(S)
  PROVE  SumOf(f, s) \in Nat
<1>1. Images(f, s) \in Seq(Nat)
  BY ImageFacts DEF AreImages
<1> QED BY <1>1, TotalNotNegative DEF SumOf

GrowsBy(f, r, s, e) == SumOf(f, r) = SumOf(f, s) + f[e]

LEMMA SumInserted ==
  ASSUME NEW S, NEW f \in [S -> Int], NEW s \in Seq(S), NEW i \in 1..(Len(s) + 1),
         NEW e \in S, NEW r, IsInsertion(S, r, s, i, e)
  PROVE  GrowsBy(f, r, s, e)
<1>1. PICK n \in Nat : n = Len(s) /\ i \in 1..(n + 1)
  OBVIOUS
<1>2. /\ r \in Seq(S) /\ Len(r) = n + 1 /\ r[i] = e
      /\ \A k \in 1..(i - 1) : r[k] = s[k]
      /\ \A k \in i..n : r[k + 1] = s[k]
  BY <1>1 DEF IsInsertion
<1>3. PICK fs, fr : fs = Images(f, s) /\ fr = Images(f, r)
  OBVIOUS
<1>4. fs \in Seq(Int) /\ Len(fs) = n /\ \A k \in 1..n : fs[k] = f[s[k]]
  <2>1. s \in Seq(S)
    BY <1>1, <1>3
  <2>2. AreImages(Int, fs, f, s)
    BY <1>1, <1>3, <2>1, ImageFacts
  <2> QED BY <1>1, <1>3, <2>2 DEF AreImages
<1>5. fr \in Seq(Int) /\ Len(fr) = n + 1 /\ \A k \in 1..(n + 1) : fr[k] = f[r[k]]
  <2>1. r \in Seq(S)
    BY <1>2, <1>3
  <2>2. AreImages(Int, fr, f, r)
    BY <1>2, <1>3, <2>1, ImageFacts
  <2> QED BY <1>2, <1>3, <2>2 DEF AreImages
<1>6. fr[i] = f[e]
  BY <1>1, <1>2, <1>5
<1>7. ASSUME NEW k \in 1..(i - 1)
      PROVE  fr[k] = fs[k]
  <2>1. k \in 1..n /\ k \in 1..(n + 1)
    BY <1>1
  <2>2. fr[k] = f[r[k]] /\ fs[k] = f[s[k]]
    BY <1>4, <1>5, <2>1
  <2>3. r[k] = s[k]
    BY <1>2
  <2> QED BY <2>2, <2>3, Zenon
<1>8. ASSUME NEW k \in i..n
      PROVE  fr[k + 1] = fs[k]
  <2>1. k \in 1..n /\ k + 1 \in 1..(n + 1)
    BY <1>1
  <2>2. fr[k + 1] = f[r[k + 1]] /\ fs[k] = f[s[k]]
    BY <1>4, <1>5, <2>1
  <2>3. r[k + 1] = s[k]
    BY <1>2
  <2> QED BY <2>2, <2>3, Zenon
<1>9. IsInsertion(Int, fr, fs, i, f[e]) /\ f[e] \in Int /\ i \in 1..(Len(fs) + 1)
  BY <1>1, <1>4, <1>5, <1>6, <1>7, <1>8 DEF IsInsertion
<1> QED BY <1>3, <1>4, <1>9, TotalInserted DEF SumOf, GrowsBy

LEMMA SumRemoved ==
  ASSUME NEW S, NEW f \in [S -> Int], NEW s \in Seq(S), NEW i \in 1..Len(s),
         NEW r, IsRemoval(S, r, s, i)
  PROVE  SumOf(f, r) = SumOf(f, s) - f[s[i]]
<1>1. i \in 1..(Len(r) + 1) /\ IsInsertion(S, s, r, i, s[i])
  BY RemovalIsInsertion
<1>2. r \in Seq(S) /\ s[i] \in S
  BY DEF IsRemoval
<1>3. SumOf(f, s) = SumOf(f, r) + f[s[i]]
  <2>1. PICK e \in S : e = s[i]
    BY <1>2
  <2>2. i \in 1..(Len(r) + 1) /\ IsInsertion(S, s, r, i, e)
    BY <1>1, <2>1
  <2>3. GrowsBy(f, s, r, e)
    BY <1>2, <2>2, SumInserted
  <2> QED BY <2>1, <2>3, Zenon DEF GrowsBy
<1>4. SumOf(f, r) \in Int /\ f[s[i]] \in Int
  BY <1>2, SumIsInt
<1> QED BY <1>3, <1>4

DifferAt(t, s, i) == Len(t) = Len(s) /\ \A k \in 1..Len(s) : k # i => t[k] = s[k]

TotalDiffersAt(t, s, i) == Total(t) = Total(s) - s[i] + t[i]

LEMMA TotalDiffers ==
  ASSUME NEW s \in Seq(Int), NEW i \in 1..Len(s), NEW t \in Seq(Int), DifferAt(t, s, i)
  PROVE  TotalDiffersAt(t, s, i)
BY TotalUpdated, Zenon DEF DifferAt, TotalDiffersAt

SumDiffersAt(f, t, s, i) == SumOf(f, t) = SumOf(f, s) - f[s[i]] + f[t[i]]

LEMMA SumUpdated ==
  ASSUME NEW S, NEW f \in [S -> Int], NEW s \in Seq(S), NEW i \in 1..Len(s),
         NEW t \in Seq(S), DifferAt(t, s, i)
  PROVE  SumDiffersAt(f, t, s, i)
<1> Len(t) = Len(s) /\ \A k \in 1..Len(s) : k # i => t[k] = s[k]
  BY DEF DifferAt
<1>1. PICK n \in Nat : n = Len(s) /\ i \in 1..n /\ n = Len(t)
  OBVIOUS
<1>2. PICK fs, ft : fs = Images(f, s) /\ ft = Images(f, t)
  OBVIOUS
<1>3. fs \in Seq(Int) /\ Len(fs) = n /\ \A k \in 1..n : fs[k] = f[s[k]]
  <2>1. s \in Seq(S)
    BY <1>1, <1>2
  <2>2. AreImages(Int, fs, f, s)
    BY <1>1, <1>2, <2>1, ImageFacts
  <2> QED BY <1>1, <1>2, <2>2 DEF AreImages
<1>4. ft \in Seq(Int) /\ Len(ft) = n /\ \A k \in 1..n : ft[k] = f[t[k]]
  <2>1. t \in Seq(S)
    BY <1>1, <1>2
  <2>2. AreImages(Int, ft, f, t)
    BY <1>1, <1>2, <2>1, ImageFacts
  <2> QED BY <1>1, <1>2, <2>2 DEF AreImages
<1>5. \A k \in 1..n : k # i => ft[k] = fs[k]
  <2> TAKE k \in 1..n
  <2> HAVE k # i
  <2>1. ft[k] = f[t[k]] /\ fs[k] = f[s[k]]
    BY <1>3, <1>4
  <2>2. t[k] = s[k]
    BY <1>1
  <2> QED BY <2>1, <2>2, Zenon
<1>6. Total(ft) = Total(fs) - fs[i] + ft[i]
  BY <1>1, <1>3, <1>4, <1>5, TotalUpdated
<1> QED BY <1>1, <1>2, <1>3, <1>4, <1>6 DEF SumOf, SumDiffersAt
-----------------------------------------------------------------------------
(* A stretch of a sequence of numbers that gives way to another.            *)
RestLength(s, j) == IF j <= Len(s) THEN Len(s) - j ELSE 0

IsRest(r, s, j) ==
  /\ r \in Seq(Int) /\ Len(r) = RestLength(s, j)
  /\ \A k \in 1..RestLength(s, j) : r[k] = s[j + k]

IsSplice(r, s, i, w, j) ==
  /\ r \in Seq(Int) /\ Len(r) = (i - 1) + Len(w) + RestLength(s, j)
  /\ \A k \in 1..(i - 1) : r[k] = s[k]
  /\ \A k \in 1..Len(w) : r[(i - 1) + k] = w[k]
  /\ \A k \in 1..RestLength(s, j) : r[(i - 1) + Len(w) + k] = s[j + k]

LEMMA RestFacts ==
  ASSUME NEW s \in Seq(Int), NEW j \in Nat
  PROVE  IsRest(SubSeq(s, j + 1, Len(s)), s, j)
<1>1. PICK n \in Nat : n = Len(s)
  OBVIOUS
<1>2. PICK r : r = SubSeq(s, j + 1, n)
  OBVIOUS
<1>3. j + 1 \in Int /\ n \in Int
  OBVIOUS
<1>4. \A k \in (j + 1)..n : s[k] \in Int
  <2>1. \A k \in 1..n : s[k] \in Int
    BY <1>1
  <2> QED BY <2>1
<1>5. /\ r \in Seq(Int) /\ Len(r) = (IF j + 1 <= n THEN n - (j + 1) + 1 ELSE 0)
      /\ \A k \in 1..(n - (j + 1) + 1) : r[k] = s[(j + 1) + k - 1]
  BY <1>2, <1>3, <1>4, SubSeqProperties
<1>6. PICK l \in Nat : l = RestLength(s, j) /\ l = (IF j <= n THEN n - j ELSE 0)
  <2>1. (IF j <= n THEN n - j ELSE 0) \in Nat
    OBVIOUS
  <2> QED BY <1>1, <2>1 DEF RestLength
<1>7. Len(r) = l
  <2>1. l = (IF j + 1 <= n THEN n - (j + 1) + 1 ELSE 0)
    BY <1>6
  <2> QED BY <1>5, <2>1
<1>8. ASSUME NEW k \in 1..l
      PROVE  r[k] = s[j + k]
  <2>1. k \in 1..(n - (j + 1) + 1) /\ (j + 1) + k - 1 = j + k
    BY <1>6
  <2> QED BY <1>5, <2>1
<1> QED BY <1>1, <1>2, <1>5, <1>6, <1>7, <1>8 DEF IsRest

LEMMA SpliceFacts ==
  ASSUME NEW s \in Seq(Int), NEW i \in 1..(Len(s) + 1), NEW j \in Nat, NEW w \in Seq(Int)
  PROVE  /\ IsSplice(SubSeq(s, 1, i - 1) \o w \o SubSeq(s, j + 1, Len(s)), s, i, w, j)
         /\ Total(SubSeq(s, 1, i - 1) \o w \o SubSeq(s, j + 1, Len(s)))
              = Total(SubSeq(s, 1, i - 1)) + Total(w) + Total(SubSeq(s, j + 1, Len(s)))
<1>1. PICK n \in Nat : n = Len(s) /\ i \in 1..(n + 1)
  OBVIOUS
<1>2. PICK h \in Nat : h = i - 1
  BY <1>1
<1>3. PICK a, c : a = SubSeq(s, 1, h) /\ c = SubSeq(s, j + 1, n)
  OBVIOUS
<1>4. a \in Seq(Int) /\ Len(a) = h /\ \A k \in 1..h : a[k] = s[k]
  <2>1. h \in 0..n
    BY <1>1, <1>2
  <2> QED BY <1>1, <1>3, <2>1, PartFacts
<1>5. PICK l \in Nat : l = RestLength(s, j)
  <2>1. (IF j <= n THEN n - j ELSE 0) \in Nat
    OBVIOUS
  <2> QED BY <1>1, <2>1 DEF RestLength
<1>6. c \in Seq(Int) /\ Len(c) = l /\ \A k \in 1..l : c[k] = s[j + k]
  <2>1. IsRest(c, s, j)
    BY <1>1, <1>3, RestFacts
  <2> QED BY <1>5, <2>1 DEF IsRest
<1>7. PICK m \in Nat : m = Len(w)
  OBVIOUS
<1>8. PICK aw : aw = a \o w
  OBVIOUS
<1>9. /\ aw \in Seq(Int) /\ Len(aw) = h + m
      /\ \A k \in 1..h : aw[k] = a[k]
      /\ \A k \in 1..m : aw[h + k] = w[k]
  <2>1. IsJoined(Int, a \o w, a, w)
    BY <1>4, JoinFacts
  <2> QED BY <1>4, <1>7, <1>8, <2>1 DEF IsJoined
<1>10. PICK r : r = aw \o c
  OBVIOUS
<1>11. /\ r \in Seq(Int) /\ Len(r) = (h + m) + l
       /\ \A k \in 1..(h + m) : r[k] = aw[k]
       /\ \A k \in 1..l : r[(h + m) + k] = c[k]
  <2>1. IsJoined(Int, aw \o c, aw, c)
    BY <1>6, <1>9, JoinFacts
  <2> QED BY <1>6, <1>9, <1>10, <2>1 DEF IsJoined
<1>12. ASSUME NEW k \in 1..h
       PROVE  r[k] = s[k]
  <2>1. k \in 1..(h + m)
    OBVIOUS
  <2> QED BY <1>4, <1>9, <1>11, <2>1
<1>13. ASSUME NEW k \in 1..m
       PROVE  r[h + k] = w[k]
  <2>1. h + k \in 1..(h + m)
    OBVIOUS
  <2> QED BY <1>9, <1>11, <2>1
<1>14. \A k \in 1..l : r[h + m + k] = s[j + k]
  BY <1>6, <1>11
<1>15. IsSplice(r, s, i, w, j)
  BY <1>2, <1>5, <1>7, <1>11, <1>12, <1>13, <1>14 DEF IsSplice
<1>16. Total(r) = Total(a) + Total(w) + Total(c)
  <2>1. Total(r) = Total(aw) + Total(c)
    BY <1>6, <1>9, <1>10, TotalOfBoth
  <2>2. Total(aw) = Total(a) + Total(w)
    BY <1>4, <1>8, TotalOfBoth
  <2> QED BY <2>1, <2>2
<1> QED BY <1>1, <1>2, <1>3, <1>8, <1>10, <1>15, <1>16

(* What a total loses with one item, if there is such an item, or with two. *)
ItemAt(s, i) == IF i \in 1..Len(s) THEN s[i] ELSE 0

LEMMA TotalBeyond ==
  ASSUME NEW s \in Seq(Int), NEW j \in Nat
  PROVE  /\ Total(SubSeq(s, j + 1, Len(s))) \in Int
         /\ Total(SubSeq(s, j + 1, Len(s)))
              = ItemAt(s, j + 1) + Total(SubSeq(s, (j + 1) + 1, Len(s)))
<1>1. PICK n \in Nat : n = Len(s)
  OBVIOUS
<1>2. PICK a, b, c : /\ a = SubSeq(s, 1, j) /\ b = SubSeq(s, j + 1, n)
                     /\ c = SubSeq(s, (j + 1) + 1, n)
  OBVIOUS
<1>3. b \in Seq(Int) /\ c \in Seq(Int)
  <2>1. IsRest(b, s, j)
    BY <1>1, <1>2, RestFacts
  <2>2. IsRest(c, s, j + 1)
    BY <1>1, <1>2, RestFacts
  <2> QED BY <2>1, <2>2 DEF IsRest
<1>4. Total(b) \in Int /\ Total(c) \in Int
  BY <1>3, TotalIsInt
<1>5. Total(b) = ItemAt(s, j + 1) + Total(c)
  <2>1. CASE j < n
    <3>1. j \in 0..n /\ j + 1 \in 1..n /\ (j + 1) - 1 = j
      BY <2>1
    <3>2. Total(s) = Total(a) + Total(b)
      BY <1>1, <1>2, <3>1, SplitTotal
    <3>3. Total(s) = Total(SubSeq(s, 1, (j + 1) - 1)) + s[j + 1] + Total(c)
      BY <1>1, <1>2, <3>1, TotalAround
    <3>4. Total(s) = Total(a) + s[j + 1] + Total(c)
      BY <1>2, <3>1, <3>3
    <3>5. a \in Seq(Int)
      BY <1>1, <1>2, <3>1, PartFacts
    <3>6. PICK x, y, z, v \in Int : x = Total(a) /\ y = Total(b) /\ z = Total(c) /\ v = s[j + 1]
      BY <1>1, <1>4, <3>1, <3>5, TotalIsInt
    <3>7. x + y = x + v + z
      BY <3>2, <3>4, <3>6
    <3>8. y = v + z
      BY <3>7
    <3>9. ItemAt(s, j + 1) = v
      BY <1>1, <3>1, <3>6 DEF ItemAt
    <3> QED BY <3>6, <3>8, <3>9
  <2>2. CASE ~(j < n)
    <3>1. n \in Int /\ j + 1 \in Int /\ (j + 1) + 1 \in Int /\ n < j + 1 /\ n < (j + 1) + 1
          /\ j + 1 \notin 1..n
      BY <2>2
    <3>2. b = << >> /\ c = << >>
      BY <1>2, <3>1, SubSeqEmpty
    <3>3. Total(b) = 0 /\ Total(c) = 0
      BY <3>2, TotalOfNone
    <3> QED BY <1>1, <3>1, <3>3 DEF ItemAt
  <2> QED BY <2>1, <2>2
<1> QED BY <1>1, <1>2, <1>4, <1>5
-----------------------------------------------------------------------------
(* The legs of a route, place by place.                                     *)
IsRobot(b, P) ==
  /\ b.start \in P /\ b.home \in P \cup {NoHome} /\ NoHome \notin P
  /\ \A x, y \in P : Leg(b, x, y) \in Int

Stops(P, T) == [location : P, tasks : Seq(T), service : Int, tolerance : Int]

LegCount(b, s) == IF b.home = NoHome \/ Len(s) = 0 THEN Len(s) ELSE Len(s) + 1

PlaceAt(b, s, k) == IF k <= Len(s) THEN s[k].location ELSE b.home

AreLegs(b, s, L) ==
  /\ L \in Seq(Int) /\ Len(L) = LegCount(b, s)
  /\ \A k \in 1..LegCount(b, s) : L[k] = Leg(b, PlaceBefore(b, s, k), PlaceAt(b, s, k))

LEMMA PlacesFit ==
  ASSUME NEW P, NEW T, NEW b, IsRobot(b, P), NEW s \in Seq(Stops(P, T))
  PROVE  /\ \A k \in 1..(Len(s) + 1) : PlaceBefore(b, s, k) \in P
         /\ \A k \in 1..LegCount(b, s) : PlaceAt(b, s, k) \in P
         /\ LegCount(b, s) \in Nat
<1>1. PICK n \in Nat : n = Len(s)
  OBVIOUS
<1>2. \A k \in 1..n : s[k].location \in P
  <2> TAKE k \in 1..n
  <2>1. s[k] \in Stops(P, T)
    BY <1>1
  <2> QED BY <2>1 DEF Stops
<1>3. ASSUME NEW k \in 1..(n + 1)
      PROVE  PlaceBefore(b, s, k) \in P
  <2>1. CASE k = 1
    BY <2>1 DEF PlaceBefore, IsRobot
  <2>2. CASE k # 1
    <3>1. k - 1 \in 1..n
      BY <2>2
    <3> QED BY <1>2, <2>2, <3>1 DEF PlaceBefore
  <2> QED BY <2>1, <2>2
<1>4. ASSUME NEW k \in 1..LegCount(b, s)
      PROVE  PlaceAt(b, s, k) \in P
  <2>1. CASE k <= n
    <3>1. k \in 1..n
      BY <1>1, <2>1 DEF LegCount
    <3> QED BY <1>1, <1>2, <2>1, <3>1 DEF PlaceAt
  <2>2. CASE ~(k <= n)
    <3>1. b.home # NoHome
      BY <1>1, <2>2 DEF LegCount
    <3> QED BY <1>1, <2>2, <3>1 DEF PlaceAt, IsRobot
  <2> QED BY <2>1, <2>2
<1>5. LegCount(b, s) \in Nat
  BY <1>1 DEF LegCount
<1> QED BY <1>1, <1>3, <1>4, <1>5

LEMMA LegsFacts ==
  ASSUME NEW P, NEW T, NEW b, IsRobot(b, P), NEW s \in Seq(Stops(P, T))
  PROVE  AreLegs(b, s, LegsOf(b, s))
<1>1. PICK n \in Nat : n = Len(s) /\ DOMAIN s = 1..n
  OBVIOUS
<1>2. PICK c \in Nat : c = LegCount(b, s)
  BY PlacesFit
<1>3. \A k \in 1..c : Leg(b, PlaceBefore(b, s, k), PlaceAt(b, s, k)) \in Int
  <2> TAKE k \in 1..c
  <2>1. k \in 1..(n + 1)
    BY <1>1, <1>2 DEF LegCount
  <2>2. PlaceBefore(b, s, k) \in P /\ PlaceAt(b, s, k) \in P
    BY <1>1, <1>2, <2>1, PlacesFit
  <2> QED BY <2>2 DEF IsRobot
<1>4. PICK g : g = [k \in DOMAIN s |-> Leg(b, PlaceBefore(b, s, k), s[k].location)]
  OBVIOUS
<1>5. \A k \in 1..n : /\ g[k] = Leg(b, PlaceBefore(b, s, k), PlaceAt(b, s, k))
                      /\ k \in 1..c
  BY <1>1, <1>2, <1>4 DEF PlaceAt, LegCount
<1>6. g \in Seq(Int) /\ Len(g) = n
  <2>1. g \in [1..n -> Int]
    BY <1>1, <1>3, <1>4, <1>5
  <2> QED BY <2>1
<1>7. PICK e : e = (IF b.home # NoHome /\ s # <<>>
                    THEN << Leg(b, Last(s).location, b.home) >> ELSE <<>>)
  OBVIOUS
<1>8. LegsOf(b, s) = g \o e
  BY <1>4, <1>7, Zenon DEF LegsOf
<1>9. CASE b.home # NoHome /\ s # <<>>
  <2>1. n # 0 /\ c = n + 1 /\ n + 1 \in 1..c /\ n + 1 # 1 /\ (n + 1) - 1 = n /\ ~(n + 1 <= n)
    BY <1>1, <1>2, <1>9 DEF LegCount
  <2>2. PlaceBefore(b, s, n + 1) = s[n].location /\ PlaceAt(b, s, n + 1) = b.home
    BY <1>1, <2>1 DEF PlaceBefore, PlaceAt
  <2>3. PICK x \in Int : x = Leg(b, PlaceBefore(b, s, n + 1), PlaceAt(b, s, n + 1))
    BY <1>3, <2>1
  <2>4. e = << x >>
    BY <1>1, <1>7, <1>9, <2>2, <2>3 DEF Last
  <2>5. e \in Seq(Int) /\ Len(e) = 1 /\ e[1] = x
    BY <2>4
  <2>6. IsJoined(Int, g \o e, g, e)
    BY <1>6, <2>5, JoinFacts
  <2>7. /\ LegsOf(b, s) \in Seq(Int) /\ Len(LegsOf(b, s)) = c
        /\ \A k \in 1..n : LegsOf(b, s)[k] = g[k]
        /\ LegsOf(b, s)[n + 1] = x
    <3>1. 1 \in 1..1
      OBVIOUS
    <3> QED BY <1>6, <1>8, <2>1, <2>5, <2>6, <3>1 DEF IsJoined
  <2>8. \A k \in 1..c : k \in 1..n \/ k = n + 1
    BY <2>1
  <2> QED BY <1>2, <1>5, <2>3, <2>7, <2>8 DEF AreLegs
<1>10. CASE ~(b.home # NoHome /\ s # <<>>)
  <2>1. c = n
    <3>1. s = <<>> => n = 0
      BY <1>1
    <3> QED BY <1>1, <1>2, <1>10, <3>1 DEF LegCount
  <2>2. e = <<>>
    BY <1>7, <1>10
  <2>3. LegsOf(b, s) = g
    BY <1>6, <1>8, <2>2, ConcatEmptySeq
  <2> QED BY <1>2, <1>5, <1>6, <2>1, <2>3 DEF AreLegs
<1> QED BY <1>9, <1>10

LEMMA LegsUnique ==
  ASSUME NEW P, NEW T, NEW b, IsRobot(b, P), NEW s \in Seq(Stops(P, T)),
         NEW L, AreLegs(b, s, L)
  PROVE  L = LegsOf(b, s)
<1>1. PICK M : M = LegsOf(b, s)
  OBVIOUS
<1>2. AreLegs(b, s, M)
  BY <1>1, LegsFacts
<1>3. /\ L \in Seq(Int) /\ M \in Seq(Int) /\ Len(L) = Len(M)
      /\ \A k \in 1..Len(L) : L[k] = M[k]
  BY <1>2 DEF AreLegs
<1>4. L = M
  BY <1>3, SeqEqual
<1> QED BY <1>1, <1>4

(* A stop more or less: where its legs begin and end.                       *)
ArePlacesWith(b, s2, s, i, e) ==
  /\ \A k \in 1..i : PlaceBefore(b, s2, k) = PlaceBefore(b, s, k)
  /\ PlaceBefore(b, s2, i + 1) = e.location
  /\ \A k \in (i + 1)..(Len(s) + 1) : PlaceBefore(b, s2, k + 1) = PlaceBefore(b, s, k)
  /\ \A k \in 1..(i - 1) : PlaceAt(b, s2, k) = PlaceAt(b, s, k)
  /\ PlaceAt(b, s2, i) = e.location
  /\ \A k \in i..(Len(s) + 1) : PlaceAt(b, s2, k + 1) = PlaceAt(b, s, k)

LEMMA PlacesWith ==
  ASSUME NEW S, NEW b, NEW s \in Seq(S), NEW i \in 1..(Len(s) + 1), NEW e,
         NEW s2, IsInsertion(S, s2, s, i, e)
  PROVE  ArePlacesWith(b, s2, s, i, e)
<1>1. PICK n \in Nat : n = Len(s)
  OBVIOUS
<1>2. /\ Len(s2) = n + 1 /\ s2[i] = e /\ i \in 1..(n + 1)
      /\ \A k \in 1..(i - 1) : s2[k] = s[k]
      /\ \A k \in i..n : s2[k + 1] = s[k]
  BY <1>1 DEF IsInsertion
<1>3. \A k \in 1..i : PlaceBefore(b, s2, k) = PlaceBefore(b, s, k)
  <2> TAKE k \in 1..i
  <2>1. CASE k = 1
    BY <2>1 DEF PlaceBefore
  <2>2. CASE k # 1
    <3>1. k - 1 \in 1..(i - 1)
      BY <2>2
    <3> QED BY <1>2, <2>2, <3>1 DEF PlaceBefore
  <2> QED BY <2>1, <2>2
<1>4. PlaceBefore(b, s2, i + 1) = e.location
  <2>1. i + 1 # 1 /\ (i + 1) - 1 = i
    BY <1>2
  <2> QED BY <1>2, <2>1 DEF PlaceBefore
<1>5. \A k \in (i + 1)..(n + 1) : PlaceBefore(b, s2, k + 1) = PlaceBefore(b, s, k)
  <2> TAKE k \in (i + 1)..(n + 1)
  <2>1. k # 1 /\ k + 1 # 1 /\ k - 1 \in i..n /\ (k - 1) + 1 = k /\ (k + 1) - 1 = k
    BY <1>2
  <2>2. s2[(k - 1) + 1] = s[k - 1]
    BY <1>2, <2>1
  <2>3. s2[(k + 1) - 1] = s[k - 1]
    BY <2>1, <2>2
  <2> QED BY <2>1, <2>3 DEF PlaceBefore
<1>6. \A k \in 1..(i - 1) : PlaceAt(b, s2, k) = PlaceAt(b, s, k)
  <2> TAKE k \in 1..(i - 1)
  <2>1. k <= n /\ k <= n + 1
    BY <1>2
  <2> QED BY <1>1, <1>2, <2>1 DEF PlaceAt
<1>7. PlaceAt(b, s2, i) = e.location
  BY <1>2 DEF PlaceAt
<1>8. \A k \in i..(n + 1) : PlaceAt(b, s2, k + 1) = PlaceAt(b, s, k)
  <2> TAKE k \in i..(n + 1)
  <2>1. k + 1 <= n + 1 <=> k <= n
    BY <1>2
  <2>2. CASE k <= n
    <3>1. k \in i..n
      BY <1>2, <2>2
    <3> QED BY <1>1, <1>2, <2>1, <2>2, <3>1 DEF PlaceAt
  <2>3. CASE ~(k <= n)
    BY <1>1, <1>2, <2>1, <2>3 DEF PlaceAt
  <2> QED BY <2>2, <2>3
<1> QED BY <1>1, <1>3, <1>4, <1>5, <1>6, <1>7, <1>8 DEF ArePlacesWith

(* The legs that take the place of one when a stop comes in.                *)
Around(b, s, i, e) ==
  << Leg(b, PlaceBefore(b, s, i), e.location) >>
    \o IF i = Len(s) + 1 /\ b.home = NoHome THEN <<>>
       ELSE << Leg(b, e.location, PlaceAt(b, s, i)) >>

LEMMA AroundLegs ==
  ASSUME NEW P, NEW T, NEW b, IsRobot(b, P), NEW s \in Seq(Stops(P, T)),
         NEW i \in 1..(Len(s) + 1), NEW e \in Stops(P, T)
  PROVE  /\ Around(b, s, i, e) \in Seq(Int)
         /\ Around(b, s, i, e)[1] = Leg(b, PlaceBefore(b, s, i), e.location)
         /\ IF i = Len(s) + 1 /\ b.home = NoHome THEN Len(Around(b, s, i, e)) = 1
            ELSE /\ Len(Around(b, s, i, e)) = 2
                 /\ Around(b, s, i, e)[2] = Leg(b, e.location, PlaceAt(b, s, i))
<1>1. PICK n \in Nat : n = Len(s)
  OBVIOUS
<1>2. e.location \in P /\ PlaceBefore(b, s, i) \in P
  BY PlacesFit DEF Stops
<1>3. PICK x \in Int : x = Leg(b, PlaceBefore(b, s, i), e.location)
  BY <1>2 DEF IsRobot
<1>4. CASE i = Len(s) + 1 /\ b.home = NoHome
  <2>1. Around(b, s, i, e) = << x >>
    <3>1. << x >> \in Seq(Int)
      OBVIOUS
    <3>2. << x >> \o << >> = << x >>
      BY <3>1, ConcatEmptySeq
    <3> QED BY <1>1, <1>3, <1>4, <3>2 DEF Around
  <2>2. << x >> \in Seq(Int) /\ Len(<< x >>) = 1 /\ << x >>[1] = x
    OBVIOUS
  <2>3. PICK a : a = Around(b, s, i, e)
    OBVIOUS
  <2>4. a \in Seq(Int) /\ Len(a) = 1 /\ a[1] = x
    BY <2>1, <2>2, <2>3
  <2> QED BY <1>3, <1>4, <2>3, <2>4
<1>5. CASE ~(i = Len(s) + 1 /\ b.home = NoHome)
  <2>1. PlaceAt(b, s, i) \in P
    <3>1. CASE i <= n
      <4>1. s[i] \in Stops(P, T)
        BY <1>1, <3>1
      <4> QED BY <1>1, <3>1, <4>1 DEF PlaceAt, Stops
    <3>2. CASE ~(i <= n)
      <4>1. i = n + 1
        BY <1>1, <3>2
      <4> QED BY <1>1, <1>5, <3>2, <4>1 DEF PlaceAt, IsRobot
    <3> QED BY <3>1, <3>2
  <2>2. PICK y \in Int : y = Leg(b, e.location, PlaceAt(b, s, i))
    BY <1>2, <2>1 DEF IsRobot
  <2>3. Around(b, s, i, e) = << x >> \o << y >>
    <3>1. Around(b, s, i, e) = << Leg(b, PlaceBefore(b, s, i), e.location) >>
                                  \o << Leg(b, e.location, PlaceAt(b, s, i)) >>
      BY <1>5, Zenon DEF Around
    <3> QED BY <1>3, <2>2, <3>1, Zenon
  <2>4. << x >> \o << y >> = << x, y >>
    <3>1. /\ << x >> \in Seq(Int) /\ << y >> \in Seq(Int) /\ << x, y >> \in Seq(Int)
          /\ Len(<< x >>) = 1 /\ Len(<< y >>) = 1 /\ Len(<< x, y >>) = 2
          /\ << x >>[1] = x /\ << y >>[1] = y /\ << x, y >>[1] = x /\ << x, y >>[2] = y
      OBVIOUS
    <3>2. IsJoined(Int, << x >> \o << y >>, << x >>, << y >>)
      BY <3>1, JoinFacts
    <3>3. PICK z : z = << x >> \o << y >>
      OBVIOUS
    <3>4. z \in Seq(Int) /\ Len(z) = 2 /\ z[1] = x /\ z[2] = y
      <4>1. 1 \in 1..1 /\ 1 + 1 = 2
        OBVIOUS
      <4> QED BY <3>1, <3>2, <3>3, <4>1 DEF IsJoined
    <3>5. \A k \in 1..2 : z[k] = << x, y >>[k]
      <4>1. \A k \in 1..2 : k = 1 \/ k = 2
        OBVIOUS
      <4> QED BY <3>1, <3>4, <4>1
    <3> QED BY <3>1, <3>3, <3>4, <3>5, SeqEqual
  <2>5. << x, y >> \in Seq(Int) /\ Len(<< x, y >>) = 2 /\ << x, y >>[1] = x /\ << x, y >>[2] = y
    OBVIOUS
  <2> QED BY <1>1, <1>3, <1>5, <2>2, <2>3, <2>4, <2>5, Zenon
<1> QED BY <1>1, <1>4, <1>5

(* The same where one stop is the last of a robot that stays there, and     *)
(* where the robot goes on.                                                 *)
EndsThere(b, s, i) == i = Len(s) + 1 /\ b.home = NoHome

LegsAround(b, s, i, e, w) ==
  /\ w \in Seq(Int) /\ w[1] = Leg(b, PlaceBefore(b, s, i), e.location)
  /\ EndsThere(b, s, i) => Len(w) = 1
  /\ ~EndsThere(b, s, i) => Len(w) = 2 /\ w[2] = Leg(b, e.location, PlaceAt(b, s, i))

LEMMA AroundFacts ==
  ASSUME NEW P, NEW T, NEW b, IsRobot(b, P), NEW s \in Seq(Stops(P, T)),
         NEW i \in 1..(Len(s) + 1), NEW e \in Stops(P, T)
  PROVE  LegsAround(b, s, i, e, Around(b, s, i, e))
<1>1. PICK w : w = Around(b, s, i, e)
  OBVIOUS
<1>2. /\ w \in Seq(Int) /\ w[1] = Leg(b, PlaceBefore(b, s, i), e.location)
      /\ IF i = Len(s) + 1 /\ b.home = NoHome THEN Len(w) = 1
         ELSE /\ Len(w) = 2
              /\ w[2] = Leg(b, e.location, PlaceAt(b, s, i))
  BY <1>1, AroundLegs, SMTT(20)
<1> QED BY <1>1, <1>2, Zenon DEF LegsAround, EndsThere


LEMMA LegsInserted ==
  ASSUME NEW P, NEW T, NEW b, IsRobot(b, P), NEW s \in Seq(Stops(P, T)),
         NEW i \in 1..(Len(s) + 1), NEW e \in Stops(P, T),
         NEW s2, IsInsertion(Stops(P, T), s2, s, i, e),
         NEW L, AreLegs(b, s, L), NEW M, IsSplice(M, L, i, Around(b, s, i, e), i)
  PROVE  AreLegs(b, s2, M)
<1>1. PICK n \in Nat : n = Len(s)
  OBVIOUS
<1>2. i \in 1..(n + 1) /\ Len(s2) = n + 1
  BY <1>1 DEF IsInsertion
<1>3. PICK c \in Nat : c = LegCount(b, s)
  BY PlacesFit
<1>4. /\ c = (IF b.home = NoHome \/ n = 0 THEN n ELSE n + 1)
      /\ LegCount(b, s2) = (IF b.home = NoHome THEN n + 1 ELSE n + 2)
  <2>1. n + 1 # 0 /\ (n + 1) + 1 = n + 2
    OBVIOUS
  <2> QED BY <1>1, <1>2, <1>3, <2>1 DEF LegCount
<1>5. L \in Seq(Int) /\ Len(L) = c
      /\ \A k \in 1..c : L[k] = Leg(b, PlaceBefore(b, s, k), PlaceAt(b, s, k))
  BY <1>3 DEF AreLegs
<1>6. PICK w \in Seq(Int) : w = Around(b, s, i, e) /\ LegsAround(b, s, i, e, w)
  <2>1. LegsAround(b, s, i, e, Around(b, s, i, e))
    BY AroundFacts
  <2> QED BY <2>1 DEF LegsAround
<1>7. w[1] = Leg(b, PlaceBefore(b, s, i), e.location)
  BY <1>6, Zenon DEF LegsAround
<1>8. /\ M \in Seq(Int) /\ Len(M) = (i - 1) + Len(w) + RestLength(L, i)
      /\ \A k \in 1..(i - 1) : M[k] = L[k]
      /\ \A k \in 1..Len(w) : M[(i - 1) + k] = w[k]
      /\ \A k \in 1..RestLength(L, i) : M[(i - 1) + Len(w) + k] = L[i + k]
  BY <1>6 DEF IsSplice
<1>9. RestLength(L, i) = IF i <= c THEN c - i ELSE 0
  BY <1>5 DEF RestLength
<1>10. /\ \A k \in 1..i : PlaceBefore(b, s2, k) = PlaceBefore(b, s, k)
       /\ PlaceBefore(b, s2, i + 1) = e.location
       /\ \A k \in (i + 1)..(n + 1) : PlaceBefore(b, s2, k + 1) = PlaceBefore(b, s, k)
       /\ \A k \in 1..(i - 1) : PlaceAt(b, s2, k) = PlaceAt(b, s, k)
       /\ PlaceAt(b, s2, i) = e.location
       /\ \A k \in i..(n + 1) : PlaceAt(b, s2, k + 1) = PlaceAt(b, s, k)
  <2>1. ArePlacesWith(b, s2, s, i, e)
    BY PlacesWith
  <2> QED BY <1>1, <2>1 DEF ArePlacesWith
<1> DEFINE IsLeg(k) == M[k] = Leg(b, PlaceBefore(b, s2, k), PlaceAt(b, s2, k))
<1>11. ASSUME NEW k \in 1..(i - 1)
       PROVE  IsLeg(k)
  <2>1. k \in 1..c /\ k \in 1..i
    BY <1>2, <1>4
  <2> QED BY <1>5, <1>8, <1>10, <2>1
<1>12. 1 \in 1..Len(w) => IsLeg(i)
  <2>1. i \in 1..i /\ (i - 1) + 1 = i
    BY <1>2
  <2> QED BY <1>7, <1>8, <1>10, <2>1
<1>13. CASE i = n + 1 /\ b.home = NoHome
  <2>1. Len(w) = 1
    BY <1>1, <1>6, <1>13, Zenon DEF LegsAround, EndsThere
  <2>2. c = n /\ RestLength(L, i) = 0 /\ Len(M) = n + 1 /\ LegCount(b, s2) = n + 1
    BY <1>2, <1>4, <1>8, <1>9, <1>13, <2>1
  <2>3. \A k \in 1..(n + 1) : k \in 1..(i - 1) \/ k = i
    BY <1>13
  <2>4. \A k \in 1..(n + 1) : IsLeg(k)
    <3>1. 1 \in 1..Len(w)
      BY <2>1
    <3> HIDE DEF IsLeg
    <3> QED BY <1>11, <1>12, <2>3, <3>1
  <2> QED BY <1>8, <2>2, <2>4 DEF AreLegs
<1>14. CASE ~(i = n + 1 /\ b.home = NoHome)
  <2>1. Len(w) = 2 /\ w[2] = Leg(b, e.location, PlaceAt(b, s, i))
    BY <1>1, <1>6, <1>14, Zenon DEF LegsAround, EndsThere
  <2>2. PICK d \in Nat : d = LegCount(b, s2)
    BY <1>4
  <2>3. RestLength(L, i) = d - (i + 1) /\ Len(M) = d /\ d >= i + 1
        /\ (d > i + 1 => d = c + 1)
    <3>1. PICK rest \in Int : rest = RestLength(L, i) /\ rest = IF i <= c THEN c - i ELSE 0
      <4>1. i \in Int /\ c \in Int
        BY <1>2
      <4>2. (IF i <= c THEN c - i ELSE 0) \in Int
        BY <4>1
      <4>3. RestLength(L, i) \in Int
        BY <1>9, <4>2, Zenon
      <4> QED BY <1>9, <4>3, Zenon
    <3>2. rest = d - (i + 1) /\ d >= i + 1 /\ (d > i + 1 => d = c + 1)
      <4>1. CASE b.home = NoHome
        BY <1>2, <1>4, <1>14, <2>2, <3>1, <4>1
      <4>2. CASE b.home # NoHome
        BY <1>2, <1>4, <2>2, <3>1, <4>2
      <4> QED BY <4>1, <4>2
    <3>3. Len(M) = (i - 1) + 2 + rest
      BY <1>8, <2>1, <3>1
    <3> QED BY <1>2, <3>1, <3>2, <3>3
  <2>4. IsLeg(i + 1)
    <3>1. i \in i..(n + 1) /\ (i - 1) + 2 = i + 1 /\ 2 \in 1..Len(w)
      BY <1>2, <2>1
    <3>2. M[i + 1] = w[2]
      BY <1>8, <3>1
    <3>3. PlaceAt(b, s2, i + 1) = PlaceAt(b, s, i)
      BY <1>10, <3>1
    <3> QED BY <1>10, <2>1, <3>2, <3>3
  <2>5. ASSUME NEW k \in (i + 2)..d
        PROVE  IsLeg(k)
    <3>1. PICK j \in Int : j = k - 1
      OBVIOUS
    <3>2. /\ k = j + 1 /\ j \in (i + 1)..(n + 1) /\ j \in i..(n + 1) /\ j \in 1..c
          /\ j - i \in 1..RestLength(L, i) /\ (i - 1) + 2 + (j - i) = j + 1 /\ i + (j - i) = j
      BY <1>2, <1>4, <2>2, <2>3, <3>1
    <3>3. M[j + 1] = L[j]
      BY <1>8, <2>1, <3>2
    <3>4. L[j] = Leg(b, PlaceBefore(b, s, j), PlaceAt(b, s, j))
      BY <1>5, <3>2
    <3>5. PlaceBefore(b, s2, j + 1) = PlaceBefore(b, s, j) /\ PlaceAt(b, s2, j + 1) = PlaceAt(b, s, j)
      BY <1>10, <3>2
    <3> QED BY <3>2, <3>3, <3>4, <3>5
  <2>6. \A k \in 1..d : k \in 1..(i - 1) \/ k = i \/ k = i + 1 \/ k \in (i + 2)..d
    BY <1>2
  <2>7. \A k \in 1..d : IsLeg(k)
    <3>1. 1 \in 1..Len(w)
      BY <2>1
    <3> HIDE DEF IsLeg
    <3> QED BY <1>11, <1>12, <2>4, <2>5, <2>6, <3>1
  <2> QED BY <1>8, <2>2, <2>3, <2>7 DEF AreLegs
<1> QED BY <1>13, <1>14
-----------------------------------------------------------------------------
(* Routes that are what their stops amount to.                              *)
ServiceIn(P, T) == [x \in Stops(P, T) |-> x.service]

Amounts(P, T, s, L) ==
  [stops |-> s, legs |-> L, travel |-> Total(L), service |-> SumOf(ServiceIn(P, T), s)]

Exact(P, T, b, route) ==
  route.stops \in Seq(Stops(P, T)) /\ route = rebuild(b, route.stops)

LEMMA ServiceFacts ==
  ASSUME NEW P, NEW T
  PROVE  /\ ServiceIn(P, T) \in [Stops(P, T) -> Int]
         /\ \A x \in Stops(P, T) : ServiceIn(P, T)[x] = x.service
BY DEF ServiceIn, Stops

LEMMA Rebuilt ==
  ASSUME NEW P, NEW T, NEW b, IsRobot(b, P), NEW s \in Seq(Stops(P, T))
  PROVE  rebuild(b, s) = Amounts(P, T, s, LegsOf(b, s))
<1>1. [i \in DOMAIN s |-> s[i].service] = Images(ServiceIn(P, T), s)
  <2>1. \A i \in DOMAIN s : s[i] \in Stops(P, T)
    OBVIOUS
  <2>2. \A i \in DOMAIN s : ServiceIn(P, T)[s[i]] = s[i].service
    BY <2>1, ServiceFacts
  <2> QED BY <2>2, Zenon DEF Images
<1> QED BY <1>1, Zenon DEF rebuild, Amounts, SumOf

LEMMA AmountsExact ==
  ASSUME NEW P, NEW T, NEW b, IsRobot(b, P), NEW s \in Seq(Stops(P, T)), NEW L, AreLegs(b, s, L)
  PROVE  Exact(P, T, b, Amounts(P, T, s, L))
<1>1. L = LegsOf(b, s)
  BY LegsUnique
<1>2. rebuild(b, s) = Amounts(P, T, s, L)
  BY <1>1, Rebuilt, Zenon
<1>3. Amounts(P, T, s, L).stops = s
  BY DEF Amounts
<1> QED BY <1>2, <1>3, Zenon DEF Exact

LEMMA ExactFacts ==
  ASSUME NEW P, NEW T, NEW b, IsRobot(b, P), NEW route, Exact(P, T, b, route)
  PROVE  /\ route.stops \in Seq(Stops(P, T))
         /\ AreLegs(b, route.stops, route.legs)
         /\ route = Amounts(P, T, route.stops, route.legs)
         /\ route.travel = Total(route.legs) /\ route.travel \in Int
         /\ route.service = SumOf(ServiceIn(P, T), route.stops) /\ route.service \in Int
<1>1. PICK s \in Seq(Stops(P, T)) : s = route.stops
  BY DEF Exact
<1>2. PICK L : L = LegsOf(b, s)
  OBVIOUS
<1>3. AreLegs(b, s, L)
  BY <1>2, LegsFacts
<1>4. route = Amounts(P, T, s, L)
  BY <1>1, <1>2, Rebuilt, Zenon DEF Exact
<1>5. /\ route.legs = L /\ route.travel = Total(L)
      /\ route.service = SumOf(ServiceIn(P, T), s)
  BY <1>4 DEF Amounts
<1>6. Total(L) \in Int
  BY <1>3, TotalIsInt DEF AreLegs
<1>7. SumOf(ServiceIn(P, T), s) \in Int
  BY ServiceFacts, SumIsInt
<1> QED BY <1>1, <1>3, <1>4, <1>5, <1>6, <1>7

LEMMA InsertedExact ==
  ASSUME NEW P, NEW T, NEW b, IsRobot(b, P), NEW route, Exact(P, T, b, route),
         NEW i \in 1..(Len(route.stops) + 1), NEW e \in Stops(P, T)
  PROVE  /\ Exact(P, T, b, inserted(b, route, i, e))
         /\ inserted(b, route, i, e).stops = InsertAt(route.stops, i, e)
<1>1. PICK s \in Seq(Stops(P, T)) : s = route.stops
  BY DEF Exact
<1>2. PICK n \in Nat : n = Len(s)
  OBVIOUS
<1>3. PICK L \in Seq(Int) : L = route.legs /\ AreLegs(b, s, L)
  BY <1>1, ExactFacts DEF AreLegs
<1>4. PICK w \in Seq(Int) : w = Around(b, s, i, e)
  <2>1. LegsAround(b, s, i, e, Around(b, s, i, e))
    BY <1>1, AroundFacts
  <2> QED BY <2>1 DEF LegsAround
<1>5. PICK s2 : s2 = InsertAt(s, i, e)
  OBVIOUS
<1>6. IsInsertion(Stops(P, T), s2, s, i, e)
  BY <1>1, <1>5, InsertFacts
<1>7. i \in 1..(Len(L) + 1) /\ i \in Nat
  <2>1. Len(L) = LegCount(b, s)
    BY <1>3 DEF AreLegs
  <2>2. LegCount(b, s) = n \/ LegCount(b, s) = n + 1
    BY <1>2 DEF LegCount
  <2> QED BY <1>1, <1>2, <2>1, <2>2
<1>8. PICK M : M = SubSeq(L, 1, i - 1) \o w \o SubSeq(L, i + 1, Len(L))
  OBVIOUS
<1>9. IsSplice(M, L, i, w, i)
  BY <1>7, <1>8, SpliceFacts
<1>10. AreLegs(b, s2, M)
  BY <1>1, <1>3, <1>4, <1>6, <1>9, LegsInserted
<1>11. Total(M) = Total(L) + Total(w) - ItemAt(L, i)
  <2>1. PICK m \in Nat : m = Len(L)
    OBVIOUS
  <2>2. PICK x : x = Total(SubSeq(L, 1, i - 1))
    OBVIOUS
  <2>3. PICK z : z = Total(SubSeq(L, i + 1, m))
    OBVIOUS
  <2>4. PICK y : y = Total(SubSeq(L, i, m))
    OBVIOUS
  <2>5. i - 1 \in 0..m /\ i - 1 \in Nat /\ (i - 1) + 1 = i
    BY <1>7, <2>1
  <2>6. Total(M) = x + Total(w) + z
    BY <1>7, <1>8, <2>1, <2>2, <2>3, SpliceFacts
  <2>7. Total(L) = x + y
    <3>1. Total(L) = Total(SubSeq(L, 1, i - 1)) + Total(SubSeq(L, (i - 1) + 1, m))
      BY <2>1, <2>5, SplitTotal
    <3> QED BY <2>2, <2>4, <2>5, <3>1
  <2>8. y \in Int /\ y = ItemAt(L, i) + z
    <3>1. /\ Total(SubSeq(L, (i - 1) + 1, m)) \in Int
          /\ Total(SubSeq(L, (i - 1) + 1, m))
               = ItemAt(L, (i - 1) + 1) + Total(SubSeq(L, ((i - 1) + 1) + 1, m))
      BY <2>1, <2>5, TotalBeyond
    <3> QED BY <2>3, <2>4, <2>5, <3>1
  <2>9. z \in Int /\ x \in Int /\ Total(w) \in Int /\ ItemAt(L, i) \in Int
    <3>1. z \in Int
      BY <1>7, <2>1, <2>3, TotalBeyond
    <3>2. SubSeq(L, 1, i - 1) \in Seq(Int)
      BY <2>1, <2>5, PartFacts
    <3>3. x \in Int
      BY <2>2, <3>2, TotalIsInt
    <3>4. ItemAt(L, i) \in Int
      BY DEF ItemAt
    <3> QED BY <3>1, <3>3, <3>4, TotalIsInt
  <2> QED BY <2>6, <2>7, <2>8, <2>9
<1>12. SumOf(ServiceIn(P, T), s2) = SumOf(ServiceIn(P, T), s) + e.service
  <2>1. i \in 1..(Len(s) + 1)
    BY <1>1
  <2>2. ServiceIn(P, T) \in [Stops(P, T) -> Int] /\ ServiceIn(P, T)[e] = e.service
    BY ServiceFacts
  <2>3. PICK f \in [Stops(P, T) -> Int] : f = ServiceIn(P, T)
    BY <2>2
  <2>4. SumOf(f, s2) = SumOf(f, s) + f[e]
    <3>1. GrowsBy(f, s2, s, e)
      BY <1>6, <2>1, SumInserted
    <3> QED BY <3>1 DEF GrowsBy
  <2> QED BY <2>2, <2>3, <2>4
<1>13. inserted(b, route, i, e) = Amounts(P, T, s2, M)
  <2>1. ItemAt(L, i) = IF i \in DOMAIN route.legs THEN route.legs[i] ELSE 0
    <3>1. DOMAIN L = 1..Len(L)
      OBVIOUS
    <3> QED BY <1>3, <3>1, Zenon DEF ItemAt
  <2>2. PICK next : next = IF i = Len(route.stops) + 1 THEN b.home ELSE route.stops[i].location
    OBVIOUS
  <2>3. next = PlaceAt(b, s, i)
    <3>1. i <= Len(s) <=> i # Len(s) + 1
      BY <1>1
    <3> QED BY <1>1, <2>2, <3>1, Zenon DEF PlaceAt
  <2>4. w = << Leg(b, PlaceBefore(b, route.stops, i), e.location) >>
              \o IF i = Len(route.stops) + 1 /\ b.home = NoHome THEN <<>>
                 ELSE << Leg(b, e.location, next) >>
    BY <1>1, <1>4, <2>3, Zenon DEF Around
  <2>5. inserted(b, route, i, e)
          = [stops |-> s2, legs |-> M, travel |-> route.travel + Total(w) - ItemAt(L, i),
             service |-> route.service + e.service]
    BY <1>1, <1>3, <1>5, <1>8, <2>1, <2>2, <2>4, Zenon DEF inserted
  <2>6. route.travel + Total(w) - ItemAt(L, i) = Total(M)
    BY <1>3, <1>11, ExactFacts
  <2>7. route.service + e.service = SumOf(ServiceIn(P, T), s2)
    BY <1>1, <1>12, ExactFacts
  <2> QED BY <2>5, <2>6, <2>7, Zenon DEF Amounts
<1>14. s2 \in Seq(Stops(P, T))
  BY <1>6 DEF IsInsertion
<1>15. Exact(P, T, b, Amounts(P, T, s2, M))
  BY <1>10, <1>14, AmountsExact
<1>16. Amounts(P, T, s2, M).stops = s2
  BY DEF Amounts
<1> QED BY <1>1, <1>5, <1>13, <1>15, <1>16, Zenon

(* The leg, if any, that joins the neighbours of a stop that goes.          *)
Joined(b, s, s2, i) ==
  IF PlaceAt(b, s2, i) = NoHome THEN <<>>
  ELSE << Leg(b, PlaceBefore(b, s, i), PlaceAt(b, s2, i)) >>

LEMMA JoinedFacts ==
  ASSUME NEW P, NEW T, NEW b, IsRobot(b, P), NEW s \in Seq(Stops(P, T)), NEW i \in 1..Len(s),
         NEW s2, IsRemoval(Stops(P, T), s2, s, i)
  PROVE  /\ Joined(b, s, s2, i) \in Seq(Int)
         /\ IF i = Len(s) /\ b.home = NoHome THEN Len(Joined(b, s, s2, i)) = 0
            ELSE /\ Len(Joined(b, s, s2, i)) = 1
                 /\ Joined(b, s, s2, i)[1] = Leg(b, PlaceBefore(b, s, i), PlaceAt(b, s2, i))
<1>1. PICK n \in Nat : n = Len(s)
  OBVIOUS
<1>2. s2 \in Seq(Stops(P, T)) /\ Len(s2) = n - 1 /\ i \in 1..n /\ i \in 1..(n + 1)
  BY <1>1 DEF IsRemoval
<1>3. PICK j : j = Joined(b, s, s2, i)
  OBVIOUS
<1>4. CASE i = Len(s) /\ b.home = NoHome
  <2>1. ~(i <= Len(s2))
    BY <1>1, <1>2, <1>4
  <2>2. PlaceAt(b, s2, i) = NoHome
    BY <1>4, <2>1 DEF PlaceAt
  <2>3. j = <<>>
    BY <1>3, <2>2 DEF Joined
  <2> QED BY <1>3, <1>4, <2>3
<1>5. CASE ~(i = Len(s) /\ b.home = NoHome)
  <2>1. PlaceAt(b, s2, i) \in P
    <3>1. CASE i <= Len(s2)
      <4>1. s2[i] \in Stops(P, T)
        BY <1>2, <3>1
      <4> QED BY <3>1, <4>1 DEF PlaceAt, Stops
    <3>2. CASE ~(i <= Len(s2))
      <4>1. i = Len(s)
        BY <1>1, <1>2, <3>2
      <4> QED BY <1>5, <3>2, <4>1 DEF PlaceAt, IsRobot
    <3> QED BY <3>1, <3>2
  <2>2. PlaceAt(b, s2, i) # NoHome
    BY <2>1 DEF IsRobot
  <2>3. PlaceBefore(b, s, i) \in P
    BY <1>1, <1>2, PlacesFit
  <2>4. PICK x \in Int : x = Leg(b, PlaceBefore(b, s, i), PlaceAt(b, s2, i))
    BY <2>1, <2>3 DEF IsRobot
  <2>5. j = << x >>
    BY <1>3, <2>2, <2>4, Zenon DEF Joined
  <2>6. j \in Seq(Int) /\ Len(j) = 1 /\ j[1] = x
    BY <2>5
  <2> QED BY <1>3, <1>5, <2>4, <2>6
<1> QED BY <1>4, <1>5

LEMMA LegsRemoved ==
  ASSUME NEW P, NEW T, NEW b, IsRobot(b, P), NEW s \in Seq(Stops(P, T)), NEW i \in 1..Len(s),
         NEW s2, IsRemoval(Stops(P, T), s2, s, i), Len(s2) # 0,
         NEW L, AreLegs(b, s, L), NEW M, IsSplice(M, L, i, Joined(b, s, s2, i), i + 1)
  PROVE  AreLegs(b, s2, M)
<1>1. PICK n \in Nat : n = Len(s)
  OBVIOUS
<1>2. s2 \in Seq(Stops(P, T)) /\ Len(s2) = n - 1 /\ i \in 1..n /\ n - 1 # 0
  BY <1>1 DEF IsRemoval
<1>3. PICK c \in Nat : c = LegCount(b, s)
  BY PlacesFit
<1>4. /\ c = (IF b.home = NoHome THEN n ELSE n + 1)
      /\ LegCount(b, s2) = c - 1
  BY <1>1, <1>2, <1>3 DEF LegCount
<1>5. L \in Seq(Int) /\ Len(L) = c
      /\ \A k \in 1..c : L[k] = Leg(b, PlaceBefore(b, s, k), PlaceAt(b, s, k))
  BY <1>3 DEF AreLegs
<1>6. PICK w \in Seq(Int) : w = Joined(b, s, s2, i)
  BY JoinedFacts
<1>7. /\ M \in Seq(Int) /\ Len(M) = (i - 1) + Len(w) + RestLength(L, i + 1)
      /\ \A k \in 1..(i - 1) : M[k] = L[k]
      /\ \A k \in 1..Len(w) : M[(i - 1) + k] = w[k]
      /\ \A k \in 1..RestLength(L, i + 1) : M[(i - 1) + Len(w) + k] = L[(i + 1) + k]
  BY <1>6 DEF IsSplice
<1>8. RestLength(L, i + 1) = IF i + 1 <= c THEN c - (i + 1) ELSE 0
  BY <1>5 DEF RestLength
<1>9. /\ \A k \in 1..i : PlaceBefore(b, s, k) = PlaceBefore(b, s2, k)
      /\ \A k \in (i + 1)..n : PlaceBefore(b, s, k + 1) = PlaceBefore(b, s2, k)
      /\ \A k \in 1..(i - 1) : PlaceAt(b, s, k) = PlaceAt(b, s2, k)
      /\ \A k \in i..n : PlaceAt(b, s, k + 1) = PlaceAt(b, s2, k)
  <2>1. i \in 1..(Len(s2) + 1) /\ IsInsertion(Stops(P, T), s, s2, i, s[i])
    BY RemovalIsInsertion
  <2>2. ArePlacesWith(b, s, s2, i, s[i])
    BY <1>2, <2>1, PlacesWith
  <2>3. Len(s2) + 1 = n
    BY <1>2
  <2> QED BY <2>2, <2>3 DEF ArePlacesWith
<1> DEFINE IsLeg(k) == M[k] = Leg(b, PlaceBefore(b, s2, k), PlaceAt(b, s2, k))
<1>10. ASSUME NEW k \in 1..(i - 1)
       PROVE  IsLeg(k)
  <2>1. k \in 1..c /\ k \in 1..i
    BY <1>2, <1>4
  <2> QED BY <1>5, <1>7, <1>9, <2>1
<1>11. CASE i = n /\ b.home = NoHome
  <2>1. Len(w) = 0
    BY <1>1, <1>6, <1>11, JoinedFacts
  <2>2. c = n /\ RestLength(L, i + 1) = 0 /\ Len(M) = c - 1 /\ c - 1 = i - 1
    BY <1>2, <1>4, <1>7, <1>8, <1>11, <2>1
  <2>3. \A k \in 1..(c - 1) : IsLeg(k)
    <3> HIDE DEF IsLeg
    <3> QED BY <1>10, <2>2
  <2> QED BY <1>4, <1>7, <2>2, <2>3 DEF AreLegs
<1>12. CASE ~(i = n /\ b.home = NoHome)
  <2>1. Len(w) = 1 /\ w[1] = Leg(b, PlaceBefore(b, s, i), PlaceAt(b, s2, i))
    BY <1>1, <1>6, <1>12, JoinedFacts
  <2>2. RestLength(L, i + 1) = c - (i + 1) /\ Len(M) = c - 1 /\ c >= i + 1 /\ c <= n + 1
    BY <1>2, <1>4, <1>7, <1>8, <1>12, <2>1
  <2>3. IsLeg(i)
    <3>1. i \in 1..i /\ (i - 1) + 1 = i /\ 1 \in 1..Len(w)
      BY <1>2, <2>1
    <3>2. M[i] = w[1]
      BY <1>7, <3>1
    <3> QED BY <1>9, <2>1, <3>1, <3>2
  <2>4. ASSUME NEW k \in (i + 1)..(c - 1)
        PROVE  IsLeg(k)
    <3>1. /\ k \in (i + 1)..n /\ k \in i..n /\ k + 1 \in 1..c
          /\ k - i \in 1..RestLength(L, i + 1) /\ (i - 1) + 1 + (k - i) = k
          /\ (i + 1) + (k - i) = k + 1
      BY <1>2, <2>2
    <3>2. M[k] = L[k + 1]
      BY <1>7, <2>1, <3>1
    <3>3. L[k + 1] = Leg(b, PlaceBefore(b, s, k + 1), PlaceAt(b, s, k + 1))
      BY <1>5, <3>1
    <3>4. /\ PlaceBefore(b, s, k + 1) = PlaceBefore(b, s2, k)
          /\ PlaceAt(b, s, k + 1) = PlaceAt(b, s2, k)
      BY <1>9, <3>1
    <3> QED BY <3>2, <3>3, <3>4
  <2>5. \A k \in 1..(c - 1) : k \in 1..(i - 1) \/ k = i \/ k \in (i + 1)..(c - 1)
    BY <1>2
  <2>6. \A k \in 1..(c - 1) : IsLeg(k)
    <3> HIDE DEF IsLeg
    <3> QED BY <1>10, <2>3, <2>4, <2>5
  <2> QED BY <1>4, <1>7, <2>2, <2>6 DEF AreLegs
<1> QED BY <1>11, <1>12

RouteWith(r, s, l, t) == [r EXCEPT !.stops = s, !.legs = l, !.travel = t]

LEMMA RouteUpdated ==
  ASSUME NEW s, NEW l, NEW t, NEW v, NEW r, r = [stops |-> s, legs |-> l, travel |-> t, service |-> v],
         NEW s2, NEW l2, NEW t2
  PROVE  RouteWith(r, s2, l2, t2) = [stops |-> s2, legs |-> l2, travel |-> t2, service |-> v]
<1>1. PICK x, y : /\ x = [stops |-> s2, legs |-> l, travel |-> t, service |-> v]
                  /\ y = [stops |-> s2, legs |-> l2, travel |-> t, service |-> v]
  OBVIOUS
<1>2. [r EXCEPT !.stops = s2] = x
  BY <1>1
<1>3. [x EXCEPT !.legs = l2] = y
  BY <1>1
<1>4. [y EXCEPT !.travel = t2] = [stops |-> s2, legs |-> l2, travel |-> t2, service |-> v]
  BY <1>1
<1>5. RouteWith(r, s2, l2, t2)
        = [[[r EXCEPT !.stops = s2] EXCEPT !.legs = l2] EXCEPT !.travel = t2]
  BY Zenon DEF RouteWith
<1> QED BY <1>2, <1>3, <1>4, <1>5

Unserved(route, x) == [route EXCEPT !.service = @ - x]

IsWithout(P, T, b, route, rest, i) ==
  /\ Exact(P, T, b, WithoutStop(b, rest, i))
  /\ WithoutStop(b, rest, i).stops = RemoveAt(route.stops, i)

LEMMA WithoutExact ==
  ASSUME NEW P, NEW T, NEW b, IsRobot(b, P), NEW route, Exact(P, T, b, route),
         NEW i \in 1..Len(route.stops), NEW rest,
         rest = Unserved(route, route.stops[i].service)
  PROVE  IsWithout(P, T, b, route, rest, i)
<1>1. PICK s \in Seq(Stops(P, T)) : s = route.stops
  BY DEF Exact
<1>2. PICK n \in Nat : n = Len(s)
  OBVIOUS
<1>3. PICK L \in Seq(Int) : L = route.legs /\ AreLegs(b, s, L)
  BY <1>1, ExactFacts DEF AreLegs
<1>4. PICK s2 : s2 = RemoveAt(s, i)
  OBVIOUS
<1>5. IsRemoval(Stops(P, T), s2, s, i)
  BY <1>1, <1>4, RemoveFacts
<1>6. s2 \in Seq(Stops(P, T)) /\ Len(s2) = n - 1 /\ i \in 1..n
  BY <1>1, <1>2, <1>5 DEF IsRemoval
<1>7. PICK f \in [Stops(P, T) -> Int] : f = ServiceIn(P, T)
  BY ServiceFacts
<1>8. SumOf(f, s2) = SumOf(f, s) - s[i].service
  <2>1. i \in 1..Len(s)
    BY <1>1
  <2>2. SumOf(f, s2) = SumOf(f, s) - f[s[i]]
    BY <1>5, <2>1, SumRemoved
  <2>3. f[s[i]] = s[i].service
    BY <1>7, <2>1, ServiceFacts
  <2> QED BY <2>2, <2>3
<1>9. route = [stops |-> s, legs |-> L, travel |-> Total(L), service |-> SumOf(f, s)]
  <2>1. route = Amounts(P, T, s, L)
    BY <1>1, <1>3, ExactFacts
  <2> QED BY <1>7, <2>1, Zenon DEF Amounts
<1>10. rest = [stops |-> s, legs |-> L, travel |-> Total(L), service |-> SumOf(f, s2)]
  <2>1. rest = [route EXCEPT !.service = SumOf(f, s2)]
    <3>1. route.service = SumOf(f, s)
      BY <1>9
    <3> QED BY <1>1, <1>8, <3>1 DEF Unserved
  <2> QED BY <1>9, <2>1
<1>11. CASE s2 = <<>>
  <2>1. WithoutStop(b, rest, i) = [rest EXCEPT !.stops = <<>>, !.legs = <<>>, !.travel = 0]
    <3>1. RemoveAt(rest.stops, i) = <<>>
      <4>1. rest.stops = s
        BY <1>10
      <4> QED BY <1>4, <1>11, <4>1, Zenon
    <3> QED BY <3>1, Zenon DEF WithoutStop
  <2>2. WithoutStop(b, rest, i)
          = [stops |-> s2, legs |-> <<>>, travel |-> Total(<<>>), service |-> SumOf(f, s2)]
    <3>1. PICK u : u = <<>>
      OBVIOUS
    <3>2. WithoutStop(b, rest, i) = RouteWith(rest, u, u, 0)
      BY <2>1, <3>1, Zenon DEF RouteWith
    <3>3. WithoutStop(b, rest, i)
            = [stops |-> u, legs |-> u, travel |-> 0, service |-> SumOf(f, s2)]
      <4>1. RouteWith(rest, u, u, 0)
              = [stops |-> u, legs |-> u, travel |-> 0, service |-> SumOf(f, s2)]
        BY <1>10, RouteUpdated
      <4> QED BY <3>2, <4>1, Zenon
    <3> QED BY <1>11, <3>1, <3>3, TotalOfNone, Zenon
  <2>3. AreLegs(b, s2, <<>>)
    BY <1>11 DEF AreLegs, LegCount
  <2>4. WithoutStop(b, rest, i) = Amounts(P, T, s2, <<>>)
    BY <1>7, <2>2, Zenon DEF Amounts
  <2>5. Exact(P, T, b, Amounts(P, T, s2, <<>>))
    BY <1>6, <2>3, AmountsExact
  <2>6. WithoutStop(b, rest, i).stops = s2
    BY <2>2
  <2> QED BY <1>1, <1>4, <2>4, <2>5, <2>6, Zenon DEF IsWithout
<1>12. CASE s2 # <<>>
  <2>1. Len(s2) # 0
    BY <1>6, <1>12
  <2>2. PICK w \in Seq(Int) : w = Joined(b, s, s2, i)
    BY <1>1, <1>5, JoinedFacts
  <2>3. i + 1 \in Nat /\ i \in 1..Len(L) /\ i \in 1..(Len(L) + 1)
    <3>1. Len(L) = LegCount(b, s)
      BY <1>3 DEF AreLegs
    <3>2. LegCount(b, s) = n \/ LegCount(b, s) = n + 1
      BY <1>2 DEF LegCount
    <3>3. PICK m : m = Len(L)
      OBVIOUS
    <3>4. m = n \/ m = n + 1
      BY <3>1, <3>2, <3>3
    <3>5. i + 1 \in Nat /\ i \in 1..m /\ i \in 1..(m + 1)
      BY <1>6, <3>4
    <3> QED BY <3>3, <3>5
  <2>4. PICK M : M = SubSeq(L, 1, i - 1) \o w \o SubSeq(L, (i + 1) + 1, Len(L))
    OBVIOUS
  <2>5. IsSplice(M, L, i, w, i + 1)
    BY <2>3, <2>4, SpliceFacts
  <2>6. AreLegs(b, s2, M)
    BY <1>1, <1>3, <1>5, <2>1, <2>2, <2>5, LegsRemoved
  <2>7. Total(M) = Total(L) + Total(w) - L[i] - ItemAt(L, i + 1)
    <3>1. PICK m \in Nat : m = Len(L)
      BY <1>3
    <3>2. PICK x : x = Total(SubSeq(L, 1, i - 1))
      OBVIOUS
    <3>3. PICK y : y = Total(SubSeq(L, i + 1, m))
      OBVIOUS
    <3>4. PICK z : z = Total(SubSeq(L, (i + 1) + 1, m))
      OBVIOUS
    <3>5. Total(M) = x + Total(w) + z
      BY <2>3, <2>4, <3>1, <3>2, <3>4, SpliceFacts
    <3>6. SubSeq(L, 1, i - 1) \in Seq(Int) /\ Total(L) = x + L[i] + y
      BY <2>3, <3>1, <3>2, <3>3, TotalAround
    <3>7. i \in Nat
      BY <2>3
    <3>8. y \in Int /\ y = ItemAt(L, i + 1) + z
      BY <3>1, <3>3, <3>4, <3>7, TotalBeyond
    <3>9. x \in Int /\ z \in Int /\ Total(w) \in Int
      BY <2>3, <3>1, <3>2, <3>4, <3>6, TotalBeyond, TotalIsInt
    <3>10. L[i] \in Int /\ ItemAt(L, i + 1) \in Int
      <4>1. L[i] \in Int
        BY <2>3
      <4>2. ItemAt(L, i + 1) \in Int
        BY DEF ItemAt
      <4> QED BY <4>1, <4>2
    <3>11. PICK x1, y1, z1, w1, a1, b1 \in Int :
             /\ x1 = x /\ y1 = y /\ z1 = z /\ w1 = Total(w) /\ a1 = L[i] /\ b1 = ItemAt(L, i + 1)
      BY <3>8, <3>9, <3>10
    <3>12. Total(M) = x1 + w1 + z1 /\ Total(L) = x1 + a1 + y1 /\ y1 = b1 + z1
      BY <3>5, <3>6, <3>8, <3>11
    <3>13. x1 + w1 + z1 = (x1 + a1 + (b1 + z1)) + w1 - a1 - b1
      OBVIOUS
    <3> QED BY <3>11, <3>12, <3>13
  <2>8. LegOn(rest, i) = ItemAt(L, i + 1)
    <3>1. rest.legs = L
      BY <1>10
    <3>2. DOMAIN L = 1..Len(L)
      BY <1>3
    <3> QED BY <3>1, <3>2, Zenon DEF ItemAt, LegOn
  <2>9. PICK next : next = IF i <= Len(s2) THEN s2[i].location ELSE b.home
    OBVIOUS
  <2>10. next = PlaceAt(b, s2, i)
    BY <2>9 DEF PlaceAt
  <2>11. w = IF next = NoHome THEN <<>> ELSE << Leg(b, PlaceBefore(b, s, i), next) >>
    BY <2>2, <2>10, Zenon DEF Joined
  <2>12. rest.stops = s
    BY <1>10
  <2>13. WithoutStop(b, rest, i)
           = [rest EXCEPT !.stops = s2,
                          !.legs = SubSeq(@, 1, i - 1) \o w \o SubSeq(@, i + 2, Len(@)),
                          !.travel = @ + Total(w) - rest.legs[i] - LegOn(rest, i)]
    <3>1. RemoveAt(rest.stops, i) = s2
      BY <1>4, <2>12
    <3>2. RemoveAt(rest.stops, i) # <<>>
      BY <1>12, <3>1
    <3>3. w = IF next = NoHome THEN <<>> ELSE << Leg(b, PlaceBefore(b, rest.stops, i), next) >>
      BY <2>11, <2>12, Zenon
    <3> QED BY <2>9, <3>1, <3>2, <3>3, Zenon DEF WithoutStop
  <2>14. WithoutStop(b, rest, i)
           = [stops |-> s2, legs |-> M, travel |-> Total(M), service |-> SumOf(f, s2)]
    <3>1. (i + 1) + 1 = i + 2
      BY <2>3
    <3>2. M = SubSeq(L, 1, i - 1) \o w \o SubSeq(L, i + 2, Len(L))
      BY <2>4, <3>1
    <3>3. rest.legs = L /\ rest.travel = Total(L) /\ rest.service = SumOf(f, s2)
      BY <1>10
    <3>4. WithoutStop(b, rest, i) = RouteWith(rest, s2, M, Total(M))
      <4>1. rest.travel + Total(w) - rest.legs[i] - LegOn(rest, i) = Total(M)
        BY <2>7, <2>8, <3>3
      <4> QED BY <2>13, <3>2, <3>3, <4>1, Zenon DEF RouteWith
    <3>5. RouteWith(rest, s2, M, Total(M))
            = [stops |-> s2, legs |-> M, travel |-> Total(M), service |-> SumOf(f, s2)]
      BY <1>10, RouteUpdated
    <3> QED BY <3>4, <3>5, Zenon
  <2>15. WithoutStop(b, rest, i) = Amounts(P, T, s2, M)
    BY <1>7, <2>14, Zenon DEF Amounts
  <2>16. Exact(P, T, b, Amounts(P, T, s2, M))
    BY <1>6, <2>6, AmountsExact
  <2>17. WithoutStop(b, rest, i).stops = s2
    BY <2>14
  <2> QED BY <1>1, <1>4, <2>15, <2>16, <2>17, Zenon DEF IsWithout
<1> QED BY <1>11, <1>12

(* Another stop at the same location: the legs stay.                        *)
LEMMA LegsUpdated ==
  ASSUME NEW P, NEW T, NEW b, NEW s \in Seq(Stops(P, T)), NEW s2 \in Seq(Stops(P, T)),
         Len(s2) = Len(s), \A k \in 1..Len(s) : s2[k].location = s[k].location,
         NEW L, AreLegs(b, s, L)
  PROVE  AreLegs(b, s2, L)
<1>1. PICK n \in Nat : n = Len(s)
  OBVIOUS
<1>2. LegCount(b, s2) = LegCount(b, s) /\ LegCount(b, s) \in Nat /\ LegCount(b, s) <= n + 1
  BY <1>1 DEF LegCount
<1>3. ASSUME NEW k \in 1..LegCount(b, s)
      PROVE  PlaceBefore(b, s2, k) = PlaceBefore(b, s, k) /\ PlaceAt(b, s2, k) = PlaceAt(b, s, k)
  <2>1. PlaceBefore(b, s2, k) = PlaceBefore(b, s, k)
    <3>1. k # 1 => k - 1 \in 1..n
      BY <1>2
    <3> QED BY <1>1, <3>1 DEF PlaceBefore
  <2>2. PlaceAt(b, s2, k) = PlaceAt(b, s, k)
    <3>1. k <= n => k \in 1..n
      BY <1>2
    <3> QED BY <1>1, <3>1 DEF PlaceAt
  <2> QED BY <2>1, <2>2
<1> QED BY <1>2, <1>3 DEF AreLegs

RouteFor(route, s, v) ==
  [stops |-> s, legs |-> route.legs, travel |-> route.travel, service |-> v]

LEMMA UpdatedExact ==
  ASSUME NEW P, NEW T, NEW b, IsRobot(b, P), NEW route, Exact(P, T, b, route),
         NEW i \in 1..Len(route.stops), NEW e \in Stops(P, T),
         e.location = route.stops[i].location, NEW r2,
         r2 = RouteFor(route, [route.stops EXCEPT ![i] = e],
                       route.service - route.stops[i].service + e.service)
  PROVE  Exact(P, T, b, r2)
<1>1. PICK s \in Seq(Stops(P, T)) : s = route.stops
  BY DEF Exact
<1>2. PICK L : L = route.legs /\ AreLegs(b, s, L)
  BY <1>1, ExactFacts
<1>3. PICK f \in [Stops(P, T) -> Int] : f = ServiceIn(P, T)
  BY ServiceFacts
<1>4. PICK s2 : s2 = [s EXCEPT ![i] = e]
  OBVIOUS
<1>5. /\ s2 \in Seq(Stops(P, T)) /\ Len(s2) = Len(s) /\ s2[i] = e
      /\ \A k \in 1..Len(s) : k # i => s2[k] = s[k]
  BY <1>1, <1>4
<1>6. \A k \in 1..Len(s) : s2[k].location = s[k].location
  BY <1>1, <1>5
<1>7. AreLegs(b, s2, L)
  BY <1>2, <1>5, <1>6, LegsUpdated
<1>8. SumOf(f, s2) = SumOf(f, s) - s[i].service + e.service
  <2>1. i \in 1..Len(s)
    BY <1>1
  <2>2. SumOf(f, s2) = SumOf(f, s) - f[s[i]] + f[s2[i]]
    <3>1. DifferAt(s2, s, i)
      BY <1>5 DEF DifferAt
    <3>2. s2 \in Seq(Stops(P, T))
      BY <1>5
    <3>3. SumDiffersAt(f, s2, s, i)
      BY <2>1, <3>1, <3>2, SumUpdated
    <3> QED BY <3>3 DEF SumDiffersAt
  <2>3. f[s[i]] = s[i].service /\ f[e] = e.service
    BY <1>3, <2>1, ServiceFacts
  <2> QED BY <1>5, <2>2, <2>3
<1>9. route = [stops |-> s, legs |-> L, travel |-> Total(L), service |-> SumOf(f, s)]
  <2>1. route = Amounts(P, T, s, L)
    BY <1>1, <1>2, ExactFacts
  <2> QED BY <1>3, <2>1, Zenon DEF Amounts
<1>10. r2 = [stops |-> s2, legs |-> L, travel |-> Total(L), service |-> SumOf(f, s2)]
  <2>1. route.service = SumOf(f, s) /\ route.legs = L /\ route.travel = Total(L)
    BY <1>9
  <2>2. route.service - route.stops[i].service + e.service = SumOf(f, s2)
    BY <1>1, <1>8, <2>1
  <2> QED BY <1>1, <1>4, <2>1, <2>2, Zenon DEF RouteFor
<1>11. r2 = Amounts(P, T, s2, L)
  BY <1>3, <1>10, Zenon DEF Amounts
<1> QED BY <1>5, <1>7, <1>11, AmountsExact
-----------------------------------------------------------------------------
(* What tasks at one stop amount to.                                        *)
LEMMA FiniteImages ==
  ASSUME NEW S, IsFiniteSet(S), NEW f, DOMAIN f = S, NEW V, V = {f[x] : x \in S}
  PROVE  IsFiniteSet(V)
<1>1. PICK g : g = [x \in S |-> f[x]]
  OBVIOUS
<1>2. g \in Surjection(S, V)
  BY <1>1 DEF Surjection
<1> QED BY <1>2, FS_Surjection

LEMMA FiniteItems ==
  ASSUME NEW T, NEW s \in Seq(T)
  PROVE  IsFiniteSet(Range(s)) /\ Range(s) \in SUBSET T
<1>1. IsFiniteSet(DOMAIN s)
  <2>1. DOMAIN s = 1..Len(s) /\ Len(s) \in Int
    OBVIOUS
  <2> QED BY <2>1, FS_Interval
<1>2. IsFiniteSet({s[x] : x \in DOMAIN s})
  BY <1>1, FiniteImages
<1>3. {s[x] : x \in DOMAIN s} \in SUBSET T
  OBVIOUS
<1> QED BY <1>2, <1>3, Zenon DEF Range

LEMMA GreatestFacts ==
  ASSUME NEW N \in SUBSET Int, IsFiniteSet(N)
  PROVE  /\ Greatest(N) \in {0} \cup N /\ Greatest(N) \in Nat
         /\ \A x \in N : x <= Greatest(N)
<1>1. PICK S \in SUBSET Int : S = {0} \cup N
  <2>1. {0} \cup N \in SUBSET Int
    OBVIOUS
  <2> QED BY <2>1
<1>2. IsFiniteSet(S) /\ S # {} /\ 0 \in S
  BY <1>1, FS_Singleton, FS_Union
<1>3. Max(S) \in S /\ \A x \in S : x <= Max(S)
  BY <1>2, FiniteHasMax
<1>4. Greatest(N) = Max(S)
  BY <1>1, Zenon DEF Greatest
<1>5. PICK m \in S : m = Max(S)
  BY <1>3
<1>6. m \in Int /\ 0 <= m /\ \A x \in S : x <= m
  BY <1>2, <1>3, <1>5
<1> QED BY <1>1, <1>4, <1>5, <1>6

Tolerances(tol, s) == {tol[t] : t \in Range(s)}

AreAmounts(sv, tol, s, service, tolerance) ==
  service = SumOf(sv, s) /\ tolerance = Greatest(Tolerances(tol, s))

LEMMA ToleranceFacts ==
  ASSUME NEW T, NEW tol \in [T -> Nat], NEW s \in Seq(T)
  PROVE  IsFiniteSet(Tolerances(tol, s)) /\ Tolerances(tol, s) \in SUBSET Nat
<1>1. PICK R \in SUBSET T : R = Range(s) /\ IsFiniteSet(R)
  BY FiniteItems
<1>2. PICK f : f = [t \in R |-> tol[t]]
  OBVIOUS
<1>3. DOMAIN f = R /\ {f[t] : t \in R} = {tol[t] : t \in R}
  BY <1>2
<1>4. IsFiniteSet({tol[t] : t \in R})
  <2>1. IsFiniteSet({f[t] : t \in R})
    BY <1>1, <1>3, FiniteImages
  <2> QED BY <1>3, <2>1, Zenon
<1>5. {tol[t] : t \in R} \in SUBSET Nat
  OBVIOUS
<1> QED BY <1>1, <1>4, <1>5, Zenon DEF Tolerances

LEMMA AmountsOfOne ==
  ASSUME NEW T, NEW sv \in [T -> Int], NEW tol \in [T -> Nat], NEW t \in T
  PROVE  AreAmounts(sv, tol, << t >>, sv[t], tol[t])
<1>1. SumOf(sv, << t >>) = sv[t]
  <2>1. << t >> \in Seq(T) /\ Len(<< t >>) = 1 /\ << t >>[1] = t
    OBVIOUS
  <2>2. PICK g : g = Images(sv, << t >>)
    OBVIOUS
  <2>3. g \in Seq(Int) /\ Len(g) = 1 /\ g[1] = sv[t]
    <3>1. AreImages(Int, g, sv, << t >>)
      BY <2>1, <2>2, ImageFacts
    <3> QED BY <2>1, <3>1 DEF AreImages
  <2>4. << sv[t] >> \in Seq(Int) /\ Len(<< sv[t] >>) = 1 /\ << sv[t] >>[1] = sv[t]
    OBVIOUS
  <2>5. g = << sv[t] >>
    BY <2>3, <2>4, SeqEqual
  <2>6. Total(<< sv[t] >>) = sv[t]
    BY TotalOfOne
  <2> QED BY <2>2, <2>5, <2>6, Zenon DEF SumOf
<1>2. tol[t] = Greatest(Tolerances(tol, << t >>))
  <2>1. Range(<< t >>) = {t}
    BY DEF Range
  <2>2. Tolerances(tol, << t >>) = {tol[t]}
    BY <2>1 DEF Tolerances
  <2>3. IsFiniteSet({tol[t]}) /\ {tol[t]} \in SUBSET Int /\ tol[t] \in Nat
    <3>1. tol[t] \in Nat
      OBVIOUS
    <3>2. IsFiniteSet({tol[t]})
      BY FS_Singleton
    <3> QED BY <3>1, <3>2
  <2>4. Greatest({tol[t]}) \in {0} \cup {tol[t]} /\ tol[t] <= Greatest({tol[t]})
    BY <2>3, GreatestFacts
  <2> QED BY <2>2, <2>3, <2>4
<1> QED BY <1>1, <1>2 DEF AreAmounts

LEMMA AmountsAppended ==
  ASSUME NEW T, NEW sv \in [T -> Int], NEW tol \in [T -> Nat], NEW s \in Seq(T), NEW t \in T,
         NEW a, NEW b, AreAmounts(sv, tol, s, a, b)
  PROVE  AreAmounts(sv, tol, Append(s, t), a + sv[t], IF tol[t] > b THEN tol[t] ELSE b)
<1>1. PICK r : r = Append(s, t)
  OBVIOUS
<1>2. PICK n \in Nat : n = Len(s)
  OBVIOUS
<1>3. r \in Seq(T) /\ Len(r) = n + 1 /\ r[n + 1] = t /\ \A k \in 1..n : r[k] = s[k]
  BY <1>1, <1>2
<1>4. SumOf(sv, r) = a + sv[t]
  <2>1. IsInsertion(T, r, s, n + 1, t)
    BY <1>2, <1>3 DEF IsInsertion
  <2>2. n + 1 \in 1..(Len(s) + 1)
    BY <1>2
  <2>3. GrowsBy(sv, r, s, t)
    BY <2>1, <2>2, SumInserted
  <2>4. SumOf(sv, s) = a
    BY DEF AreAmounts
  <2> QED BY <2>3, <2>4, Zenon DEF GrowsBy
<1>5. PICK A \in SUBSET Nat : A = Tolerances(tol, s) /\ IsFiniteSet(A)
  BY ToleranceFacts
<1>6. PICK B \in SUBSET Nat : B = Tolerances(tol, r) /\ IsFiniteSet(B)
  BY <1>3, ToleranceFacts
<1>7. B = A \cup {tol[t]}
  <2>1. Range(r) = Range(s) \cup {t}
    <3>1. DOMAIN r = DOMAIN s \cup {n + 1} /\ DOMAIN s = 1..n
      <4>1. DOMAIN s = 1..n /\ DOMAIN r = 1..(n + 1)
        BY <1>2, <1>3
      <4>2. 1..(n + 1) = (1..n) \cup {n + 1}
        OBVIOUS
      <4> QED BY <4>1, <4>2, Zenon
    <3> QED BY <1>3, <3>1 DEF Range
  <2>2. {tol[u] : u \in Range(s) \cup {t}} = {tol[u] : u \in Range(s)} \cup {tol[t]}
    OBVIOUS
  <2> QED BY <1>5, <1>6, <2>1, <2>2, Zenon DEF Tolerances
<1>8. Greatest(A) \in {0} \cup A /\ Greatest(A) \in Nat /\ \A x \in A : x <= Greatest(A)
  BY <1>5, GreatestFacts
<1>9. Greatest(B) \in {0} \cup B /\ Greatest(B) \in Nat /\ \A x \in B : x <= Greatest(B)
  BY <1>6, GreatestFacts
<1>10. Greatest(B) = IF tol[t] > Greatest(A) THEN tol[t] ELSE Greatest(A)
  <2>1. tol[t] \in Nat /\ tol[t] \in B
    <3>1. tol[t] \in Nat
      OBVIOUS
    <3> QED BY <1>7, <3>1
  <2>2. Greatest(A) <= Greatest(B)
    <3>1. PICK x \in Nat : x = Greatest(A)
      BY <1>8
    <3>2. PICK y \in Nat : y = Greatest(B)
      BY <1>9
    <3>3. x = 0 \/ x \in B
      BY <1>7, <1>8, <3>1
    <3>4. x <= y
      BY <1>9, <3>2, <3>3
    <3> QED BY <3>1, <3>2, <3>4
  <2>3. Greatest(B) = tol[t] \/ Greatest(B) <= Greatest(A)
    BY <1>7, <1>8, <1>9
  <2> QED BY <1>8, <1>9, <2>1, <2>2, <2>3
<1>11. b = Greatest(A)
  BY <1>5 DEF AreAmounts
<1> QED BY <1>1, <1>4, <1>6, <1>10, <1>11 DEF AreAmounts
-----------------------------------------------------------------------------
(* The stops of a robot, as the problem's tasks make them.                  *)
ServiceOf(p) == [t \in DOMAIN p.tasks |-> p.tasks[t].service]
ToleranceOf(p) == [t \in DOMAIN p.tasks |-> p.tasks[t].tolerance]

Suits(p, r, t) == t \in DOMAIN p.tasks /\ p.tasks[t].needs \subseteq p.robots[r].caps

StopsOn(p, r) == Stops(PlacesOf(p, r), DOMAIN p.tasks)

GoodStop(p, r, x) ==
  /\ x \in StopsOn(p, r)
  /\ x.tasks # <<>> /\ IsInjective(x.tasks)
  /\ \A t \in Range(x.tasks) : Suits(p, r, t) /\ x.location = p.tasks[t].location
  /\ AreAmounts(ServiceOf(p), ToleranceOf(p), x.tasks, x.service, x.tolerance)

LEMMA ProblemFacts ==
  ASSUME NEW p, IsProblem(p)
  PROVE  /\ ServiceOf(p) \in [DOMAIN p.tasks -> Nat] /\ ServiceOf(p) \in [DOMAIN p.tasks -> Int]
         /\ ToleranceOf(p) \in [DOMAIN p.tasks -> Nat]
         /\ \A r : \A t \in DOMAIN p.tasks : p.tasks[t].location \in PlacesOf(p, r)
         /\ \A r \in DOMAIN p.robots : IsRobot(p.robots[r], PlacesOf(p, r))
<1>1. ServiceOf(p) \in [DOMAIN p.tasks -> Nat] /\ ToleranceOf(p) \in [DOMAIN p.tasks -> Nat]
  <2>1. \A t \in DOMAIN p.tasks : p.tasks[t].service \in Nat /\ p.tasks[t].tolerance \in Nat
    BY Zenon DEF IsProblem
  <2> QED BY <2>1 DEF ServiceOf, ToleranceOf
<1>2. ServiceOf(p) \in [DOMAIN p.tasks -> Int]
  BY <1>1
<1>3. \A r : \A t \in DOMAIN p.tasks : p.tasks[t].location \in PlacesOf(p, r)
  BY DEF PlacesOf
<1>4. ASSUME NEW r \in DOMAIN p.robots
      PROVE  IsRobot(p.robots[r], PlacesOf(p, r))
  <2>1. /\ \A a, b \in PlacesOf(p, r) : Leg(p.robots[r], a, b) \in Nat \cup {NoPath}
        /\ p.robots[r].start # NoHome
        /\ \A t \in DOMAIN p.tasks : p.tasks[t].location # NoHome
    BY Zenon DEF IsProblem
  <2>2. \A a, b \in PlacesOf(p, r) : Leg(p.robots[r], a, b) \in Int
    BY <2>1 DEF NoPath
  <2>3. p.robots[r].start \in PlacesOf(p, r) /\ p.robots[r].home \in PlacesOf(p, r) \cup {NoHome}
    BY <2>1 DEF PlacesOf
  <2>4. NoHome \notin PlacesOf(p, r)
    BY <2>1 DEF PlacesOf
  <2> QED BY <2>2, <2>3, <2>4 DEF IsRobot
<1> QED BY <1>1, <1>2, <1>3, <1>4

LEMMA NewStop ==
  ASSUME NEW p, IsProblem(p), NEW r, NEW t, Suits(p, r, t)
  PROVE  GoodStop(p, r, StopFor(p.tasks[t], t))
<1>1. PICK x : x = [location |-> p.tasks[t].location, tasks |-> <<t>>,
                    service |-> p.tasks[t].service, tolerance |-> p.tasks[t].tolerance]
  OBVIOUS
<1>2. x = StopFor(p.tasks[t], t)
  BY <1>1 DEF StopFor
<1>3. /\ x.location = p.tasks[t].location /\ x.tasks = <<t>>
      /\ x.service = p.tasks[t].service /\ x.tolerance = p.tasks[t].tolerance
  BY <1>1
<1>4. t \in DOMAIN p.tasks
  BY DEF Suits
<1>5. /\ ServiceOf(p) \in [DOMAIN p.tasks -> Int] /\ ToleranceOf(p) \in [DOMAIN p.tasks -> Nat]
      /\ ServiceOf(p)[t] = p.tasks[t].service /\ ToleranceOf(p)[t] = p.tasks[t].tolerance
  <2>1. ServiceOf(p) \in [DOMAIN p.tasks -> Int] /\ ToleranceOf(p) \in [DOMAIN p.tasks -> Nat]
    BY ProblemFacts
  <2>2. ServiceOf(p)[t] = p.tasks[t].service /\ ToleranceOf(p)[t] = p.tasks[t].tolerance
    BY <1>4 DEF ServiceOf, ToleranceOf
  <2> QED BY <2>1, <2>2
<1>6. AreAmounts(ServiceOf(p), ToleranceOf(p), <<t>>, ServiceOf(p)[t], ToleranceOf(p)[t])
  BY <1>4, <1>5, AmountsOfOne
<1>7. AreAmounts(ServiceOf(p), ToleranceOf(p), x.tasks, x.service, x.tolerance)
  BY <1>3, <1>5, <1>6
<1>8. x \in StopsOn(p, r)
  <2>1. x.service \in Int /\ x.tolerance \in Int
    <3>1. ServiceOf(p)[t] \in Int /\ ToleranceOf(p)[t] \in Nat
      BY <1>4, <1>5
    <3> QED BY <1>3, <1>5, <3>1
  <2>2. <<t>> \in Seq(DOMAIN p.tasks)
    <3>1. PICK T : T = DOMAIN p.tasks
      OBVIOUS
    <3>2. t \in T
      BY <1>4, <3>1
    <3>3. <<t>> \in Seq(T)
      BY <3>2
    <3> QED BY <3>1, <3>3
  <2>3. x.location \in PlacesOf(p, r)
    BY <1>3, <1>4, ProblemFacts
  <2> QED BY <1>1, <1>3, <2>1, <2>2, <2>3 DEF StopsOn, Stops
<1>9. <<t>> # <<>> /\ IsInjective(<<t>>) /\ Range(<<t>>) = {t}
  BY DEF IsInjective, Range
<1>10. GoodStop(p, r, x)
  BY <1>3, <1>7, <1>8, <1>9 DEF GoodStop
<1> QED BY <1>2, <1>10

StopWith(p, x, t) ==
  [location |-> x.location, tasks |-> Append(x.tasks, t),
   service |-> x.service + p.tasks[t].service,
   tolerance |-> IF p.tasks[t].tolerance > x.tolerance THEN p.tasks[t].tolerance ELSE x.tolerance]

AreDistinct(T, s) == s \in Seq(T) /\ IsInjective(s)

HasOneMore(T, a, s, t) ==
  /\ AreDistinct(T, a) /\ a # <<>> /\ Len(a) = Len(s) + 1
  /\ t \notin Range(s) /\ Range(a) = Range(s) \cup {t}

LEMMA AppendedItems ==
  ASSUME NEW T, NEW s, AreDistinct(T, s), NEW t \in T \ Range(s)
  PROVE  HasOneMore(T, Append(s, t), s, t)
<1> s \in Seq(T) /\ IsInjective(s)
  BY DEF AreDistinct
<1>1. PICK n \in Nat : n = Len(s)
  OBVIOUS
<1>2. PICK a \in Seq(T) : a = Append(s, t)
  <2>1. t \in T
    OBVIOUS
  <2>2. Append(s, t) \in Seq(T)
    BY <2>1
  <2> QED BY <2>2
<1>3. /\ DOMAIN s = 1..n /\ DOMAIN a = 1..(n + 1) /\ Len(a) = n + 1
      /\ a[n + 1] = t /\ \A k \in 1..n : a[k] = s[k]
  BY <1>1, <1>2
<1>4. Range(a) = Range(s) \cup {t}
  <2>1. 1..(n + 1) = (1..n) \cup {n + 1}
    OBVIOUS
  <2> QED BY <1>3, <2>1 DEF Range
<1>5. IsInjective(a)
  <2> SUFFICES ASSUME NEW j \in 1..(n + 1), NEW k \in 1..(n + 1), a[j] = a[k]
               PROVE  j = k
    BY <1>3 DEF IsInjective
  <2>1. \A m \in 1..n : s[m] # t
    <3>1. t \notin Range(s)
      OBVIOUS
    <3> QED BY <1>3, <3>1 DEF Range
  <2>2. (j \in 1..n \/ j = n + 1) /\ (k \in 1..n \/ k = n + 1)
    OBVIOUS
  <2>3. CASE j \in 1..n /\ k \in 1..n
    BY <1>3, <2>3 DEF IsInjective
  <2>4. CASE ~(j \in 1..n /\ k \in 1..n)
    BY <1>3, <2>1, <2>2, <2>4
  <2> QED BY <2>3, <2>4
<1> QED BY <1>1, <1>2, <1>3, <1>4, <1>5 DEF AreDistinct, HasOneMore

LEMMA MergedStop ==
  ASSUME NEW p, IsProblem(p), NEW r, NEW t, Suits(p, r, t), NEW x, GoodStop(p, r, x),
         x.location = p.tasks[t].location, t \notin Range(x.tasks)
  PROVE  GoodStop(p, r, StopWith(p, x, t))
<1>1. PICK y : y = StopWith(p, x, t)
  OBVIOUS
<1>2. /\ y.location = x.location /\ y.tasks = Append(x.tasks, t)
      /\ y.service = x.service + p.tasks[t].service
      /\ y.tolerance = IF p.tasks[t].tolerance > x.tolerance
                       THEN p.tasks[t].tolerance ELSE x.tolerance
  BY <1>1 DEF StopWith
<1>3. t \in DOMAIN p.tasks
  BY DEF Suits
<1>4. /\ x.location \in PlacesOf(p, r) /\ x.tasks \in Seq(DOMAIN p.tasks)
      /\ x.service \in Int /\ x.tolerance \in Int
  <2>1. x \in Stops(PlacesOf(p, r), DOMAIN p.tasks)
    BY DEF GoodStop, StopsOn
  <2> QED BY <2>1 DEF Stops
<1>5. ServiceOf(p) \in [DOMAIN p.tasks -> Int] /\ ToleranceOf(p) \in [DOMAIN p.tasks -> Nat]
  BY ProblemFacts
<1>6. ServiceOf(p)[t] = p.tasks[t].service /\ ToleranceOf(p)[t] = p.tasks[t].tolerance
  BY <1>3 DEF ServiceOf, ToleranceOf
<1>7. AreAmounts(ServiceOf(p), ToleranceOf(p), x.tasks, x.service, x.tolerance)
  BY DEF GoodStop
<1>8. AreAmounts(ServiceOf(p), ToleranceOf(p), Append(x.tasks, t), x.service + ServiceOf(p)[t],
                 IF ToleranceOf(p)[t] > x.tolerance THEN ToleranceOf(p)[t] ELSE x.tolerance)
  BY <1>3, <1>4, <1>5, <1>7, AmountsAppended
<1>9. AreAmounts(ServiceOf(p), ToleranceOf(p), y.tasks, y.service, y.tolerance)
  BY <1>2, <1>6, <1>8, Zenon
<1>10. /\ y.tasks \in Seq(DOMAIN p.tasks) /\ y.tasks # <<>> /\ IsInjective(y.tasks)
       /\ Range(y.tasks) = Range(x.tasks) \cup {t}
  <2>1. AreDistinct(DOMAIN p.tasks, x.tasks)
    BY <1>4 DEF GoodStop, AreDistinct
  <2>2. HasOneMore(DOMAIN p.tasks, Append(x.tasks, t), x.tasks, t)
    BY <1>3, <2>1, AppendedItems
  <2> QED BY <1>2, <2>2 DEF HasOneMore, AreDistinct
<1>11. y \in StopsOn(p, r)
  <2>1. ServiceOf(p)[t] \in Int /\ ToleranceOf(p)[t] \in Nat
    BY <1>3, <1>5
  <2>2. y.service \in Int /\ y.tolerance \in Int
    BY <1>2, <1>4, <1>6, <2>1
  <2>3. y = [location |-> y.location, tasks |-> y.tasks, service |-> y.service,
             tolerance |-> y.tolerance]
    BY <1>1 DEF StopWith
  <2>4. y.location \in PlacesOf(p, r)
    BY <1>2, <1>4
  <2> QED BY <1>10, <2>2, <2>3, <2>4 DEF StopsOn, Stops
<1>12. \A u \in Range(y.tasks) : Suits(p, r, u) /\ y.location = p.tasks[u].location
  <2>1. \A u \in Range(x.tasks) : Suits(p, r, u) /\ x.location = p.tasks[u].location
    BY DEF GoodStop
  <2> QED BY <1>2, <1>10, <2>1
<1>13. GoodStop(p, r, y)
  BY <1>9, <1>10, <1>11, <1>12 DEF GoodStop
<1> QED BY <1>1, <1>13

HasOneLess(T, a, s, k) ==
  /\ AreDistinct(T, a) /\ IsRemoval(T, a, s, k)
  /\ s[k] \in T /\ Range(a) = Range(s) \ {s[k]}

LEMMA RemovedItems ==
  ASSUME NEW T, NEW s, AreDistinct(T, s), NEW k \in 1..Len(s)
  PROVE  HasOneLess(T, RemoveAt(s, k), s, k)
<1> s \in Seq(T) /\ IsInjective(s)
  BY DEF AreDistinct
<1>1. PICK n \in Nat : n = Len(s) /\ DOMAIN s = 1..n
  OBVIOUS
<1>2. PICK a : a = RemoveAt(s, k)
  OBVIOUS
<1>3. IsRemoval(T, a, s, k)
  BY <1>2, RemoveFacts
<1>4. /\ a \in Seq(T) /\ DOMAIN a = 1..(n - 1) /\ k \in 1..n
      /\ \A j \in 1..(k - 1) : a[j] = s[j]
      /\ \A j \in k..(n - 1) : a[j] = s[j + 1]
  BY <1>1, <1>3 DEF IsRemoval
<1>5. \A i, j \in 1..n : s[i] = s[j] => i = j
  BY <1>1 DEF IsInjective
<1>6. ASSUME NEW j \in 1..(n - 1)
      PROVE  \E i \in 1..n : i # k /\ a[j] = s[i] /\ ((i = j /\ j < k) \/ (i = j + 1 /\ j >= k))
  <2>1. CASE j < k
    <3>1. j \in 1..(k - 1) /\ j \in 1..n /\ j # k
      BY <1>4, <2>1
    <3>2. a[j] = s[j]
      BY <1>4, <3>1
    <3> QED BY <2>1, <3>1, <3>2
  <2>2. CASE ~(j < k)
    <3>1. j \in k..(n - 1) /\ j + 1 \in 1..n /\ j + 1 # k /\ j >= k
      BY <1>4, <2>2
    <3>2. a[j] = s[j + 1]
      BY <1>4, <3>1
    <3> QED BY <3>1, <3>2
  <2> QED BY <2>1, <2>2
<1>7. IsInjective(a)
  <2> SUFFICES ASSUME NEW i \in 1..(n - 1), NEW j \in 1..(n - 1), a[i] = a[j]
               PROVE  i = j
    BY <1>4 DEF IsInjective
  <2>1. PICK x \in 1..n : a[i] = s[x] /\ ((x = i /\ i < k) \/ (x = i + 1 /\ i >= k))
    BY <1>6
  <2>2. PICK y \in 1..n : a[j] = s[y] /\ ((y = j /\ j < k) \/ (y = j + 1 /\ j >= k))
    BY <1>6
  <2>3. x = y
    BY <1>5, <2>1, <2>2
  <2> QED BY <1>4, <2>1, <2>2, <2>3
<1>8. Range(a) = Range(s) \ {s[k]}
  <2>1. ASSUME NEW j \in 1..(n - 1)
        PROVE  a[j] \in Range(s) /\ a[j] # s[k]
    <3>1. PICK x \in 1..n : x # k /\ a[j] = s[x]
      BY <1>6
    <3> QED BY <1>1, <1>4, <1>5, <3>1 DEF Range
  <2>2. ASSUME NEW i \in 1..n, s[i] # s[k]
        PROVE  \E j \in 1..(n - 1) : a[j] = s[i]
    <3>1. CASE i < k
      <4>1. i \in 1..(k - 1) /\ i \in 1..(n - 1)
        BY <1>4, <3>1
      <4> QED BY <1>4, <4>1
    <3>2. CASE ~(i < k)
      <4>1. i # k
        BY <2>2
      <4>2. i - 1 \in k..(n - 1) /\ i - 1 \in 1..(n - 1) /\ (i - 1) + 1 = i
        BY <1>4, <3>2, <4>1
      <4>3. a[i - 1] = s[(i - 1) + 1]
        BY <1>4, <4>2
      <4> QED BY <4>2, <4>3
    <3> QED BY <3>1, <3>2
  <2>3. \A u \in Range(a) : u \in Range(s) \ {s[k]}
    <3> TAKE u \in Range(a)
    <3>1. PICK j \in 1..(n - 1) : u = a[j]
      BY <1>4 DEF Range
    <3> QED BY <2>1, <3>1
  <2>4. \A u \in Range(s) \ {s[k]} : u \in Range(a)
    <3> TAKE u \in Range(s) \ {s[k]}
    <3>1. PICK i \in 1..n : u = s[i]
      BY <1>1 DEF Range
    <3>2. PICK j \in 1..(n - 1) : a[j] = s[i]
      BY <2>2, <3>1
    <3> QED BY <1>4, <3>1, <3>2 DEF Range
  <2> QED BY <2>3, <2>4
<1>9. s[k] \in T
  BY <1>1, <1>4
<1> QED BY <1>2, <1>3, <1>4, <1>7, <1>8, <1>9 DEF AreDistinct, HasOneLess

StopLess(p, x, left, t) ==
  [location |-> x.location, tasks |-> left, service |-> x.service - p.tasks[t].service,
   tolerance |-> Greatest({p.tasks[u].tolerance : u \in Range(left)})]

LEMMA StopFacts ==
  ASSUME NEW p, IsProblem(p), NEW r, NEW x, GoodStop(p, r, x)
  PROVE  /\ x.location \in PlacesOf(p, r) /\ AreDistinct(DOMAIN p.tasks, x.tasks)
         /\ x.service \in Int /\ x.tolerance \in Int
         /\ x.service = SumOf(ServiceOf(p), x.tasks)
<1>1. x \in Stops(PlacesOf(p, r), DOMAIN p.tasks)
  BY DEF GoodStop, StopsOn
<1> QED BY <1>1 DEF Stops, GoodStop, AreDistinct, AreAmounts

LEMMA LessStop ==
  ASSUME NEW p, IsProblem(p), NEW r, NEW x, GoodStop(p, r, x), NEW k \in 1..Len(x.tasks),
         NEW left, left = RemoveAt(x.tasks, k), left # <<>>
  PROVE  GoodStop(p, r, StopLess(p, x, left, x.tasks[k]))
<1>1. PICK t : t = x.tasks[k]
  OBVIOUS
<1>2. PICK y : y = StopLess(p, x, left, t)
  OBVIOUS
<1>3. /\ y.location = x.location /\ y.tasks = left
      /\ y.service = x.service - p.tasks[t].service
      /\ y.tolerance = Greatest({p.tasks[u].tolerance : u \in Range(left)})
      /\ y = [location |-> y.location, tasks |-> y.tasks, service |-> y.service,
              tolerance |-> y.tolerance]
  BY <1>2 DEF StopLess
<1>4. PICK T : T = DOMAIN p.tasks
  OBVIOUS
<1>5. /\ x.location \in PlacesOf(p, r) /\ AreDistinct(T, x.tasks)
      /\ x.service \in Int /\ x.service = SumOf(ServiceOf(p), x.tasks)
  BY <1>4, StopFacts
<1>6. HasOneLess(T, left, x.tasks, k)
  BY <1>5, RemovedItems
<1>7. /\ AreDistinct(T, left) /\ IsRemoval(T, left, x.tasks, k)
      /\ t \in T /\ Range(left) = Range(x.tasks) \ {t}
  BY <1>1, <1>6 DEF HasOneLess
<1>8. ServiceOf(p) \in [T -> Int] /\ ToleranceOf(p) \in [T -> Nat] /\ ServiceOf(p)[t] = p.tasks[t].service
  <2>1. ServiceOf(p) \in [T -> Int] /\ ToleranceOf(p) \in [T -> Nat]
    BY <1>4, ProblemFacts
  <2>2. ServiceOf(p)[t] = p.tasks[t].service
    BY <1>4, <1>7 DEF ServiceOf
  <2> QED BY <2>1, <2>2
<1>9. y.service = SumOf(ServiceOf(p), left) /\ y.service \in Int
  <2>1. x.tasks \in Seq(T) /\ left \in Seq(T)
    BY <1>5, <1>7 DEF AreDistinct
  <2>2. SumOf(ServiceOf(p), left) = SumOf(ServiceOf(p), x.tasks) - ServiceOf(p)[x.tasks[k]]
    <3>1. PICK s \in Seq(T) : s = x.tasks
      BY <2>1
    <3>2. k \in 1..Len(s) /\ IsRemoval(T, left, s, k)
      BY <1>7, <3>1
    <3>3. SumOf(ServiceOf(p), left) = SumOf(ServiceOf(p), s) - ServiceOf(p)[s[k]]
      BY <1>8, <3>2, SumRemoved
    <3> QED BY <3>1, <3>3
  <2>3. SumOf(ServiceOf(p), left) \in Int
    BY <1>8, <2>1, SumIsInt
  <2> QED BY <1>1, <1>3, <1>5, <1>8, <2>2, <2>3
<1>10. y.tolerance = Greatest(Tolerances(ToleranceOf(p), left)) /\ y.tolerance \in Int
  <2>1. left \in Seq(T)
    BY <1>7 DEF AreDistinct
  <2>2. Range(left) \in SUBSET T
    BY <2>1, FiniteItems
  <2>3. \A u \in Range(left) : ToleranceOf(p)[u] = p.tasks[u].tolerance
    BY <1>4, <2>2 DEF ToleranceOf
  <2>4. Tolerances(ToleranceOf(p), left) = {p.tasks[u].tolerance : u \in Range(left)}
    BY <2>3, Zenon DEF Tolerances
  <2>5. PICK N \in SUBSET Nat : N = Tolerances(ToleranceOf(p), left) /\ IsFiniteSet(N)
    BY <1>8, <2>1, ToleranceFacts
  <2>6. Greatest(N) \in Nat
    BY <2>5, GreatestFacts
  <2> QED BY <1>3, <2>4, <2>5, <2>6
<1>11. y \in StopsOn(p, r)
  <2>1. left \in Seq(DOMAIN p.tasks)
    BY <1>4, <1>7 DEF AreDistinct
  <2> QED BY <1>3, <1>5, <1>9, <1>10, <2>1 DEF StopsOn, Stops
<1>12. \A u \in Range(y.tasks) : Suits(p, r, u) /\ y.location = p.tasks[u].location
  BY <1>3, <1>7 DEF GoodStop
<1>13. y.tasks # <<>> /\ IsInjective(y.tasks)
  BY <1>3, <1>7 DEF AreDistinct
<1>14. AreAmounts(ServiceOf(p), ToleranceOf(p), y.tasks, y.service, y.tolerance)
  BY <1>3, <1>9, <1>10 DEF AreAmounts
<1>15. GoodStop(p, r, y)
  BY <1>11, <1>12, <1>13, <1>14 DEF GoodStop
<1> QED BY <1>1, <1>2, <1>15

LEMMA LoneStop ==
  ASSUME NEW p, IsProblem(p), NEW r, NEW x, GoodStop(p, r, x), NEW k \in 1..Len(x.tasks),
         RemoveAt(x.tasks, k) = <<>>
  PROVE  /\ x.service = p.tasks[x.tasks[k]].service
         /\ Range(x.tasks) = {x.tasks[k]} /\ Len(x.tasks) = 1
<1>1. PICK t : t = x.tasks[k]
  OBVIOUS
<1>2. PICK T : T = DOMAIN p.tasks
  OBVIOUS
<1>3. AreDistinct(T, x.tasks) /\ x.service \in Int /\ x.service = SumOf(ServiceOf(p), x.tasks)
  BY <1>2, StopFacts
<1>4. PICK a : a = RemoveAt(x.tasks, k)
  OBVIOUS
<1>5. HasOneLess(T, a, x.tasks, k)
  BY <1>3, <1>4, RemovedItems
<1>6. IsRemoval(T, a, x.tasks, k) /\ t \in T /\ Range(a) = Range(x.tasks) \ {t}
  BY <1>1, <1>5 DEF HasOneLess
<1>7. ServiceOf(p) \in [T -> Int] /\ ServiceOf(p)[t] = p.tasks[t].service
  <2>1. ServiceOf(p) \in [T -> Int]
    BY <1>2, ProblemFacts
  <2>2. ServiceOf(p)[t] = p.tasks[t].service
    BY <1>2, <1>6 DEF ServiceOf
  <2> QED BY <2>1, <2>2
<1>8. x.tasks \in Seq(T) /\ a \in Seq(T) /\ Len(a) = 0
  BY <1>3, <1>4, <1>6 DEF AreDistinct, IsRemoval
<1>9. SumOf(ServiceOf(p), a) = SumOf(ServiceOf(p), x.tasks) - ServiceOf(p)[t]
  BY <1>1, <1>6, <1>7, <1>8, SumRemoved
<1>10. SumOf(ServiceOf(p), a) = 0
  <2>1. PICK g : g = Images(ServiceOf(p), a)
    OBVIOUS
  <2>2. AreImages(Int, g, ServiceOf(p), a)
    BY <1>7, <1>8, <2>1, ImageFacts
  <2>3. g \in Seq(Int) /\ Len(g) = 0
    BY <1>8, <2>2 DEF AreImages
  <2>4. g = <<>>
    BY <2>3
  <2> QED BY <2>1, <2>4, TotalOfNone, Zenon DEF SumOf
<1>11. x.service = ServiceOf(p)[t]
  <2>1. ServiceOf(p)[t] \in Int
    BY <1>6, <1>7
  <2> QED BY <1>3, <1>9, <1>10, <2>1
<1>12. Len(x.tasks) = 1
  BY <1>6, <1>8 DEF IsRemoval
<1>13. Range(x.tasks) = {t}
  <2>1. Range(a) = {}
    BY <1>8 DEF Range
  <2>2. t \in Range(x.tasks)
    BY <1>1, <1>8 DEF Range
  <2> QED BY <1>6, <2>1, <2>2
<1> QED BY <1>1, <1>7, <1>11, <1>12, <1>13

(* One stop of a route changed, field by field.                             *)
StopPut(route, i, e) == [route EXCEPT !.stops = [route.stops EXCEPT ![i] = e]]

StopChanged(route, i, ta, sv, tl, v) ==
  [route EXCEPT !.stops[i].tasks = ta, !.stops[i].service = sv,
                !.stops[i].tolerance = tl, !.service = v]

StopFields(route, i, ta, sv, tl) ==
  [route EXCEPT !.stops[i].tasks = ta, !.stops[i].service = sv, !.stops[i].tolerance = tl]

LEMMA PutFacts ==
  ASSUME NEW s, NEW l, NEW c, NEW v, NEW route,
         route = [stops |-> s, legs |-> l, travel |-> c, service |-> v], NEW i, NEW e
  PROVE  StopPut(route, i, e) = [stops |-> [s EXCEPT ![i] = e], legs |-> l, travel |-> c, service |-> v]
<1>1. PICK s2 : s2 = [s EXCEPT ![i] = e]
  OBVIOUS
<1>2. route.stops = s
  OBVIOUS
<1>3. StopPut(route, i, e) = [route EXCEPT !.stops = s2]
  BY <1>1, <1>2, Zenon DEF StopPut
<1>4. [route EXCEPT !.stops = s2] = [stops |-> s2, legs |-> l, travel |-> c, service |-> v]
  OBVIOUS
<1> QED BY <1>1, <1>3, <1>4, Zenon

IsStopRecord(x) ==
  x = [location |-> x.location, tasks |-> x.tasks, service |-> x.service, tolerance |-> x.tolerance]

IsRouteRecord(route) ==
  route = [stops |-> route.stops, legs |-> route.legs,
           travel |-> route.travel, service |-> route.service]

ChangedStops(route, i, ta, sv, tl) ==
  [route.stops EXCEPT ![i] = [location |-> route.stops[i].location, tasks |-> ta,
                              service |-> sv, tolerance |-> tl]]

IsStopChange(route, i, ta, sv, tl, v) ==
  /\ StopChanged(route, i, ta, sv, tl, v) = RouteFor(route, ChangedStops(route, i, ta, sv, tl), v)
  /\ StopFields(route, i, ta, sv, tl)
       = RouteFor(route, ChangedStops(route, i, ta, sv, tl), route.service)

LEMMA ChangeFacts ==
  ASSUME NEW route, IsRouteRecord(route), NEW i \in DOMAIN route.stops,
         IsStopRecord(route.stops[i]), NEW ta2, NEW sv2, NEW tl2, NEW v2
  PROVE  IsStopChange(route, i, ta2, sv2, tl2, v2)
<1>24. PICK s, l, c, v : /\ s = route.stops /\ l = route.legs /\ c = route.travel
                        /\ v = route.service
  OBVIOUS
<1>25. PICK lo, ta, sv, tl : /\ lo = s[i].location /\ ta = s[i].tasks /\ sv = s[i].service
                            /\ tl = s[i].tolerance
  OBVIOUS
<1>26. /\ i \in DOMAIN s /\ s[i] = [location |-> lo, tasks |-> ta, service |-> sv, tolerance |-> tl]
      /\ route = [stops |-> s, legs |-> l, travel |-> c, service |-> v]
  BY <1>24, <1>25, Zenon DEF IsStopRecord, IsRouteRecord
<1>1. PICK x1 : x1 = [location |-> lo, tasks |-> ta2, service |-> sv, tolerance |-> tl]
  OBVIOUS
<1>2. PICK x2 : x2 = [location |-> lo, tasks |-> ta2, service |-> sv2, tolerance |-> tl]
  OBVIOUS
<1>3. PICK x3 : x3 = [location |-> lo, tasks |-> ta2, service |-> sv2, tolerance |-> tl2]
  OBVIOUS
<1>4. [s[i] EXCEPT !.tasks = ta2] = x1
  BY <1>1, <1>26
<1>5. [x1 EXCEPT !.service = sv2] = x2
  BY <1>1, <1>2
<1>6. [x2 EXCEPT !.tolerance = tl2] = x3
  BY <1>2, <1>3
<1>7. PICK s1 : s1 = [s EXCEPT ![i] = x1]
  OBVIOUS
<1>8. PICK s2 : s2 = [s EXCEPT ![i] = x2]
  OBVIOUS
<1>9. PICK s3 : s3 = [s EXCEPT ![i] = x3]
  OBVIOUS
<1>10. s1[i] = x1 /\ s2[i] = x2 /\ [s1 EXCEPT ![i] = x2] = s2 /\ [s2 EXCEPT ![i] = x3] = s3
  BY <1>7, <1>8, <1>9, <1>26
<1>11. PICK r1 : r1 = [stops |-> s1, legs |-> l, travel |-> c, service |-> v]
  OBVIOUS
<1>12. PICK r2 : r2 = [stops |-> s2, legs |-> l, travel |-> c, service |-> v]
  OBVIOUS
<1>13. PICK r3 : r3 = [stops |-> s3, legs |-> l, travel |-> c, service |-> v]
  OBVIOUS
<1>14. [route EXCEPT !.stops[i].tasks = ta2] = r1
  <2>1. route.stops = s
    BY <1>24
  <2>2. [route EXCEPT !.stops[i].tasks = ta2] = StopPut(route, i, [route.stops[i] EXCEPT !.tasks = ta2])
    BY Zenon DEF StopPut
  <2>3. StopPut(route, i, x1) = r1
    BY <1>7, <1>11, <1>26, PutFacts
  <2> QED BY <1>4, <2>1, <2>2, <2>3, Zenon
<1>15. [r1 EXCEPT !.stops[i].service = sv2] = r2
  <2>1. r1.stops = s1
    BY <1>11
  <2>2. [r1 EXCEPT !.stops[i].service = sv2] = StopPut(r1, i, [r1.stops[i] EXCEPT !.service = sv2])
    BY Zenon DEF StopPut
  <2>3. StopPut(r1, i, x2) = r2
    BY <1>10, <1>11, <1>12, PutFacts
  <2> QED BY <1>5, <1>10, <2>1, <2>2, <2>3, Zenon
<1>16. [r2 EXCEPT !.stops[i].tolerance = tl2] = r3
  <2>1. r2.stops = s2
    BY <1>12
  <2>2. [r2 EXCEPT !.stops[i].tolerance = tl2] = StopPut(r2, i, [r2.stops[i] EXCEPT !.tolerance = tl2])
    BY Zenon DEF StopPut
  <2>3. StopPut(r2, i, x3) = r3
    BY <1>10, <1>12, <1>13, PutFacts
  <2> QED BY <1>6, <1>10, <2>1, <2>2, <2>3, Zenon
<1>17. [r3 EXCEPT !.service = v2] = RouteFor(route, s3, v2)
  <2>1. [r3 EXCEPT !.service = v2] = [stops |-> s3, legs |-> l, travel |-> c, service |-> v2]
    BY <1>13
  <2>2. route.legs = l /\ route.travel = c
    BY <1>24
  <2> QED BY <2>1, <2>2, Zenon DEF RouteFor
<1>18. StopChanged(route, i, ta2, sv2, tl2, v2)
         = [[[[route EXCEPT !.stops[i].tasks = ta2] EXCEPT !.stops[i].service = sv2]
               EXCEPT !.stops[i].tolerance = tl2] EXCEPT !.service = v2]
  BY Zenon DEF StopChanged
<1>19. x3 = [location |-> route.stops[i].location, tasks |-> ta2, service |-> sv2,
             tolerance |-> tl2]
  BY <1>24, <1>25, <1>3, Zenon
<1>20. s3 = [route.stops EXCEPT ![i] = x3]
  BY <1>24, <1>9, Zenon
<1>21. StopChanged(route, i, ta2, sv2, tl2, v2) = RouteFor(route, s3, v2)
  BY <1>14, <1>15, <1>16, <1>17, <1>18, Zenon
<1>22. StopFields(route, i, ta2, sv2, tl2) = RouteFor(route, s3, route.service)
  <2>1. StopFields(route, i, ta2, sv2, tl2)
          = [[[route EXCEPT !.stops[i].tasks = ta2] EXCEPT !.stops[i].service = sv2]
               EXCEPT !.stops[i].tolerance = tl2]
    BY Zenon DEF StopFields
  <2>2. StopFields(route, i, ta2, sv2, tl2) = r3
    BY <1>14, <1>15, <1>16, <2>1, Zenon
  <2> QED BY <1>24, <1>13, <2>2, Zenon DEF RouteFor
<1>23. ChangedStops(route, i, ta2, sv2, tl2) = s3
  BY <1>19, <1>20, Zenon DEF ChangedStops
<1> QED BY <1>21, <1>22, <1>23, Zenon DEF IsStopChange
-----------------------------------------------------------------------------
(* The routes of a robot, as the problem's tasks make them.                 *)
On(route, t) == \E k \in 1..Len(route.stops) : t \in Range(route.stops[k].tasks)

Apart(s) == \A j, k \in 1..Len(s) : s[j].location = s[k].location => j = k

GoodStops(p, r, s) ==
  s \in Seq(StopsOn(p, r)) /\ Apart(s) /\ \A k \in 1..Len(s) : GoodStop(p, r, s[k])

GoodRoute(p, r, route) ==
  /\ Exact(PlacesOf(p, r), DOMAIN p.tasks, p.robots[r], route)
  /\ GoodStops(p, r, route.stops)

HasTask(p, new, old, t) ==
  /\ \A u \in DOMAIN p.tasks : On(new, u) <=> On(old, u) \/ u = t
  /\ TaskCount(old) \in Int /\ TaskCount(new) = TaskCount(old) + 1

LacksTask(p, new, old, t) ==
  /\ \A u \in DOMAIN p.tasks : On(new, u) <=> On(old, u) /\ u # t
  /\ TaskCount(old) \in Int /\ TaskCount(new) = TaskCount(old) - 1

CountIn(p, r) == [x \in StopsOn(p, r) |-> Len(x.tasks)]

LEMMA CountFacts ==
  ASSUME NEW p, NEW r
  PROVE  /\ CountIn(p, r) \in [StopsOn(p, r) -> Int]
         /\ \A x \in StopsOn(p, r) : CountIn(p, r)[x] = Len(x.tasks)
<1>1. \A x \in StopsOn(p, r) : Len(x.tasks) \in Int
  <2> TAKE x \in StopsOn(p, r)
  <2>1. x.tasks \in Seq(DOMAIN p.tasks)
    BY DEF StopsOn, Stops
  <2> QED BY <2>1
<1> QED BY <1>1 DEF CountIn

LEMMA TasksCounted ==
  ASSUME NEW p, NEW r, NEW route, route.stops \in Seq(StopsOn(p, r))
  PROVE  TaskCount(route) = SumOf(CountIn(p, r), route.stops) /\ TaskCount(route) \in Int
<1>1. PICK s \in Seq(StopsOn(p, r)) : s = route.stops
  OBVIOUS
<1>2. [i \in DOMAIN s |-> Len(s[i].tasks)] = Images(CountIn(p, r), s)
  <2>1. \A i \in DOMAIN s : s[i] \in StopsOn(p, r)
    OBVIOUS
  <2>2. \A i \in DOMAIN s : CountIn(p, r)[s[i]] = Len(s[i].tasks)
    BY <2>1, CountFacts
  <2> QED BY <2>2, Zenon DEF Images
<1>3. TaskCount(route) = SumOf(CountIn(p, r), s)
  BY <1>1, <1>2, Zenon DEF TaskCount, SumOf
<1>4. SumOf(CountIn(p, r), s) \in Int
  BY CountFacts, SumIsInt
<1> QED BY <1>1, <1>3, <1>4

(* A stop of a route replaced by another at the same location.              *)
LEMMA StopsUpdated ==
  ASSUME NEW p, IsProblem(p), NEW r, NEW s, GoodStops(p, r, s), NEW i \in 1..Len(s),
         NEW e, GoodStop(p, r, e), e.location = s[i].location,
         NEW s2, s2 = [s EXCEPT ![i] = e]
  PROVE  /\ GoodStops(p, r, s2) /\ Len(s2) = Len(s) /\ s2[i] = e
         /\ \A k \in 1..Len(s) : k # i => s2[k] = s[k]
         /\ SumOf(CountIn(p, r), s2) = SumOf(CountIn(p, r), s) - Len(s[i].tasks) + Len(e.tasks)
<1>1. s \in Seq(StopsOn(p, r)) /\ Apart(s) /\ \A k \in 1..Len(s) : GoodStop(p, r, s[k])
  BY DEF GoodStops
<1>2. PICK n \in Nat : n = Len(s) /\ DOMAIN s = 1..n
  BY <1>1
<1>3. e \in StopsOn(p, r)
  BY DEF GoodStop
<1>4. /\ s2 \in Seq(StopsOn(p, r)) /\ Len(s2) = n /\ s2[i] = e
      /\ \A k \in 1..n : k # i => s2[k] = s[k]
  BY <1>1, <1>2, <1>3
<1>5. \A k \in 1..n : s2[k].location = s[k].location
  BY <1>4
<1>6. Apart(s2)
  BY <1>1, <1>2, <1>4, <1>5 DEF Apart
<1>7. \A k \in 1..n : GoodStop(p, r, s2[k])
  BY <1>1, <1>2, <1>4
<1>8. SumOf(CountIn(p, r), s2) = SumOf(CountIn(p, r), s) - Len(s[i].tasks) + Len(e.tasks)
  <2>1. PICK f \in [StopsOn(p, r) -> Int] : f = CountIn(p, r)
    BY CountFacts
  <2>2. DifferAt(s2, s, i)
    BY <1>2, <1>4 DEF DifferAt
  <2>3. SumOf(f, s2) = SumOf(f, s) - f[s[i]] + f[s2[i]]
    <3>1. s \in Seq(StopsOn(p, r)) /\ s2 \in Seq(StopsOn(p, r))
      BY <1>1, <1>4
    <3>2. SumDiffersAt(f, s2, s, i)
      BY <2>2, <3>1, SumUpdated
    <3> QED BY <3>2 DEF SumDiffersAt
  <2>4. f[s[i]] = Len(s[i].tasks) /\ f[e] = Len(e.tasks)
    BY <1>1, <1>3, <2>1, CountFacts
  <2> QED BY <1>4, <2>1, <2>3, <2>4
<1> QED BY <1>2, <1>4, <1>6, <1>7, <1>8 DEF GoodStops

LEMMA GoodRouteFacts ==
  ASSUME NEW p, IsProblem(p), NEW r \in DOMAIN p.robots, NEW route, GoodRoute(p, r, route)
  PROVE  /\ IsRobot(p.robots[r], PlacesOf(p, r))
         /\ route.stops \in Seq(StopsOn(p, r)) /\ Len(route.stops) \in Nat
         /\ route = [stops |-> route.stops, legs |-> route.legs,
                     travel |-> route.travel, service |-> route.service]
         /\ route.legs \in Seq(Int) /\ route.travel \in Int /\ route.service \in Int
         /\ TaskCount(route) = SumOf(CountIn(p, r), route.stops) /\ TaskCount(route) \in Int
<1>1. PICK P, T, b : P = PlacesOf(p, r) /\ T = DOMAIN p.tasks /\ b = p.robots[r]
  OBVIOUS
<1>2. IsRobot(b, P)
  BY <1>1, ProblemFacts
<1>3. Exact(P, T, b, route)
  BY <1>1 DEF GoodRoute
<1>4. /\ route.stops \in Seq(Stops(P, T)) /\ AreLegs(b, route.stops, route.legs)
      /\ route = Amounts(P, T, route.stops, route.legs)
      /\ route.travel = Total(route.legs) /\ route.travel \in Int
      /\ route.service = SumOf(ServiceIn(P, T), route.stops) /\ route.service \in Int
  BY <1>2, <1>3, ExactFacts
<1>5. route.stops \in Seq(StopsOn(p, r)) /\ Len(route.stops) \in Nat
  BY <1>1, <1>4 DEF StopsOn
<1>6. route.legs \in Seq(Int)
  BY <1>4 DEF AreLegs
<1>7. route = [stops |-> route.stops, legs |-> route.legs,
               travel |-> route.travel, service |-> route.service]
  BY <1>4, Zenon DEF Amounts
<1>8. TaskCount(route) = SumOf(CountIn(p, r), route.stops) /\ TaskCount(route) \in Int
  BY <1>5, TasksCounted
<1> QED BY <1>1, <1>2, <1>4, <1>5, <1>6, <1>7, <1>8

IsReplaced(p, r, new, route, i, e) ==
  /\ GoodRoute(p, r, new) /\ new.legs = route.legs
  /\ new.stops = [route.stops EXCEPT ![i] = e]
  /\ TaskCount(route) \in Int
  /\ TaskCount(new) = TaskCount(route) - Len(route.stops[i].tasks) + Len(e.tasks)

LEMMA StopReplaced ==
  ASSUME NEW p, IsProblem(p), NEW r \in DOMAIN p.robots, NEW route, GoodRoute(p, r, route),
         NEW i \in 1..Len(route.stops), NEW e, GoodStop(p, r, e),
         e.location = route.stops[i].location, NEW new,
         new = RouteFor(route, [route.stops EXCEPT ![i] = e],
                        route.service - route.stops[i].service + e.service)
  PROVE  IsReplaced(p, r, new, route, i, e)
<1>1. PICK P, T, b : P = PlacesOf(p, r) /\ T = DOMAIN p.tasks /\ b = p.robots[r]
  OBVIOUS
<1>2. PICK s \in Seq(StopsOn(p, r)) : s = route.stops
  BY GoodRouteFacts
<1>3. PICK s2 : s2 = [s EXCEPT ![i] = e]
  OBVIOUS
<1>4. new.stops = s2 /\ new.legs = route.legs
  BY <1>2, <1>3 DEF RouteFor
<1>5. Exact(P, T, b, new)
  <2>1. IsRobot(b, P)
    BY <1>1, ProblemFacts
  <2>2. Exact(P, T, b, route)
    BY <1>1 DEF GoodRoute
  <2>3. e \in Stops(P, T)
    BY <1>1 DEF GoodStop, StopsOn
  <2> QED BY <2>1, <2>2, <2>3, UpdatedExact
<1>6. GoodStops(p, r, s)
  BY <1>2 DEF GoodRoute
<1>7. /\ GoodStops(p, r, s2)
      /\ SumOf(CountIn(p, r), s2) = SumOf(CountIn(p, r), s) - Len(s[i].tasks) + Len(e.tasks)
  BY <1>2, <1>3, <1>6, StopsUpdated
<1>8. GoodRoute(p, r, new)
  BY <1>1, <1>4, <1>5, <1>7 DEF GoodRoute
<1>9. /\ TaskCount(route) = SumOf(CountIn(p, r), s) /\ TaskCount(route) \in Int
      /\ TaskCount(new) = SumOf(CountIn(p, r), s2)
  BY <1>2, <1>4, <1>8, GoodRouteFacts
<1> QED BY <1>2, <1>3, <1>4, <1>7, <1>8, <1>9 DEF IsReplaced

(* A task is at one stop only. *)
LEMMA OneStop ==
  ASSUME NEW p, NEW r, NEW s, GoodStops(p, r, s), NEW j \in 1..Len(s), NEW k \in 1..Len(s),
         NEW t, t \in Range(s[j].tasks), t \in Range(s[k].tasks)
  PROVE  j = k
<1>1. GoodStop(p, r, s[j]) /\ GoodStop(p, r, s[k]) /\ Apart(s)
  BY DEF GoodStops
<1>2. s[j].location = p.tasks[t].location /\ s[k].location = p.tasks[t].location
  BY <1>1 DEF GoodStop
<1> QED BY <1>1, <1>2 DEF Apart

LEMMA MergedGood ==
  ASSUME NEW p, IsProblem(p), NEW r \in DOMAIN p.robots, NEW route, GoodRoute(p, r, route),
         NEW i \in 1..Len(route.stops), NEW t, Suits(p, r, t),
         route.stops[i].location = p.tasks[t].location, ~On(route, t),
         NEW new, new = merged(route, i, t, p.tasks[t])
  PROVE  GoodRoute(p, r, new) /\ HasTask(p, new, route, t) /\ new.legs = route.legs
<1>1. PICK s \in Seq(StopsOn(p, r)) : s = route.stops
  BY GoodRouteFacts
<1>2. PICK x : x = s[i]
  OBVIOUS
<1>3. GoodStop(p, r, x)
  BY <1>1, <1>2 DEF GoodRoute, GoodStops
<1>4. PICK e : e = StopWith(p, x, t)
  OBVIOUS
<1>5. t \notin Range(x.tasks)
  BY <1>1, <1>2 DEF On
<1>6. GoodStop(p, r, e)
  BY <1>1, <1>2, <1>3, <1>4, <1>5, MergedStop
<1>7. e.location = x.location /\ e.tasks = Append(x.tasks, t) /\ e.service = x.service + p.tasks[t].service
  BY <1>4 DEF StopWith
<1>8. t \in DOMAIN p.tasks
  BY DEF Suits
<1>9. p.tasks[t].service \in Int /\ x.service \in Int /\ route.service \in Int
  <2>1. ServiceOf(p)[t] \in Int
    BY <1>8, ProblemFacts
  <2>2. ServiceOf(p)[t] = p.tasks[t].service
    BY <1>8 DEF ServiceOf
  <2>3. x.service \in Int
    BY <1>3, StopFacts
  <2>4. route.service \in Int
    BY GoodRouteFacts
  <2> QED BY <2>1, <2>2, <2>3, <2>4
<1>10. new = RouteFor(route, [s EXCEPT ![i] = e], route.service + p.tasks[t].service)
  <2>1. PICK ta, sv, tl, v :
          /\ ta = Append(x.tasks, t) /\ sv = x.service + p.tasks[t].service
          /\ tl = (IF p.tasks[t].tolerance > x.tolerance THEN p.tasks[t].tolerance
                   ELSE x.tolerance)
          /\ v = route.service + p.tasks[t].service
    OBVIOUS
  <2>2. new = StopChanged(route, i, ta, sv, tl, v)
    BY <1>1, <1>2, <2>1, Zenon DEF merged, StopChanged
  <2>3. IsStopRecord(x)
    <3>1. x \in StopsOn(p, r)
      BY <1>3 DEF GoodStop
    <3> QED BY <3>1 DEF StopsOn, Stops, IsStopRecord
  <2>4. IsRouteRecord(route)
    BY GoodRouteFacts, Zenon DEF IsRouteRecord
  <2>5. i \in DOMAIN route.stops
    BY <1>1
  <2>6. StopChanged(route, i, ta, sv, tl, v)
          = RouteFor(route, [s EXCEPT ![i] = [location |-> x.location, tasks |-> ta,
                                              service |-> sv, tolerance |-> tl]], v)
    <3>1. IsStopChange(route, i, ta, sv, tl, v)
      BY <1>1, <1>2, <2>3, <2>4, <2>5, ChangeFacts
    <3> QED BY <1>1, <1>2, <3>1, Zenon DEF IsStopChange, ChangedStops
  <2>7. e = [location |-> x.location, tasks |-> ta, service |-> sv, tolerance |-> tl]
    BY <1>4, <2>1, Zenon DEF StopWith
  <2> QED BY <2>1, <2>2, <2>6, <2>7, Zenon
<1>11. /\ GoodRoute(p, r, new) /\ new.legs = route.legs /\ new.stops = [s EXCEPT ![i] = e]
       /\ TaskCount(route) \in Int
       /\ TaskCount(new) = TaskCount(route) - Len(x.tasks) + Len(e.tasks)
  <2>1. route.service - x.service + e.service = route.service + p.tasks[t].service
    BY <1>7, <1>9
  <2>2. new = RouteFor(route, [route.stops EXCEPT ![i] = e],
                       route.service - route.stops[i].service + e.service)
    BY <1>1, <1>2, <1>10, <2>1
  <2>3. e.location = route.stops[i].location
    BY <1>1, <1>2, <1>7
  <2>4. IsReplaced(p, r, new, route, i, e)
    BY <1>6, <2>2, <2>3, StopReplaced
  <2> QED BY <1>1, <1>2, <2>4 DEF IsReplaced
<1>12. /\ Range(e.tasks) = Range(x.tasks) \cup {t}
       /\ Len(e.tasks) = Len(x.tasks) + 1 /\ Len(x.tasks) \in Int
  <2>1. AreDistinct(DOMAIN p.tasks, x.tasks)
    BY <1>3, StopFacts
  <2>2. HasOneMore(DOMAIN p.tasks, Append(x.tasks, t), x.tasks, t)
    BY <1>5, <1>8, <2>1, AppendedItems
  <2>3. x.tasks \in Seq(DOMAIN p.tasks)
    BY <2>1 DEF AreDistinct
  <2>4. Len(x.tasks) \in Int
    BY <2>3
  <2> QED BY <1>7, <2>2, <2>4 DEF HasOneMore
<1>13. \A u \in DOMAIN p.tasks : On(new, u) <=> On(route, u) \/ u = t
  <2> TAKE u \in DOMAIN p.tasks
  <2>1. PICK n \in Nat : n = Len(s) /\ i \in 1..n
    BY <1>1
  <2>2. PICK s2 : s2 = [s EXCEPT ![i] = e]
    OBVIOUS
  <2>3. Len(s2) = n /\ s2[i] = e /\ \A k \in 1..n : k # i => s2[k] = s[k]
    BY <2>1, <2>2
  <2>4. On(new, u) <=> \E k \in 1..n : u \in Range(s2[k].tasks)
    BY <1>11, <2>2, <2>3 DEF On
  <2>5. On(route, u) <=> \E k \in 1..n : u \in Range(s[k].tasks)
    BY <1>1, <2>1 DEF On
  <2> QED BY <1>2, <1>12, <2>1, <2>3, <2>4, <2>5
<1>14. HasTask(p, new, route, t)
  BY <1>11, <1>12, <1>13 DEF HasTask
<1> QED BY <1>11, <1>14

(* Which items are which, when one comes in. *)
AreInserted(s2, s, n, i, e) ==
  /\ \A k \in 1..(n + 1) :
       \/ k = i /\ s2[k] = e
       \/ k # i /\ \E m \in 1..n : s2[k] = s[m] /\ m = (IF k < i THEN k ELSE k - 1)
  /\ \A m \in 1..n : \E k \in 1..(n + 1) : k # i /\ s2[k] = s[m]

LEMMA InsertedItems ==
  ASSUME NEW S, NEW s \in Seq(S), NEW i \in 1..(Len(s) + 1), NEW e,
         NEW s2, IsInsertion(S, s2, s, i, e)
  PROVE  AreInserted(s2, s, Len(s), i, e)
<1> PICK n \in Nat : n = Len(s) /\ i \in 1..(n + 1)
  OBVIOUS
<1>1. /\ s2[i] = e /\ \A k \in 1..(i - 1) : s2[k] = s[k]
      /\ \A k \in i..n : s2[k + 1] = s[k]
  BY DEF IsInsertion
<1>2. ASSUME NEW k \in 1..(n + 1), k # i
      PROVE  \E m \in 1..n : s2[k] = s[m] /\ m = (IF k < i THEN k ELSE k - 1)
  <2>1. CASE k < i
    <3>1. k \in 1..(i - 1) /\ k \in 1..n
      BY <2>1
    <3> QED BY <1>1, <2>1, <3>1
  <2>2. CASE ~(k < i)
    <3>1. k - 1 \in i..n /\ k - 1 \in 1..n /\ (k - 1) + 1 = k
      BY <1>2, <2>2
    <3>2. s2[(k - 1) + 1] = s[k - 1]
      BY <1>1, <3>1
    <3> QED BY <2>2, <3>1, <3>2
  <2> QED BY <2>1, <2>2
<1>3. ASSUME NEW m \in 1..n
      PROVE  \E k \in 1..(n + 1) : k # i /\ s2[k] = s[m]
  <2>1. CASE m < i
    <3>1. m \in 1..(i - 1) /\ m \in 1..(n + 1) /\ m # i
      BY <2>1
    <3> QED BY <1>1, <3>1
  <2>2. CASE ~(m < i)
    <3>1. m \in i..n /\ m + 1 \in 1..(n + 1) /\ m + 1 # i
      BY <2>2
    <3> QED BY <1>1, <3>1
  <2> QED BY <2>1, <2>2
<1> QED BY <1>1, <1>2, <1>3 DEF AreInserted

OnStops(s, u) == \E k \in 1..Len(s) : u \in Range(s[k].tasks)

StopsGrow(p, r, s2, s, e) ==
  /\ GoodStops(p, r, s2)
  /\ \A u : OnStops(s2, u) <=> OnStops(s, u) \/ u \in Range(e.tasks)
  /\ SumOf(CountIn(p, r), s2) = SumOf(CountIn(p, r), s) + Len(e.tasks)

StopsShrink(p, r, s2, s, i) ==
  /\ GoodStops(p, r, s2)
  /\ \A u : OnStops(s2, u) <=> \E k \in 1..Len(s) : k # i /\ u \in Range(s[k].tasks)
  /\ SumOf(CountIn(p, r), s2) = SumOf(CountIn(p, r), s) - Len(s[i].tasks)

LEMMA StopsInserted ==
  ASSUME NEW p, NEW r, NEW s, GoodStops(p, r, s), NEW i \in 1..(Len(s) + 1), NEW e,
         GoodStop(p, r, e), \A k \in 1..Len(s) : s[k].location # e.location,
         NEW s2, IsInsertion(StopsOn(p, r), s2, s, i, e)
  PROVE  StopsGrow(p, r, s2, s, e)
<1>1. s \in Seq(StopsOn(p, r)) /\ Apart(s) /\ \A k \in 1..Len(s) : GoodStop(p, r, s[k])
  BY DEF GoodStops
<1>2. PICK n \in Nat : n = Len(s) /\ i \in 1..(n + 1)
  BY <1>1
<1>3. s2 \in Seq(StopsOn(p, r)) /\ Len(s2) = n + 1 /\ s2[i] = e
  BY <1>2 DEF IsInsertion
<1>4. /\ \A k \in 1..(n + 1) :
           \/ k = i /\ s2[k] = e
           \/ k # i /\ \E m \in 1..n : s2[k] = s[m] /\ m = (IF k < i THEN k ELSE k - 1)
      /\ \A m \in 1..n : \E k \in 1..(n + 1) : k # i /\ s2[k] = s[m]
  <2>1. AreInserted(s2, s, Len(s), i, e)
    BY <1>1, InsertedItems
  <2> QED BY <1>2, <2>1 DEF AreInserted
<1>5. Apart(s2)
  <2> SUFFICES ASSUME NEW j \in 1..(n + 1), NEW k \in 1..(n + 1), s2[j].location = s2[k].location
               PROVE  j = k
    BY <1>3 DEF Apart
  <2>1. CASE j = i
    <3>1. SUFFICES ASSUME k # i PROVE FALSE
      BY <2>1
    <3>2. PICK m \in 1..n : s2[k] = s[m]
      BY <1>4, <3>1
    <3> QED BY <1>2, <1>3, <2>1, <3>2
  <2>2. CASE k = i
    <3>1. SUFFICES ASSUME j # i PROVE FALSE
      BY <2>2
    <3>2. PICK m \in 1..n : s2[j] = s[m]
      BY <1>4, <3>1
    <3> QED BY <1>2, <1>3, <2>2, <3>2
  <2>3. CASE j # i /\ k # i
    <3>1. PICK x \in 1..n : s2[j] = s[x] /\ x = (IF j < i THEN j ELSE j - 1)
      BY <1>4, <2>3
    <3>2. PICK y \in 1..n : s2[k] = s[y] /\ y = (IF k < i THEN k ELSE k - 1)
      BY <1>4, <2>3
    <3>3. x = y
      BY <1>1, <1>2, <3>1, <3>2 DEF Apart
    <3> QED BY <1>2, <2>3, <3>1, <3>2, <3>3
  <2> QED BY <2>1, <2>2, <2>3
<1>6. \A k \in 1..(n + 1) : GoodStop(p, r, s2[k])
  <2> TAKE k \in 1..(n + 1)
  <2>1. CASE k = i
    BY <1>3, <2>1
  <2>2. CASE k # i
    <3>1. PICK m \in 1..n : s2[k] = s[m]
      BY <1>4, <2>2
    <3> QED BY <1>1, <1>2, <3>1
  <2> QED BY <2>1, <2>2
<1>7. ASSUME NEW u
      PROVE  OnStops(s2, u) <=> OnStops(s, u) \/ u \in Range(e.tasks)
  <2>1. OnStops(s2, u) <=> \E k \in 1..(n + 1) : u \in Range(s2[k].tasks)
    BY <1>3 DEF OnStops
  <2>2. OnStops(s, u) <=> \E k \in 1..n : u \in Range(s[k].tasks)
    BY <1>2 DEF OnStops
  <2>3. ASSUME NEW k \in 1..(n + 1), u \in Range(s2[k].tasks)
        PROVE  OnStops(s, u) \/ u \in Range(e.tasks)
    <3>1. CASE k = i
      BY <1>3, <2>3, <3>1
    <3>2. CASE k # i
      <4>1. PICK m \in 1..n : s2[k] = s[m]
        BY <1>4, <3>2
      <4> QED BY <2>2, <2>3, <4>1
    <3> QED BY <3>1, <3>2
  <2>4. ASSUME NEW m \in 1..n, u \in Range(s[m].tasks)
        PROVE  OnStops(s2, u)
    <3>1. PICK k \in 1..(n + 1) : s2[k] = s[m]
      BY <1>4
    <3> QED BY <2>1, <2>4, <3>1
  <2>5. u \in Range(e.tasks) => OnStops(s2, u)
    BY <1>2, <1>3, <2>1
  <2> QED BY <2>1, <2>2, <2>3, <2>4, <2>5
<1>8. SumOf(CountIn(p, r), s2) = SumOf(CountIn(p, r), s) + Len(e.tasks)
  <2>1. PICK f \in [StopsOn(p, r) -> Int] : f = CountIn(p, r)
    BY CountFacts
  <2>2. e \in StopsOn(p, r)
    BY DEF GoodStop
  <2>3. SumOf(f, s2) = SumOf(f, s) + f[e]
    <3>1. GrowsBy(f, s2, s, e)
      BY <1>1, <2>2, SumInserted
    <3> QED BY <3>1 DEF GrowsBy
  <2>4. f[e] = Len(e.tasks)
    BY <2>1, <2>2, CountFacts
  <2> QED BY <2>1, <2>3, <2>4
<1> QED BY <1>3, <1>5, <1>6, <1>7, <1>8 DEF GoodStops, StopsGrow

LEMMA InsertedGood ==
  ASSUME NEW p, IsProblem(p), NEW r \in DOMAIN p.robots, NEW route, GoodRoute(p, r, route),
         NEW i \in 1..(Len(route.stops) + 1), NEW t, Suits(p, r, t),
         \A k \in 1..Len(route.stops) : route.stops[k].location # p.tasks[t].location,
         NEW new, new = inserted(p.robots[r], route, i, StopFor(p.tasks[t], t))
  PROVE  GoodRoute(p, r, new) /\ HasTask(p, new, route, t)
<1>1. PICK P, T, b : P = PlacesOf(p, r) /\ T = DOMAIN p.tasks /\ b = p.robots[r]
  OBVIOUS
<1>2. PICK s \in Seq(StopsOn(p, r)) : s = route.stops
  BY GoodRouteFacts
<1>3. PICK e : e = StopFor(p.tasks[t], t)
  OBVIOUS
<1>4. GoodStop(p, r, e) /\ e.location = p.tasks[t].location /\ e.tasks = <<t>>
  <2>1. e.location = p.tasks[t].location /\ e.tasks = <<t>>
    BY <1>3 DEF StopFor
  <2> QED BY <1>3, <2>1, NewStop
<1>5. Range(e.tasks) = {t} /\ Len(e.tasks) = 1
  BY <1>4 DEF Range
<1>6. PICK s2 : s2 = InsertAt(s, i, e)
  OBVIOUS
<1>7. Exact(P, T, b, new) /\ new.stops = s2
  <2>1. IsRobot(b, P)
    BY <1>1, ProblemFacts
  <2>2. Exact(P, T, b, route)
    BY <1>1 DEF GoodRoute
  <2>3. e \in Stops(P, T)
    BY <1>1, <1>4 DEF GoodStop, StopsOn
  <2>4. Exact(P, T, b, inserted(b, route, i, e)) /\ inserted(b, route, i, e).stops = InsertAt(route.stops, i, e)
    BY <2>1, <2>2, <2>3, InsertedExact
  <2> QED BY <1>1, <1>2, <1>3, <1>6, <2>4
<1>8. IsInsertion(StopsOn(p, r), s2, s, i, e)
  <2>1. e \in StopsOn(p, r)
    BY <1>4 DEF GoodStop
  <2> QED BY <1>2, <1>6, <2>1, InsertFacts
<1>9. /\ GoodStops(p, r, s2)
      /\ \A u : OnStops(s2, u) <=> OnStops(s, u) \/ u \in Range(e.tasks)
      /\ SumOf(CountIn(p, r), s2) = SumOf(CountIn(p, r), s) + Len(e.tasks)
  <2>1. GoodStops(p, r, s)
    BY <1>2 DEF GoodRoute
  <2>2. i \in 1..(Len(s) + 1) /\ \A k \in 1..Len(s) : s[k].location # e.location
    BY <1>2, <1>4
  <2>3. StopsGrow(p, r, s2, s, e)
    BY <1>4, <1>8, <2>1, <2>2, StopsInserted
  <2> QED BY <2>3 DEF StopsGrow
<1>10. GoodRoute(p, r, new)
  BY <1>1, <1>7, <1>9 DEF GoodRoute
<1>11. TaskCount(route) \in Int /\ TaskCount(new) = TaskCount(route) + 1
  <2>1. /\ TaskCount(route) = SumOf(CountIn(p, r), s) /\ TaskCount(route) \in Int
        /\ TaskCount(new) = SumOf(CountIn(p, r), s2)
    BY <1>2, <1>7, <1>10, GoodRouteFacts
  <2> QED BY <1>5, <1>9, <2>1
<1>12. \A u \in DOMAIN p.tasks : On(new, u) <=> On(route, u) \/ u = t
  BY <1>2, <1>5, <1>7, <1>9 DEF On, OnStops
<1> QED BY <1>10, <1>11, <1>12 DEF HasTask

LEMMA StopsRemoved ==
  ASSUME NEW p, NEW r, NEW s, GoodStops(p, r, s), NEW i \in 1..Len(s),
         NEW s2, IsRemoval(StopsOn(p, r), s2, s, i)
  PROVE  StopsShrink(p, r, s2, s, i)
<1>1. s \in Seq(StopsOn(p, r)) /\ Apart(s) /\ \A k \in 1..Len(s) : GoodStop(p, r, s[k])
  BY DEF GoodStops
<1>2. PICK n \in Nat : n = Len(s) - 1 /\ Len(s) = n + 1 /\ i \in 1..(n + 1)
  <2>1. Len(s) \in Nat /\ Len(s) >= 1
    BY <1>1
  <2> QED BY <2>1
<1>3. s2 \in Seq(StopsOn(p, r)) /\ Len(s2) = n
  BY <1>2 DEF IsRemoval
<1>4. /\ \A k \in 1..(n + 1) :
           \/ k = i /\ s[k] = s[i]
           \/ k # i /\ \E m \in 1..n : s[k] = s2[m] /\ m = (IF k < i THEN k ELSE k - 1)
      /\ \A m \in 1..n : \E k \in 1..(n + 1) : k # i /\ s[k] = s2[m]
  <2>1. i \in 1..(Len(s2) + 1) /\ IsInsertion(StopsOn(p, r), s, s2, i, s[i])
    BY <1>1, RemovalIsInsertion
  <2>2. AreInserted(s, s2, Len(s2), i, s[i])
    BY <1>3, <2>1, InsertedItems
  <2> QED BY <1>3, <2>2 DEF AreInserted
<1>5. \A m \in 1..n : \E k \in 1..(n + 1) : k # i /\ s[k] = s2[m] /\ m = (IF k < i THEN k ELSE k - 1)
  <2> TAKE m \in 1..n
  <2>1. /\ \A k \in 1..(i - 1) : s2[k] = s[k]
        /\ \A k \in i..n : s2[k] = s[k + 1]
    BY <1>2 DEF IsRemoval
  <2>2. CASE m < i
    <3>1. m \in 1..(i - 1) /\ m \in 1..(n + 1) /\ m # i
      BY <1>2, <2>2
    <3> QED BY <2>1, <2>2, <3>1
  <2>3. CASE ~(m < i)
    <3>1. m \in i..n /\ m + 1 \in 1..(n + 1) /\ m + 1 # i /\ ~(m + 1 < i) /\ m = (m + 1) - 1
      BY <1>2, <2>3
    <3>2. s2[m] = s[m + 1]
      BY <2>1, <3>1
    <3> QED BY <3>1, <3>2
  <2> QED BY <2>2, <2>3
<1>6. Apart(s2)
  <2> SUFFICES ASSUME NEW j \in 1..n, NEW k \in 1..n, s2[j].location = s2[k].location
               PROVE  j = k
    BY <1>3 DEF Apart
  <2>1. PICK x \in 1..(n + 1) : s[x] = s2[j] /\ j = (IF x < i THEN x ELSE x - 1)
    BY <1>5
  <2>2. PICK y \in 1..(n + 1) : s[y] = s2[k] /\ k = (IF y < i THEN y ELSE y - 1)
    BY <1>5
  <2>3. x = y
    BY <1>1, <1>2, <2>1, <2>2 DEF Apart
  <2> QED BY <2>1, <2>2, <2>3
<1>7. \A k \in 1..n : GoodStop(p, r, s2[k])
  <2> TAKE k \in 1..n
  <2>1. PICK m \in 1..(n + 1) : s[m] = s2[k]
    BY <1>4
  <2> QED BY <1>1, <1>2, <2>1
<1>8. ASSUME NEW u
      PROVE  OnStops(s2, u) <=> \E k \in 1..Len(s) : k # i /\ u \in Range(s[k].tasks)
  <2>1. OnStops(s2, u) <=> \E k \in 1..n : u \in Range(s2[k].tasks)
    BY <1>3 DEF OnStops
  <2>2. ASSUME NEW m \in 1..n, u \in Range(s2[m].tasks)
        PROVE  \E k \in 1..(n + 1) : k # i /\ u \in Range(s[k].tasks)
    <3>1. PICK k \in 1..(n + 1) : k # i /\ s[k] = s2[m]
      BY <1>4
    <3> QED BY <2>2, <3>1
  <2>3. ASSUME NEW k \in 1..(n + 1), k # i, u \in Range(s[k].tasks)
        PROVE  \E m \in 1..n : u \in Range(s2[m].tasks)
    <3>1. PICK m \in 1..n : s[k] = s2[m]
      BY <1>4, <2>3
    <3> QED BY <2>3, <3>1
  <2> QED BY <1>2, <2>1, <2>2, <2>3
<1>9. SumOf(CountIn(p, r), s2) = SumOf(CountIn(p, r), s) - Len(s[i].tasks)
  <2>1. PICK f \in [StopsOn(p, r) -> Int] : f = CountIn(p, r)
    BY CountFacts
  <2>2. SumOf(f, s2) = SumOf(f, s) - f[s[i]]
    BY <1>1, SumRemoved
  <2>3. f[s[i]] = Len(s[i].tasks)
    BY <1>1, <2>1, CountFacts
  <2> QED BY <2>1, <2>2, <2>3
<1> QED BY <1>3, <1>6, <1>7, <1>8, <1>9 DEF GoodStops, StopsShrink

LEMMA RemovedGood ==
  ASSUME NEW p, IsProblem(p), NEW r \in DOMAIN p.robots, NEW route, GoodRoute(p, r, route),
         NEW t, On(route, t), NEW new, new = removed(p.robots[r], route, t, p.tasks)
  PROVE  GoodRoute(p, r, new) /\ LacksTask(p, new, route, t)
<1>1. PICK P, T, b : P = PlacesOf(p, r) /\ T = DOMAIN p.tasks /\ b = p.robots[r]
  OBVIOUS
<1>2. PICK s \in Seq(StopsOn(p, r)) : s = route.stops
  BY GoodRouteFacts
<1>3. PICK i \in 1..Len(s) : i = StopOf(route, t) /\ t \in Range(s[i].tasks)
  <2>1. PICK j \in 1..Len(s) : t \in Range(s[j].tasks)
    BY <1>2 DEF On
  <2>2. j \in DOMAIN route.stops /\ t \in Range(route.stops[j].tasks)
    BY <1>2, <2>1
  <2>3. StopOf(route, t) \in DOMAIN route.stops /\ t \in Range(route.stops[StopOf(route, t)].tasks)
    BY <2>2, Zenon DEF StopOf
  <2>4. DOMAIN s = 1..Len(s)
    OBVIOUS
  <2> QED BY <1>2, <2>3, <2>4
<1>4. PICK x : x = s[i]
  OBVIOUS
<1>5. GoodStops(p, r, s) /\ GoodStop(p, r, x)
  BY <1>2, <1>4 DEF GoodRoute, GoodStops
<1>6. AreDistinct(T, x.tasks) /\ x.service \in Int /\ x.tasks \in Seq(T)
  BY <1>1, <1>5, StopFacts DEF AreDistinct
<1>7. PICK k \in 1..Len(x.tasks) :
        k = (CHOOSE n \in DOMAIN x.tasks : x.tasks[n] = t) /\ x.tasks[k] = t
  <2>1. PICK j \in DOMAIN x.tasks : x.tasks[j] = t
    BY <1>3, <1>4 DEF Range
  <2>2. PICK k : k = CHOOSE n \in DOMAIN x.tasks : x.tasks[n] = t
    OBVIOUS
  <2>3. k \in DOMAIN x.tasks /\ x.tasks[k] = t
    BY <2>1, <2>2, Zenon
  <2>4. DOMAIN x.tasks = 1..Len(x.tasks)
    BY <1>6
  <2> QED BY <2>2, <2>3, <2>4
<1>8. PICK left : left = RemoveAt(x.tasks, k)
  OBVIOUS
<1>9. /\ HasOneLess(T, left, x.tasks, k) /\ t \in T /\ Range(left) = Range(x.tasks) \ {t}
      /\ Len(left) = Len(x.tasks) - 1 /\ Len(x.tasks) \in Int
  <2>1. HasOneLess(T, left, x.tasks, k)
    BY <1>6, <1>8, RemovedItems
  <2>2. Len(x.tasks) \in Int
    BY <1>6
  <2> QED BY <1>7, <2>1, <2>2 DEF HasOneLess, IsRemoval
<1>10. PICK rest : rest = Unserved(route, p.tasks[t].service)
  OBVIOUS
<1>11. /\ IsRobot(b, P) /\ Exact(P, T, b, route)
       /\ TaskCount(route) = SumOf(CountIn(p, r), s) /\ TaskCount(route) \in Int
       /\ route.service \in Int
  BY <1>1, <1>2, GoodRouteFacts DEF GoodRoute
<1>12. CASE left = <<>>
  <2>1. /\ x.service = p.tasks[t].service /\ Range(x.tasks) = {t} /\ Len(x.tasks) = 1
    <3>1. RemoveAt(x.tasks, k) = <<>>
      BY <1>8, <1>12
    <3>2. /\ x.service = p.tasks[x.tasks[k]].service
          /\ Range(x.tasks) = {x.tasks[k]} /\ Len(x.tasks) = 1
      BY <1>5, <3>1, LoneStop
    <3> QED BY <1>7, <3>2
  <2>2. new = WithoutStop(b, rest, i)
    BY <1>1, <1>2, <1>3, <1>4, <1>7, <1>8, <1>10, <1>12, Zenon DEF removed, Unserved
  <2>3. PICK s2 : s2 = RemoveAt(s, i)
    OBVIOUS
  <2>4. Exact(P, T, b, new) /\ new.stops = s2
    <3>1. rest = Unserved(route, route.stops[i].service) /\ i \in 1..Len(route.stops)
      BY <1>2, <1>4, <1>10, <2>1
    <3>2. Exact(P, T, b, WithoutStop(b, rest, i)) /\ WithoutStop(b, rest, i).stops = RemoveAt(route.stops, i)
      <4>1. IsWithout(P, T, b, route, rest, i)
        BY <1>11, <3>1, WithoutExact
      <4> QED BY <4>1 DEF IsWithout
    <3> QED BY <1>2, <2>2, <2>3, <3>2
  <2>5. StopsShrink(p, r, s2, s, i)
    <3>1. IsRemoval(StopsOn(p, r), s2, s, i)
      BY <2>3, RemoveFacts
    <3> QED BY <1>5, <3>1, StopsRemoved
  <2>6. GoodRoute(p, r, new)
    BY <1>1, <2>4, <2>5 DEF GoodRoute, StopsShrink
  <2>7. TaskCount(new) = TaskCount(route) - 1
    <3>1. TaskCount(new) = SumOf(CountIn(p, r), s2)
      BY <2>4, <2>6, GoodRouteFacts
    <3> QED BY <1>4, <1>11, <2>1, <2>5, <3>1 DEF StopsShrink
  <2>8. \A u \in DOMAIN p.tasks : On(new, u) <=> On(route, u) /\ u # t
    <3> TAKE u \in DOMAIN p.tasks
    <3>1. On(new, u) <=> \E m \in 1..Len(s) : m # i /\ u \in Range(s[m].tasks)
      BY <2>4, <2>5 DEF On, OnStops, StopsShrink
    <3>2. On(route, u) <=> \E m \in 1..Len(s) : u \in Range(s[m].tasks)
      BY <1>2 DEF On
    <3>3. \A m \in 1..Len(s) : t \in Range(s[m].tasks) => m = i
      BY <1>3, <1>5, OneStop
    <3>4. u \in Range(s[i].tasks) => u = t
      BY <1>4, <2>1
    <3> QED BY <3>1, <3>2, <3>3, <3>4
  <2> QED BY <1>11, <2>6, <2>7, <2>8 DEF LacksTask
<1>13. CASE left # <<>>
  <2>1. PICK e : e = StopLess(p, x, left, t)
    OBVIOUS
  <2>2. GoodStop(p, r, e)
    BY <1>5, <1>7, <1>8, <1>13, <2>1, LessStop
  <2>3. e.location = x.location /\ e.tasks = left /\ e.service = x.service - p.tasks[t].service
    BY <2>1 DEF StopLess
  <2>4. PICK sv, tl : sv = x.service - p.tasks[t].service
                      /\ tl = Greatest({p.tasks[u].tolerance : u \in Range(left)})
    OBVIOUS
  <2>5. rest.stops = s /\ rest.service = route.service - p.tasks[t].service
        /\ rest.legs = route.legs /\ rest.travel = route.travel /\ IsRouteRecord(rest)
    <3>1. route = [stops |-> route.stops, legs |-> route.legs,
                   travel |-> route.travel, service |-> route.service]
      BY GoodRouteFacts
    <3>2. rest = [stops |-> s, legs |-> route.legs,
                  travel |-> route.travel, service |-> route.service - p.tasks[t].service]
      BY <1>2, <1>10, <3>1 DEF Unserved
    <3> QED BY <3>2 DEF IsRouteRecord
  <2>6. new = StopFields(rest, i, left, sv, tl)
    <3>1. new = [rest EXCEPT !.stops[i].tasks = left,
                             !.stops[i].service = rest.stops[i].service - p.tasks[t].service,
                             !.stops[i].tolerance = tl]
      BY <1>1, <1>2, <1>3, <1>4, <1>7, <1>8, <1>10, <1>13, <2>4, Zenon DEF removed, Unserved
    <3> QED BY <1>4, <2>4, <2>5, <3>1, Zenon DEF StopFields
  <2>7. new = RouteFor(rest, [s EXCEPT ![i] = e], rest.service)
    <3>1. IsStopRecord(x)
      <4>1. x \in StopsOn(p, r)
        BY <1>5 DEF GoodStop
      <4> QED BY <4>1 DEF StopsOn, Stops, IsStopRecord
    <3>2. i \in DOMAIN rest.stops /\ rest.stops[i] = x
      BY <1>4, <2>5
    <3>3. IsStopChange(rest, i, left, sv, tl, 0)
      BY <2>5, <3>1, <3>2, ChangeFacts
    <3>4. ChangedStops(rest, i, left, sv, tl) = [s EXCEPT ![i] = e]
      BY <1>4, <2>1, <2>4, <2>5, Zenon DEF ChangedStops, StopLess
    <3> QED BY <2>6, <3>3, <3>4, Zenon DEF IsStopChange
  <2>8. new = RouteFor(route, [route.stops EXCEPT ![i] = e],
                       route.service - route.stops[i].service + e.service)
    <3>1. p.tasks[t].service \in Int
      <4>1. ServiceOf(p)[t] \in Int /\ ServiceOf(p)[t] = p.tasks[t].service
        BY <1>1, <1>9, ProblemFacts DEF ServiceOf
      <4> QED BY <4>1
    <3>2. route.service - x.service + e.service = rest.service
      BY <1>6, <1>11, <2>3, <2>5, <3>1
    <3>3. new = RouteFor(route, [s EXCEPT ![i] = e], rest.service)
      BY <2>5, <2>7, Zenon DEF RouteFor
    <3> QED BY <1>2, <1>4, <3>2, <3>3
  <2>9. /\ GoodRoute(p, r, new) /\ new.stops = [s EXCEPT ![i] = e]
        /\ TaskCount(new) = TaskCount(route) - Len(x.tasks) + Len(left)
    <3>1. e.location = route.stops[i].location /\ i \in 1..Len(route.stops)
      BY <1>2, <1>4, <2>3
    <3>2. /\ GoodRoute(p, r, new) /\ new.stops = [route.stops EXCEPT ![i] = e]
          /\ TaskCount(new) = TaskCount(route) - Len(route.stops[i].tasks) + Len(e.tasks)
      <4>1. IsReplaced(p, r, new, route, i, e)
        BY <2>2, <2>8, <3>1, StopReplaced
      <4> QED BY <4>1 DEF IsReplaced
    <3> QED BY <1>2, <1>4, <2>3, <3>2
  <2>10. TaskCount(new) = TaskCount(route) - 1
    BY <1>9, <1>11, <2>9
  <2>11. \A u \in DOMAIN p.tasks : On(new, u) <=> On(route, u) /\ u # t
    <3> TAKE u \in DOMAIN p.tasks
    <3>1. PICK n \in Nat : n = Len(s) /\ i \in 1..n
      BY <1>3
    <3>2. PICK s2 : s2 = [s EXCEPT ![i] = e]
      OBVIOUS
    <3>3. Len(s2) = n /\ s2[i] = e /\ \A m \in 1..n : m # i => s2[m] = s[m]
      BY <3>1, <3>2
    <3>4. On(new, u) <=> \E m \in 1..n : u \in Range(s2[m].tasks)
      BY <2>9, <3>2, <3>3 DEF On
    <3>5. On(route, u) <=> \E m \in 1..n : u \in Range(s[m].tasks)
      BY <1>2, <3>1 DEF On
    <3>6. \A m \in 1..n : t \in Range(s[m].tasks) => m = i
      BY <1>3, <1>5, <3>1, OneStop
    <3>7. u \in Range(s2[i].tasks) <=> u \in Range(s[i].tasks) /\ u # t
      BY <1>4, <1>9, <2>3, <3>3
    <3> QED BY <3>1, <3>3, <3>4, <3>5, <3>6, <3>7
  <2> QED BY <1>11, <2>9, <2>10, <2>11 DEF LacksTask
<1> QED BY <1>12, <1>13

(* What inserting a task in a good route gives, wherever it is put.         *)
IsTaken(p, r, new, route, t) == GoodRoute(p, r, new) /\ HasTask(p, new, route, t)

LEMMA WithGood ==
  ASSUME IsProblem(problem), NEW r \in Robots, NEW route, GoodRoute(problem, r, route),
         NEW t, Suits(problem, r, t), ~On(route, t), NEW i \in Positions(route, t)
  PROVE  IsTaken(problem, r, With(r, route, t, i), route, t)
<1>1. PICK s \in Seq(StopsOn(problem, r)) : s = route.stops
  BY GoodRouteFacts DEF Robots
<1>2. PICK n \in Nat : n = Len(s) /\ DOMAIN s = 1..n
  BY <1>1
<1>3. PICK A \in SUBSET (1..n) : A = Stopping(route, t)
  BY <1>1, <1>2 DEF Stopping
<1>4. r \in DOMAIN problem.robots
  BY DEF Robots
<1>5. CASE A # {}
  <2>1. i \in A
    <3>1. A \in SUBSET Int /\ 0 \in Int /\ \A k \in A : 0 <= k
      BY <1>3
    <3>2. Min(A) \in A
      BY <1>5, <3>1, MinIsLeast
    <3> QED BY <1>3, <1>5, <3>2 DEF Positions
  <2>2. i \in 1..Len(route.stops) /\ route.stops[i].location = problem.tasks[t].location
    BY <1>1, <1>2, <1>3, <2>1 DEF Stopping
  <2>3. With(r, route, t, i) = merged(route, i, t, problem.tasks[t])
    BY <1>3, <1>5, Zenon DEF With
  <2> QED BY <1>4, <2>2, <2>3, MergedGood DEF IsTaken
<1>6. CASE A = {}
  <2>1. i \in 1..(Len(route.stops) + 1)
    BY <1>3, <1>6 DEF Positions
  <2>2. \A k \in 1..Len(route.stops) : route.stops[k].location # problem.tasks[t].location
    BY <1>1, <1>2, <1>3, <1>6 DEF Stopping
  <2>3. With(r, route, t, i) = inserted(problem.robots[r], route, i, StopFor(problem.tasks[t], t))
    BY <1>3, <1>6, Zenon DEF With
  <2> QED BY <1>4, <2>1, <2>2, <2>3, InsertedGood DEF IsTaken
<1> QED BY <1>5, <1>6
-----------------------------------------------------------------------------
(* Loads.                                                                   *)
GoodRoutes(p, rs) ==
  DOMAIN rs = DOMAIN p.robots /\ \A r \in DOMAIN p.robots : GoodRoute(p, r, rs[r])

AreLoads(p, rs, loads) ==
  /\ loads = Loads(rs) /\ loads \in Seq(Int) /\ Len(loads) = Len(p.robots)
  /\ DOMAIN p.robots = 1..Len(p.robots)
  /\ \A r \in DOMAIN p.robots : loads[r] = LoadOf(rs[r])

LEMMA LoadsFacts ==
  ASSUME NEW p, IsProblem(p), NEW rs, GoodRoutes(p, rs)
  PROVE  /\ AreLoads(p, rs, Loads(rs))
         /\ MaximumLoad(rs) \in Nat /\ TotalLoad(rs) \in Int
<1>1. PICK n \in Nat : n = Len(p.robots) /\ DOMAIN p.robots = 1..n
  BY Zenon DEF IsProblem
<1>2. DOMAIN rs = 1..n /\ \A r \in 1..n : GoodRoute(p, r, rs[r])
  BY <1>1 DEF GoodRoutes
<1>3. \A r \in 1..n : LoadOf(rs[r]) \in Int
  <2> TAKE r \in 1..n
  <2>1. rs[r].travel \in Int /\ rs[r].service \in Int
    BY <1>1, <1>2, GoodRouteFacts
  <2> QED BY <2>1 DEF LoadOf
<1>4. PICK loads : loads = [r \in 1..n |-> LoadOf(rs[r])]
  OBVIOUS
<1>5. loads = Loads(rs)
  BY <1>2, <1>4 DEF Loads
<1>6. loads \in [1..n -> Int] /\ \A r \in 1..n : loads[r] = LoadOf(rs[r])
  BY <1>3, <1>4
<1>7. loads \in Seq(Int) /\ Len(loads) = n
  BY <1>6
<1>8. AreLoads(p, rs, Loads(rs))
  BY <1>1, <1>5, <1>6, <1>7 DEF AreLoads
<1>9. MaximumLoad(rs) \in Nat
  <2>1. IsFiniteSet(Range(loads)) /\ Range(loads) \in SUBSET Int
    BY <1>7, FiniteItems
  <2>2. Greatest(Range(loads)) \in Nat
    BY <2>1, GreatestFacts
  <2> QED BY <1>5, <2>2, Zenon DEF MaximumLoad
<1>10. TotalLoad(rs) \in Int
  BY <1>5, <1>7, TotalIsInt DEF TotalLoad
<1> QED BY <1>8, <1>9, <1>10

LEMMA LoadNotNegative ==
  ASSUME NEW p, IsProblem(p), NEW r \in DOMAIN p.robots, NEW route, GoodRoute(p, r, route),
         Passable(route)
  PROVE  LoadOf(route) \in Nat
<1>1. PICK P, T, b : P = PlacesOf(p, r) /\ T = DOMAIN p.tasks /\ b = p.robots[r]
  OBVIOUS
<1>2. IsRobot(b, P) /\ Exact(P, T, b, route)
  BY <1>1, ProblemFacts DEF GoodRoute
<1>3. PICK s \in Seq(Stops(P, T)) : s = route.stops
  BY <1>2, ExactFacts
<1>4. PICK L \in Seq(Int) : L = route.legs /\ AreLegs(b, s, L)
  <2>1. AreLegs(b, route.stops, route.legs)
    BY <1>2, ExactFacts
  <2>2. route.legs \in Seq(Int)
    BY <2>1 DEF AreLegs
  <2> QED BY <1>3, <2>1, <2>2
<1>5. \A x, y \in P : Leg(b, x, y) \in Nat \cup {NoPath}
  BY <1>1, Zenon DEF IsProblem
<1>6. L \in Seq(Nat)
  <2>1. PICK m \in Nat : m = Len(L) /\ DOMAIN L = 1..m
    BY <1>4
  <2>2. \A k \in 1..m : L[k] \in Nat
    <3> TAKE k \in 1..m
    <3>1. m = LegCount(b, s) /\ k \in 1..LegCount(b, s)
          /\ L[k] = Leg(b, PlaceBefore(b, s, k), PlaceAt(b, s, k))
      BY <1>4, <2>1 DEF AreLegs
    <3>2. k \in 1..(Len(s) + 1)
      <4>1. Len(s) \in Nat
        BY <1>3
      <4> QED BY <3>1, <4>1 DEF LegCount
    <3>3. PlaceBefore(b, s, k) \in P /\ PlaceAt(b, s, k) \in P
      BY <1>2, <1>3, <3>1, <3>2, PlacesFit
    <3>4. L[k] # NoPath
      BY <1>4, <2>1 DEF Passable, Range
    <3> QED BY <1>5, <3>1, <3>3, <3>4
  <2>3. L \in [1..m -> Nat]
    BY <1>4, <2>1, <2>2
  <2> QED BY <2>3
<1>7. route.travel \in Nat
  BY <1>2, <1>4, <1>6, ExactFacts, TotalNotNegative
<1>8. PICK f \in [Stops(P, T) -> Int] : f = ServiceIn(P, T)
  BY ServiceFacts
<1>9. PICK g : g = Images(f, s)
  OBVIOUS
<1>10. g \in Seq(Nat)
  <2>1. AreImages(Int, g, f, s)
    BY <1>3, <1>9, ImageFacts
  <2>2. PICK m \in Nat : m = Len(g) /\ DOMAIN g = 1..m /\ m = Len(s) /\ g \in Seq(Int)
    BY <2>1 DEF AreImages
  <2>3. \A k \in 1..m : g[k] \in Nat
    <3> TAKE k \in 1..m
    <3>1. GoodStop(p, r, s[k])
      BY <1>3, <2>2 DEF GoodRoute, GoodStops
    <3>2. s[k].tasks \in Seq(T) /\ s[k].service = SumOf(ServiceOf(p), s[k].tasks)
      BY <1>1, <3>1, StopFacts DEF AreDistinct
    <3>3. ServiceOf(p) \in [T -> Nat]
      BY <1>1, ProblemFacts
    <3>4. s[k].service \in Nat
      BY <3>2, <3>3, SumNotNegative
    <3>5. g[k] = s[k].service
      <4>1. s[k] \in Stops(P, T)
        BY <1>3, <2>2
      <4> QED BY <1>8, <2>1, <2>2, <4>1, ServiceFacts DEF AreImages
    <3> QED BY <3>4, <3>5
  <2>4. g \in [1..m -> Nat]
    BY <2>2, <2>3
  <2> QED BY <2>4
<1>11. route.service \in Nat
  <2>1. Total(g) \in Nat
    BY <1>10, TotalNotNegative
  <2>2. route.service = SumOf(f, s)
    BY <1>2, <1>3, <1>8, ExactFacts
  <2> QED BY <1>9, <2>1, <2>2, Zenon DEF SumOf
<1> QED BY <1>7, <1>11 DEF LoadOf
-----------------------------------------------------------------------------
(* The order that decides between candidates has a first one.               *)
LEMMA LexTotal ==
  ASSUME NEW n \in Nat, NEW a \in [1..n -> Int], NEW b \in [1..n -> Int], a # b
  PROVE  LexLess(a, b) \/ LexLess(b, a)
<1>1. PICK D \in SUBSET Nat : D = {i \in 1..n : a[i] # b[i]}
  <2>1. {i \in 1..n : a[i] # b[i]} \in SUBSET Nat
    OBVIOUS
  <2> QED BY <2>1
<1>2. D # {}
  <2>1. a = [i \in 1..n |-> a[i]] /\ b = [i \in 1..n |-> b[i]]
    OBVIOUS
  <2>2. ASSUME D = {}
        PROVE  FALSE
    <3>1. \A i \in 1..n : a[i] = b[i]
      BY <1>1, <2>2
    <3>2. [i \in 1..n |-> a[i]] = [i \in 1..n |-> b[i]]
      BY <3>1, Zenon
    <3> QED BY <2>1, <3>2, Zenon
  <2> QED BY <2>2
<1>3. PICK i \in D : \A j \in D : i <= j
  BY <1>2, LeastNatural
<1>4. i \in 1..n /\ a[i] # b[i] /\ \A j \in 1..n : j < i => a[j] = b[j]
  BY <1>1, <1>3
<1>5. a[i] < b[i] \/ b[i] < a[i]
  BY <1>4
<1>6. DOMAIN a = 1..n /\ DOMAIN b = 1..n
  OBVIOUS
<1> QED BY <1>4, <1>5, <1>6 DEF LexLess

LEMMA LexTransitive ==
  ASSUME NEW n \in Nat, NEW a \in [1..n -> Int], NEW b \in [1..n -> Int], NEW c \in [1..n -> Int],
         LexLess(a, b), LexLess(b, c)
  PROVE  LexLess(a, c)
<1>1. PICK i \in 1..n : a[i] < b[i] /\ \A j \in 1..n : j < i => a[j] = b[j]
  BY DEF LexLess
<1>2. PICK k \in 1..n : b[k] < c[k] /\ \A j \in 1..n : j < k => b[j] = c[j]
  BY DEF LexLess
<1>3. PICK m \in 1..n : m = (IF i < k THEN i ELSE k)
  BY <1>1, <1>2
<1>4. a[m] < c[m]
  <2>1. a[m] \in Int /\ b[m] \in Int /\ c[m] \in Int
    BY <1>3
  <2>2. CASE i < k
    BY <1>1, <1>2, <1>3, <2>1, <2>2
  <2>3. CASE i = k
    BY <1>1, <1>2, <1>3, <2>1, <2>3
  <2>4. CASE k < i
    BY <1>1, <1>2, <1>3, <2>1, <2>4
  <2> QED BY <2>2, <2>3, <2>4
<1>5. \A j \in 1..n : j < m => a[j] = c[j]
  <2> TAKE j \in 1..n
  <2> HAVE j < m
  <2>1. j < i /\ j < k
    BY <1>3
  <2> QED BY <1>1, <1>2, <2>1
<1>6. DOMAIN a = 1..n
  OBVIOUS
<1> QED BY <1>3, <1>4, <1>5, <1>6 DEF LexLess

LEMMA FirstIsThere ==
  ASSUME NEW n \in Nat, NEW K \in SUBSET [1..n -> Int], IsFiniteSet(K), K # {}
  PROVE  First(K) \in K /\ \A o \in K \ {First(K)} : LexLess(First(K), o)
<1> DEFINE Below(k) == {o \in K : LexLess(o, k)}
<1>1. \A k \in K : IsFiniteSet(Below(k)) /\ Cardinality(Below(k)) \in Nat
  BY FS_Subset, FS_CardinalityType
<1>2. PICK C \in SUBSET Nat : C = {Cardinality(Below(k)) : k \in K}
  <2>1. {Cardinality(Below(k)) : k \in K} \in SUBSET Nat
    BY <1>1
  <2> QED BY <2>1
<1>3. C # {}
  BY <1>2
<1>4. PICK c \in C : \A d \in C : c <= d
  BY <1>3, LeastNatural
<1>5. PICK k \in K : c = Cardinality(Below(k))
  BY <1>2, <1>4
<1>6. \A o \in K \ {k} : LexLess(k, o)
  <2> SUFFICES ASSUME NEW o \in K, o # k, ~LexLess(k, o)
               PROVE  FALSE
    OBVIOUS
  <2>1. LexLess(o, k)
    BY LexTotal
  <2>2. Below(o) \in SUBSET Below(k)
    BY <2>1, LexTransitive
  <2>3. o \in Below(k)
    BY <2>1
  <2>4. ~LexLess(o, o)
    BY DEF LexLess
  <2>5. Below(o) # Below(k)
    BY <2>3, <2>4
  <2>6. Cardinality(Below(o)) <= Cardinality(Below(k)) /\ Cardinality(Below(o)) # Cardinality(Below(k))
    BY <1>1, <2>2, <2>5, FS_Subset
  <2>7. Cardinality(Below(o)) \in C
    BY <1>2
  <2>8. Cardinality(Below(o)) \in Nat /\ Cardinality(Below(k)) \in Nat
    BY <1>1
  <2> HIDE DEF Below
  <2> QED BY <1>4, <1>5, <2>6, <2>7, <2>8
<1> QED BY <1>6, Zenon DEF First

LEMMA FiniteHasMin ==
  ASSUME NEW S \in SUBSET Int, IsFiniteSet(S), S # {}
  PROVE  Min(S) \in S /\ \A s \in S : Min(S) <= s
<1>1. PICK N \in SUBSET Int : N = {-s : s \in S}
  <2>1. {-s : s \in S} \in SUBSET Int
    OBVIOUS
  <2> QED BY <2>1
<1>2. IsFiniteSet(N)
  <2>1. PICK f : f = [s \in S |-> -s]
    OBVIOUS
  <2>2. N = {f[s] : s \in S} /\ DOMAIN f = S
    BY <1>1, <2>1
  <2> QED BY <2>2, FiniteImages
<1>3. N # {}
  BY <1>1
<1>4. PICK b \in Int : \A x \in N : x <= b
  <2>1. Max(N) \in N /\ \A x \in N : x <= Max(N)
    BY <1>2, <1>3, FiniteHasMax
  <2> QED BY <2>1
<1>5. -b \in Int /\ \A s \in S : -b <= s
  <2>1. \A s \in S : -s \in N
    BY <1>1
  <2> QED BY <1>4, <2>1
<1> QED BY <1>5, MinIsLeast

LEMMA FiniteUnion ==
  ASSUME NEW S, IsFiniteSet(S), NEW f, DOMAIN f = S, \A x \in S : IsFiniteSet(f[x]),
         NEW V, V = UNION {f[x] : x \in S}
  PROVE  IsFiniteSet(V)
<1>1. PICK D : D = {f[x] : x \in S}
  OBVIOUS
<1>2. IsFiniteSet(D) /\ \A d \in D : IsFiniteSet(d)
  BY <1>1, FiniteImages
<1>3. V = UNION D
  BY <1>1
<1> QED BY <1>2, <1>3, FS_UNION
-----------------------------------------------------------------------------
(* What loads come to.                                                      *)
LEMMA ObjectiveIsInt ==
  ASSUME IsProblem(problem), NEW rs, GoodRoutes(problem, rs)
  PROVE  objective(rs) \in Int
<1>1. MaximumLoad(rs) \in Nat /\ TotalLoad(rs) \in Int
  BY LoadsFacts
<1>2. problem.weights.maximum \in Nat /\ problem.weights.total \in Nat
  BY Zenon DEF IsProblem
<1>3. PICK a, b, c, d \in Int : /\ a = problem.weights.maximum /\ b = MaximumLoad(rs)
                                /\ c = problem.weights.total /\ d = TotalLoad(rs)
  BY <1>1, <1>2
<1>4. a * b + c * d \in Int
  OBVIOUS
<1> QED BY <1>3, <1>4, Zenon DEF objective

LEMMA TotalLoadNotNegative ==
  ASSUME NEW p, IsProblem(p), NEW rs, GoodRoutes(p, rs),
         \A r \in DOMAIN p.robots : Passable(rs[r])
  PROVE  TotalLoad(rs) \in Nat
<1>1. PICK loads : loads = Loads(rs)
  OBVIOUS
<1>2. AreLoads(p, rs, loads)
  BY <1>1, LoadsFacts
<1>3. PICK n \in Nat : n = Len(p.robots) /\ DOMAIN p.robots = 1..n
  BY Zenon DEF IsProblem
<1>4. loads \in Seq(Int) /\ Len(loads) = n /\ \A r \in 1..n : loads[r] = LoadOf(rs[r])
  BY <1>2, <1>3 DEF AreLoads
<1>5. \A r \in 1..n : loads[r] \in Nat
  <2> TAKE r \in 1..n
  <2>1. r \in DOMAIN p.robots /\ GoodRoute(p, r, rs[r]) /\ Passable(rs[r])
    BY <1>3 DEF GoodRoutes
  <2>2. LoadOf(rs[r]) \in Nat
    BY <2>1, LoadNotNegative
  <2> QED BY <1>4, <2>2
<1>6. loads \in [1..n -> Nat]
  BY <1>4, <1>5
<1>7. loads \in Seq(Nat)
  BY <1>6
<1> QED BY <1>1, <1>7, TotalNotNegative DEF TotalLoad

IsWithin(rs, then) ==
  /\ MaximumLoad(then) \in Nat /\ TotalLoad(then) \in Int
  /\ within_slack(rs, then, Options.slack)

LEMMA WithinOneself ==
  ASSUME IsProblem(problem), NEW rs, GoodRoutes(problem, rs),
         \A r \in Robots : Passable(rs[r])
  PROVE  IsWithin(rs, rs)
<1>1. Options.slack \in Nat
  BY Zenon DEF IsProblem, Options
<1>2. \A r \in DOMAIN problem.robots : Passable(rs[r])
  BY DEF Robots
<1>3. MaximumLoad(rs) \in Nat /\ TotalLoad(rs) \in Nat
  BY <1>2, LoadsFacts, TotalLoadNotNegative
<1>4. PICK k \in Nat : k = Options.slack
  BY <1>1
<1>5. ASSUME NEW x \in Nat
      PROVE  100 * x <= x * (100 + k)
  <2>1. PICK y \in Nat : y = x * k
    OBVIOUS
  <2>2. x * (100 + k) = 100 * x + x * k
    OBVIOUS
  <2> QED BY <2>1, <2>2
<1>6. 100 * MaximumLoad(rs) <= MaximumLoad(rs) * (100 + k)
  BY <1>3, <1>5
<1>7. 100 * TotalLoad(rs) <= TotalLoad(rs) * (100 + k)
  BY <1>3, <1>5
<1> QED BY <1>3, <1>4, <1>6, <1>7 DEF IsWithin, within_slack
-----------------------------------------------------------------------------
(* What holds of every state of the allocation.                             *)
(* A task is on one route, or waits to be put on one. *)
Assigned(rs, left) ==
  /\ left \in SUBSET Tasks
  /\ \A t \in Tasks : \A r \in Robots : On(rs[r], t) => t \notin left
  /\ \A t \in Tasks : \A r, q \in Robots : On(rs[r], t) /\ On(rs[q], t) => r = q
  /\ \A t \in Tasks : t \notin left => \E r \in Robots : On(rs[r], t)

RoutesKept ==
  /\ GoodRoutes(problem, routes) /\ \A r \in Robots : Passable(routes[r])

BalanceKept == phase \in {"balance", "check", "done"} => IsWithin(routes, before)

AllocationInv ==
  /\ problem \in Problems
  /\ RoutesKept
  /\ Assigned(routes, remaining)
  /\ BalanceKept

LEMMA KnownProblem ==
  ASSUME problem \in Problems
  PROVE  /\ IsProblem(problem)
         /\ Len(problem.robots) \in Nat /\ Robots = 1..Len(problem.robots)
         /\ Len(problem.tasks) \in Nat /\ Tasks = 1..Len(problem.tasks)
         /\ IsFiniteSet(Robots)
<1>1. IsProblem(problem)
  BY Zenon, ProblemsAssumption
<1>2. Len(problem.robots) \in Nat /\ DOMAIN problem.robots = 1..Len(problem.robots)
  BY <1>1, Zenon DEF IsProblem
<1>3. Len(problem.tasks) \in Nat /\ DOMAIN problem.tasks = 1..Len(problem.tasks)
  BY <1>1, Zenon DEF IsProblem
<1>4. PICK n \in Nat : n = Len(problem.robots)
  BY <1>2
<1>5. IsFiniteSet(1..n)
  <2>1. 1 \in Int /\ n \in Int
    OBVIOUS
  <2> QED BY <2>1, FS_Interval
<1> QED BY <1>1, <1>2, <1>3, <1>4, <1>5 DEF Robots, Tasks

(* A robot can take a task that suits it. *)
LEMMA CapableFacts ==
  ASSUME problem \in Problems, NEW t \in Tasks
  PROVE  /\ Capable(t) \in SUBSET Robots /\ IsFiniteSet(Capable(t)) /\ Capable(t) # {}
         /\ \A r \in Capable(t) : Suits(problem, r, t)
<1>1. IsProblem(problem) /\ IsFiniteSet(Robots)
  BY KnownProblem
<1>2. Capable(t) \in SUBSET Robots
  BY DEF Capable
<1>3. \A r \in Capable(t) : Suits(problem, r, t)
  BY DEF Capable, compatible, Suits, Tasks
<1>4. Capable(t) # {}
  <2>1. PICK r \in DOMAIN problem.robots : problem.tasks[t].needs \subseteq problem.robots[r].caps
    BY <1>1, Zenon DEF IsProblem, Tasks
  <2>2. r \in Capable(t)
    BY <2>1 DEF Capable, compatible, Robots
  <2> QED BY <2>2
<1>5. IsFiniteSet(Capable(t))
  BY <1>1, <1>2, FS_Subset
<1> QED BY <1>2, <1>3, <1>4, <1>5

LEMMA PositionsFacts ==
  ASSUME IsProblem(problem), NEW r \in Robots, NEW route, GoodRoute(problem, r, route), NEW t
  PROVE  /\ Positions(route, t) \in SUBSET Int /\ IsFiniteSet(Positions(route, t))
         /\ Positions(route, t) # {}
<1>1. PICK s \in Seq(StopsOn(problem, r)) : s = route.stops
  BY GoodRouteFacts DEF Robots
<1>2. PICK n \in Nat : n = Len(s) /\ DOMAIN s = 1..n
  BY <1>1
<1>3. PICK A \in SUBSET (1..n) : A = Stopping(route, t)
  BY <1>1, <1>2 DEF Stopping
<1>4. PICK V : V = Positions(route, t)
  OBVIOUS
<1>5. CASE A # {}
  <2>1. A \in SUBSET Int /\ 0 \in Int /\ \A k \in A : 0 <= k
    BY <1>3
  <2>2. Min(A) \in Int
    BY <1>5, <2>1, MinIsLeast
  <2>3. V = {Min(A)}
    BY <1>3, <1>4, <1>5 DEF Positions
  <2>4. IsFiniteSet({Min(A)})
    BY FS_Singleton
  <2> QED BY <1>4, <2>2, <2>3, <2>4
<1>6. CASE A = {}
  <2>1. V = 1..(n + 1)
    BY <1>1, <1>2, <1>3, <1>4, <1>6 DEF Positions
  <2>2. IsFiniteSet(1..(n + 1))
    <3>1. 1 \in Int /\ n + 1 \in Int
      OBVIOUS
    <3> QED BY <3>1, FS_Interval
  <2>3. 1 \in 1..(n + 1) /\ 1..(n + 1) \in SUBSET Int
    OBVIOUS
  <2> QED BY <1>4, <2>1, <2>2, <2>3
<1> QED BY <1>5, <1>6

LEMMA RouteReplaced ==
  ASSUME NEW p, NEW rs, GoodRoutes(p, rs), NEW r \in DOMAIN p.robots,
         NEW new, GoodRoute(p, r, new)
  PROVE  /\ GoodRoutes(p, [rs EXCEPT ![r] = new])
         /\ [rs EXCEPT ![r] = new][r] = new
         /\ \A q \in DOMAIN p.robots : q # r => [rs EXCEPT ![r] = new][q] = rs[q]
BY DEF GoodRoutes
-----------------------------------------------------------------------------
(* The candidates of an insertion.                                          *)
InsertedAt(t, r, i) == [routes EXCEPT ![r] = With(r, routes[r], t, i)]

LEMMA InsertedRoutes ==
  ASSUME problem \in Problems, GoodRoutes(problem, routes), Assigned(routes, remaining),
         NEW t \in remaining, NEW r \in Capable(t), NEW i \in Positions(routes[r], t)
  PROVE  /\ IsTaken(problem, r, With(r, routes[r], t, i), routes[r], t)
         /\ GoodRoutes(problem, InsertedAt(t, r, i))
<1>1. IsProblem(problem)
  BY KnownProblem
<1>2. t \in Tasks
  BY DEF Assigned
<1>3. r \in Robots /\ Suits(problem, r, t)
  BY <1>2, CapableFacts
<1>4. r \in DOMAIN problem.robots /\ GoodRoute(problem, r, routes[r])
  BY <1>3 DEF GoodRoutes, Robots
<1>5. ~On(routes[r], t)
  BY <1>2, <1>3 DEF Assigned
<1>6. PICK new : new = With(r, routes[r], t, i)
  OBVIOUS
<1>7. IsTaken(problem, r, new, routes[r], t)
  BY <1>1, <1>3, <1>4, <1>5, <1>6, WithGood
<1>8. GoodRoute(problem, r, new)
  BY <1>7 DEF IsTaken
<1>9. GoodRoutes(problem, [routes EXCEPT ![r] = new])
  BY <1>4, <1>8, RouteReplaced
<1> QED BY <1>6, <1>7, <1>9 DEF InsertedAt

IsWay(t, o) ==
  /\ o \in [1..3 -> Int]
  /\ o[2] \in Capable(t) /\ o[3] \in Positions(routes[o[2]], t)

AreWays(t, ways) ==
  /\ ways \in SUBSET [1..3 -> Int] /\ IsFiniteSet(ways) /\ ways # {}
  /\ \A o \in ways : IsWay(t, o)

LEMMA InsertionFacts ==
  ASSUME problem \in Problems, GoodRoutes(problem, routes), Assigned(routes, remaining),
         NEW t \in remaining
  PROVE  AreWays(t, Insertions(t))
<1>1. t \in Tasks
  BY DEF Assigned
<1>2. PICK C \in SUBSET Robots : C = Capable(t) /\ IsFiniteSet(C) /\ C # {}
  BY <1>1, CapableFacts
<1>3. \A r \in C : r \in Int /\ GoodRoute(problem, r, routes[r])
  <2> TAKE r \in C
  <2>1. r \in Robots
    OBVIOUS
  <2>2. r \in Int
    BY <2>1, KnownProblem
  <2> QED BY <2>1, <2>2 DEF GoodRoutes, Robots
<1>4. PICK pos : pos = [r \in C |-> Positions(routes[r], t)]
  OBVIOUS
<1>5. \A r \in C : pos[r] \in SUBSET Int /\ IsFiniteSet(pos[r]) /\ pos[r] # {}
  <2> TAKE r \in C
  <2>1. IsProblem(problem) /\ r \in Robots
    BY KnownProblem
  <2>2. pos[r] = Positions(routes[r], t)
    BY <1>4
  <2> QED BY <1>3, <2>1, <2>2, PositionsFacts
<1>6. \A r \in C : \A i \in pos[r] : objective(InsertedAt(t, r, i)) \in Int
  <2> TAKE r \in C
  <2> TAKE i \in pos[r]
  <2>1. r \in Capable(t) /\ i \in Positions(routes[r], t)
    BY <1>2, <1>4
  <2>2. GoodRoutes(problem, InsertedAt(t, r, i))
    BY <2>1, InsertedRoutes
  <2> QED BY <2>2, KnownProblem, ObjectiveIsInt
<1>7. PICK way : way = [r \in C |-> [i \in pos[r] |-> <<objective(InsertedAt(t, r, i)), r, i>>]]
  OBVIOUS
<1>8. \A r \in C : \A i \in pos[r] : way[r][i] = <<objective(InsertedAt(t, r, i)), r, i>>
  BY <1>7
<1>9. PICK from : from = [r \in C |-> {way[r][i] : i \in pos[r]}]
  OBVIOUS
<1>10. \A r \in C : IsFiniteSet(from[r])
  <2> TAKE r \in C
  <2>1. PICK f : f = way[r]
    OBVIOUS
  <2>2. DOMAIN f = pos[r]
    BY <1>7, <2>1
  <2>3. from[r] = {f[i] : i \in pos[r]}
    BY <1>9, <2>1
  <2> QED BY <1>5, <2>2, <2>3, FiniteImages
<1>11. PICK W : W = UNION {from[r] : r \in C}
  OBVIOUS
<1>12. W = Insertions(t)
  <2>1. \A r \in C : from[r] = {<<objective(InsertedAt(t, r, i)), r, i>> : i \in Positions(routes[r], t)}
    <3> TAKE r \in C
    <3>1. pos[r] = Positions(routes[r], t) /\ from[r] = {way[r][i] : i \in pos[r]}
      BY <1>4, <1>9
    <3> QED BY <1>8, <3>1
  <2>2. W = UNION {{<<objective(InsertedAt(t, r, i)), r, i>> : i \in Positions(routes[r], t)} : r \in C}
    BY <1>11, <2>1
  <2> QED BY <1>2, <2>2, Zenon DEF Insertions, InsertedAt
<1>13. IsFiniteSet(W)
  <2>1. DOMAIN from = C
    BY <1>9
  <2> QED BY <1>2, <1>10, <1>11, <2>1, FiniteUnion
<1>14. \A o \in W : IsWay(t, o)
  <2> TAKE o \in W
  <2>1. PICK r \in C : o \in from[r]
    BY <1>11
  <2>2. PICK i \in pos[r] : o = way[r][i]
    BY <1>9, <2>1
  <2>3. PICK x \in Int : x = objective(InsertedAt(t, r, i))
    BY <1>6
  <2>4. o = <<x, r, i>> /\ r \in Int /\ i \in Int
    BY <1>3, <1>5, <1>8, <2>2, <2>3
  <2>5. o \in [1..3 -> Int] /\ o[2] = r /\ o[3] = i
    BY <2>4
  <2>6. r \in Capable(t) /\ i \in Positions(routes[r], t)
    BY <1>2, <1>4
  <2> QED BY <2>5, <2>6 DEF IsWay
<1>15. W # {}
  <2>1. PICK r \in C : TRUE
    BY <1>2
  <2>2. PICK i \in pos[r] : TRUE
    BY <1>5
  <2>3. way[r][i] \in from[r]
    BY <1>9
  <2> QED BY <1>11, <2>3
<1>16. W \in SUBSET [1..3 -> Int]
  BY <1>14 DEF IsWay
<1> QED BY <1>12, <1>13, <1>14, <1>15, <1>16 DEF AreWays

LEMMA BestWay ==
  ASSUME NEW t, NEW ways, AreWays(t, ways)
  PROVE  First(ways) \in ways
<1>1. ways \in SUBSET [1..3 -> Int] /\ IsFiniteSet(ways) /\ ways # {} /\ 3 \in Nat
  BY DEF AreWays
<1> QED BY <1>1, FirstIsThere

LEMMA RegretIsInt ==
  ASSUME NEW t, AreWays(t, Insertions(t))
  PROVE  Regret(t) \in Int
<1>1. PICK W : W = Insertions(t) /\ AreWays(t, W)
  OBVIOUS
<1>2. PICK best \in W : best = First(W)
  BY <1>1, BestWay
<1>3. W \in SUBSET [1..3 -> Int] /\ IsFiniteSet(W)
  BY <1>1 DEF AreWays
<1>4. best[1] \in Int
  BY <1>3
<1>5. PICK others : others = {o[1] : o \in W \ {best}}
  OBVIOUS
<1>6. others \in SUBSET Int
  BY <1>3, <1>5
<1>7. IsFiniteSet(others)
  <2>1. IsFiniteSet(W \ {best})
    BY <1>3, FS_Subset
  <2>2. PICK f : f = [o \in W \ {best} |-> o[1]]
    OBVIOUS
  <2>3. DOMAIN f = W \ {best} /\ others = {f[o] : o \in W \ {best}}
    BY <1>5, <2>2
  <2> QED BY <2>1, <2>3, FiniteImages
<1>8. Regret(t) = IF others = {} THEN Huge ELSE Min(others) - best[1]
  BY <1>1, <1>2, <1>5, Zenon DEF Regret
<1>9. CASE others = {}
  BY <1>8, <1>9 DEF Huge
<1>10. CASE others # {}
  <2>1. Min(others) \in Int
    BY <1>6, <1>7, <1>10, FiniteHasMin
  <2> QED BY <1>4, <1>8, <1>10, <2>1
<1> QED BY <1>9, <1>10
-----------------------------------------------------------------------------
(* The task to insert next.                                                 *)
LEMMA UrgencyFacts ==
  ASSUME problem \in Problems, NEW t \in Tasks
  PROVE  Urgency(t) \in [1..4 -> Int]
<1>1. IsFiniteSet(Capable(t))
  BY CapableFacts
<1>2. Cardinality(Capable(t)) \in Int
  BY <1>1, FS_CardinalityType
<1>3. problem.tasks[t].service \in Nat
  <2>1. IsProblem(problem)
    BY KnownProblem
  <2> QED BY <2>1, Zenon DEF IsProblem, Tasks
<1>4. t \in Int
  BY KnownProblem
<1>5. PICK a, b, c \in Int : /\ a = Cardinality(Capable(t))
                             /\ b = (IF problem.tasks[t].high THEN 0 ELSE 1)
                             /\ c = -problem.tasks[t].service
  BY <1>2, <1>3
<1>6. Urgency(t) = <<a, b, c, t>>
  BY <1>5, Zenon DEF Urgency
<1>7. <<a, b, c, t>> \in [1..4 -> Int]
  BY <1>4
<1> QED BY <1>6, <1>7

LEMMA ShortlistFacts ==
  ASSUME problem \in Problems, remaining \in SUBSET Tasks, remaining # {}
  PROVE  /\ Shortlist \in SUBSET remaining /\ IsFiniteSet(Shortlist) /\ Shortlist # {}
<1>1. IsFiniteSet(remaining)
  <2>1. PICK n \in Nat : n = Len(problem.tasks) /\ Tasks = 1..n
    BY KnownProblem
  <2>2. IsFiniteSet(1..n)
    <3>1. 1 \in Int /\ n \in Int
      OBVIOUS
    <3> QED BY <3>1, FS_Interval
  <2> QED BY <2>1, <2>2, FS_Subset
<1>2. Shortlist \in SUBSET remaining
  BY DEF Shortlist
<1>3. IsFiniteSet(Shortlist)
  BY <1>1, <1>2, FS_Subset
<1>4. PICK f : f = [t \in remaining |-> Urgency(t)]
  OBVIOUS
<1>5. \A t \in remaining : f[t] \in [1..4 -> Int] /\ f[t] = Urgency(t)
  BY <1>4, UrgencyFacts
<1>6. PICK K \in SUBSET [1..4 -> Int] : K = {f[t] : t \in remaining}
  <2>1. {f[t] : t \in remaining} \in SUBSET [1..4 -> Int]
    BY <1>5
  <2> QED BY <2>1
<1>7. IsFiniteSet(K) /\ K # {}
  <2>1. DOMAIN f = remaining
    BY <1>4
  <2>2. IsFiniteSet(K)
    BY <1>1, <1>6, <2>1, FiniteImages
  <2> QED BY <1>6, <2>2
<1>8. First(K) \in K /\ \A o \in K \ {First(K)} : LexLess(First(K), o)
  <2>1. 4 \in Nat
    OBVIOUS
  <2> QED BY <1>7, <2>1, FirstIsThere
<1>9. PICK t \in remaining : f[t] = First(K)
  BY <1>6, <1>8
<1>10. ASSUME NEW u \in remaining, LexLess(f[u], f[t])
       PROVE  FALSE
  <2>1. f[u] \in K /\ f[t] \in K
    BY <1>6
  <2>2. \A x \in K : ~LexLess(x, x)
    BY DEF LexLess
  <2>3. LexLess(f[t], f[u])
    BY <1>8, <1>9, <1>10, <2>1, <2>2
  <2>4. LexLess(f[t], f[t])
    <3>1. 4 \in Nat /\ f[t] \in [1..4 -> Int] /\ f[u] \in [1..4 -> Int]
      BY <2>1
    <3> QED BY <1>10, <2>3, <3>1, LexTransitive
  <2> QED BY <2>1, <2>2, <2>4
<1>11. {u \in remaining : LexLess(Urgency(u), Urgency(t))} = {}
  BY <1>5, <1>10
<1>12. t \in Shortlist
  <2>1. Cardinality({}) = 0
    BY FS_EmptySet
  <2>2. 0 < RegretLimit
    BY DEF RegretLimit
  <2>3. Cardinality({u \in remaining : LexLess(Urgency(u), Urgency(t))}) < RegretLimit
    BY <1>11, <2>1, <2>2
  <2> QED BY <2>3 DEF Shortlist
<1> QED BY <1>2, <1>3, <1>12

AreJoined(n, m, s, a, b) ==
  /\ s \in [1..(n + m) -> Int]
  /\ \A k \in 1..n : s[k] = a[k]
  /\ \A k \in 1..m : s[n + k] = b[k]

LEMMA TuplesJoined ==
  ASSUME NEW n \in Nat, NEW m \in Nat, NEW a \in [1..n -> Int], NEW b \in [1..m -> Int]
  PROVE  AreJoined(n, m, a \o b, a, b)
<1>1. a \in Seq(Int) /\ Len(a) = n /\ b \in Seq(Int) /\ Len(b) = m
  OBVIOUS
<1>2. PICK s : s = a \o b
  OBVIOUS
<1>3. IsJoined(Int, s, a, b)
  BY <1>1, <1>2, JoinFacts
<1>4. /\ s \in Seq(Int) /\ Len(s) = n + m
      /\ \A k \in 1..n : s[k] = a[k]
      /\ \A k \in 1..m : s[n + k] = b[k]
  BY <1>1, <1>3 DEF IsJoined
<1>5. s \in [1..(n + m) -> Int]
  BY <1>4
<1> QED BY <1>2, <1>4, <1>5 DEF AreJoined

LEMMA KeyFacts ==
  ASSUME NEW x \in Int, NEW b \in [1..4 -> Int]
  PROVE  << x >> \o b \in [1..5 -> Int] /\ (<< x >> \o b)[5] = b[4]
<1>1. << x >> \in [1..1 -> Int] /\ 1 \in Nat /\ 4 \in Nat
  OBVIOUS
<1>2. PICK s : s = << x >> \o b
  OBVIOUS
<1>3. AreJoined(1, 4, s, << x >>, b)
  BY <1>1, <1>2, TuplesJoined
<1>4. s \in [1..5 -> Int] /\ s[5] = b[4]
  BY <1>3 DEF AreJoined
<1> QED BY <1>2, <1>4

LEMMA NextTask ==
  ASSUME problem \in Problems, GoodRoutes(problem, routes), Assigned(routes, remaining),
         remaining # {}
  PROVE  First({<<-Regret(u)>> \o Urgency(u) : u \in Shortlist})[5] \in Shortlist
<1>1. remaining \in SUBSET Tasks
  BY DEF Assigned
<1>2. Shortlist \in SUBSET remaining /\ IsFiniteSet(Shortlist) /\ Shortlist # {}
  BY <1>1, ShortlistFacts
<1>3. PICK f : f = [u \in Shortlist |-> <<-Regret(u)>> \o Urgency(u)]
  OBVIOUS
<1>4. \A u \in Shortlist : f[u] \in [1..5 -> Int] /\ f[u][5] = u
  <2> TAKE u \in Shortlist
  <2>1. u \in remaining /\ u \in Tasks
    BY <1>1, <1>2
  <2>2. Regret(u) \in Int
    BY <2>1, InsertionFacts, RegretIsInt
  <2>3. PICK x \in Int : x = -Regret(u)
    BY <2>2
  <2>4. PICK b \in [1..4 -> Int] : b = Urgency(u)
    BY <2>1, UrgencyFacts
  <2>5. f[u] = << x >> \o b
    BY <1>3, <2>3, <2>4
  <2>6. b[4] = u
    BY <2>4 DEF Urgency
  <2> QED BY <2>5, <2>6, KeyFacts
<1>5. PICK K \in SUBSET [1..5 -> Int] : K = {f[u] : u \in Shortlist}
  <2>1. {f[u] : u \in Shortlist} \in SUBSET [1..5 -> Int]
    BY <1>4
  <2> QED BY <2>1
<1>6. IsFiniteSet(K) /\ K # {}
  <2>1. DOMAIN f = Shortlist
    BY <1>3
  <2>2. IsFiniteSet(K)
    BY <1>2, <1>5, <2>1, FiniteImages
  <2> QED BY <1>2, <1>5, <2>2
<1>7. First(K) \in K
  <2>1. 5 \in Nat
    OBVIOUS
  <2> QED BY <1>6, <2>1, FirstIsThere
<1>8. K = {<<-Regret(u)>> \o Urgency(u) : u \in Shortlist}
  <2>1. \A u \in Shortlist : f[u] = <<-Regret(u)>> \o Urgency(u)
    BY <1>3
  <2> QED BY <1>5, <2>1
<1>9. PICK u \in Shortlist : First(K) = f[u]
  BY <1>5, <1>7
<1>10. First(K)[5] = u
  BY <1>4, <1>9
<1> QED BY <1>8, <1>10
-----------------------------------------------------------------------------
(* The steps of the insertion.                                              *)
LEMMA AssignedInserted ==
  ASSUME Assigned(routes, remaining), NEW t \in remaining, NEW r \in Robots,
         NEW rs, \A q \in Robots : q # r => rs[q] = routes[q],
         HasTask(problem, rs[r], routes[r], t)
  PROVE  Assigned(rs, remaining \ {t})
<1>1. /\ remaining \in SUBSET Tasks /\ t \in Tasks
      /\ \A u \in Tasks : \A q \in Robots : On(routes[q], u) => u \notin remaining
      /\ \A u \in Tasks : \A q, x \in Robots : On(routes[q], u) /\ On(routes[x], u) => q = x
      /\ \A u \in Tasks : u \notin remaining => \E q \in Robots : On(routes[q], u)
  BY DEF Assigned
<1>2. \A u \in Tasks : On(rs[r], u) <=> On(routes[r], u) \/ u = t
  BY DEF HasTask, Tasks
<1>3. \A u \in Tasks : \A q \in Robots : On(rs[q], u) <=> On(routes[q], u) \/ (q = r /\ u = t)
  BY <1>2
<1>4. remaining \ {t} \in SUBSET Tasks
  BY <1>1
<1>5. \A u \in Tasks : \A q \in Robots : On(rs[q], u) => u \notin remaining \ {t}
  BY <1>1, <1>3
<1>6. \A u \in Tasks : \A q, x \in Robots : On(rs[q], u) /\ On(rs[x], u) => q = x
  BY <1>1, <1>3
<1>7. \A u \in Tasks : u \notin remaining \ {t} => \E q \in Robots : On(rs[q], u)
  BY <1>1, <1>3
<1> QED BY <1>4, <1>5, <1>6, <1>7 DEF Assigned

LEMMA InsertKeeps ==
  ASSUME AllocationInv, InsertNext
  PROVE  AllocationInv'
<1>1. /\ problem \in Problems /\ RoutesKept /\ GoodRoutes(problem, routes)
      /\ Assigned(routes, remaining)
  BY DEF AllocationInv, RoutesKept
<1>2. phase = "insert" /\ remaining # {} /\ ~NoWay
  BY DEF InsertNext
<1>3. PICK t : t = First({<<-Regret(u)>> \o Urgency(u) : u \in Shortlist})[5]
  OBVIOUS
<1>4. t \in Shortlist /\ t \in remaining
  <2>1. t \in Shortlist
    BY <1>1, <1>2, <1>3, NextTask
  <2>2. remaining \in SUBSET Tasks
    BY <1>1 DEF Assigned
  <2>3. Shortlist \in SUBSET remaining
    BY <1>1, <1>2, <2>2, ShortlistFacts
  <2> QED BY <2>1, <2>3
<1>5. PICK best : best = First(Insertions(t))
  OBVIOUS
<1>6. IsWay(t, best)
  <2>1. AreWays(t, Insertions(t))
    BY <1>1, <1>4, InsertionFacts
  <2>2. best \in Insertions(t)
    BY <1>5, <2>1, BestWay
  <2> QED BY <2>1, <2>2 DEF AreWays
<1>7. PICK r, i : r = best[2] /\ i = best[3]
  OBVIOUS
<1>8. r \in Capable(t) /\ i \in Positions(routes[r], t)
  BY <1>6, <1>7 DEF IsWay
<1>9. PICK new : new = With(r, routes[r], t, i)
  OBVIOUS
<1>10. /\ routes' = [routes EXCEPT ![r] = new] /\ remaining' = remaining \ {t}
       /\ problem' = problem /\ phase' = phase
  BY <1>3, <1>5, <1>7, <1>9, Zenon DEF InsertNext
<1>11. IsTaken(problem, r, new, routes[r], t)
  BY <1>1, <1>4, <1>8, <1>9, InsertedRoutes
<1>12. r \in Robots /\ r \in DOMAIN problem.robots
  <2>1. t \in Tasks
    BY <1>1, <1>4 DEF Assigned
  <2>2. r \in Robots
    BY <1>1, <1>8, <2>1, CapableFacts
  <2> QED BY <2>2 DEF Robots
<1>13. /\ GoodRoutes(problem, routes') /\ routes'[r] = new
       /\ \A q \in Robots : q # r => routes'[q] = routes[q]
  <2>1. GoodRoute(problem, r, new)
    BY <1>11 DEF IsTaken
  <2>2. GoodRoutes(problem, [routes EXCEPT ![r] = new])
    BY <1>1, <1>12, <2>1, RouteReplaced
  <2>3. /\ [routes EXCEPT ![r] = new][r] = new
        /\ \A q \in DOMAIN problem.robots : q # r => [routes EXCEPT ![r] = new][q] = routes[q]
    <3>1. DOMAIN routes = DOMAIN problem.robots
      BY <1>1 DEF GoodRoutes
    <3> QED BY <1>12, <3>1
  <2> QED BY <1>10, <2>2, <2>3 DEF Robots
<1>14. \A q \in Robots : Passable(routes'[q])
  <2>1. Passable(new)
    BY <1>2, <1>4, <1>8, <1>9 DEF NoWay
  <2> QED BY <1>1, <1>13, <2>1 DEF RoutesKept
<1>15. Robots' = Robots /\ Tasks' = Tasks
  BY <1>10 DEF Robots, Tasks
<1>16. RoutesKept'
  BY <1>10, <1>13, <1>14, <1>15 DEF RoutesKept
<1>17. Assigned(routes', remaining')
  <2>1. HasTask(problem, routes'[r], routes[r], t)
    BY <1>11, <1>13 DEF IsTaken
  <2> QED BY <1>1, <1>4, <1>10, <1>12, <1>13, <2>1, AssignedInserted
<1>18. Assigned(routes, remaining)'
  BY <1>15, <1>17 DEF Assigned
<1>19. BalanceKept'
  BY <1>2, <1>10 DEF BalanceKept
<1> QED BY <1>1, <1>10, <1>16, <1>18, <1>19 DEF AllocationInv
-----------------------------------------------------------------------------
(* A task moved from robot r to place i of robot q.                         *)
RouteLeft(r, t) == removed(problem.robots[r], routes[r], t, problem.tasks)

RouteTo(r, t, q) == IF q = r THEN RouteLeft(r, t) ELSE routes[q]

MovedRoutes(r, t, q, i) ==
  [routes EXCEPT ![r] = RouteLeft(r, t), ![q] = With(q, RouteTo(r, t, q), t, i)]

IsKnown(p) == p \in Problems /\ GoodRoutes(p, routes) /\ Assigned(routes, remaining)

IsHeld(r, t) == r \in Robots /\ t \in Tasks /\ On(routes[r], t)

IsTarget(r, t, q, i) ==
  IsHeld(r, t) /\ q \in Capable(t) /\ i \in Positions(RouteTo(r, t, q), t)

IsMoved(rs, r, t, q, i) ==
  /\ GoodRoutes(problem, rs)
  /\ rs[q] = With(q, RouteTo(r, t, q), t, i)
  /\ q # r => rs[r] = RouteLeft(r, t)
  /\ \A x \in Robots : x # q /\ x # r => rs[x] = routes[x]
  /\ \A x \in Robots : \A u \in Tasks : On(rs[x], u) <=> IF u = t THEN x = q ELSE On(routes[x], u)
  /\ q # r => /\ TaskCount(rs[r]) = TaskCount(routes[r]) - 1
              /\ TaskCount(rs[q]) = TaskCount(routes[q]) + 1

LEMMA LeftFacts ==
  ASSUME IsKnown(problem), NEW r, NEW t, IsHeld(r, t)
  PROVE  /\ GoodRoute(problem, r, RouteLeft(r, t))
         /\ LacksTask(problem, RouteLeft(r, t), routes[r], t)
<1>1. IsProblem(problem)
  BY KnownProblem DEF IsKnown
<1>2. r \in DOMAIN problem.robots /\ On(routes[r], t)
  BY DEF IsHeld, Robots
<1>3. GoodRoute(problem, r, routes[r])
  BY <1>2 DEF IsKnown, GoodRoutes
<1>4. PICK new : new = removed(problem.robots[r], routes[r], t, problem.tasks)
  OBVIOUS
<1>5. GoodRoute(problem, r, new) /\ LacksTask(problem, new, routes[r], t)
  BY <1>1, <1>2, <1>3, <1>4, RemovedGood
<1> QED BY <1>4, <1>5 DEF RouteLeft

LEMMA ToFacts ==
  ASSUME IsKnown(problem), NEW r, NEW t, IsHeld(r, t), NEW q \in Robots
  PROVE  GoodRoute(problem, q, RouteTo(r, t, q)) /\ ~On(RouteTo(r, t, q), t)
<1>1. r \in Robots /\ t \in Tasks /\ On(routes[r], t)
  BY DEF IsHeld
<1>2. CASE q = r
  <2>1. RouteTo(r, t, q) = RouteLeft(r, t)
    BY <1>2 DEF RouteTo
  <2>2. GoodRoute(problem, r, RouteLeft(r, t)) /\ LacksTask(problem, RouteLeft(r, t), routes[r], t)
    BY LeftFacts
  <2>3. ~On(RouteLeft(r, t), t)
    BY <1>1, <2>2 DEF LacksTask, Tasks
  <2> QED BY <1>2, <2>1, <2>2, <2>3
<1>3. CASE q # r
  <2>1. RouteTo(r, t, q) = routes[q]
    BY <1>3 DEF RouteTo
  <2>2. GoodRoute(problem, q, routes[q])
    BY DEF IsKnown, GoodRoutes, Robots
  <2>3. ~On(routes[q], t)
    BY <1>1, <1>3 DEF IsKnown, Assigned
  <2> QED BY <2>1, <2>2, <2>3
<1> QED BY <1>2, <1>3

LEMMA MovedFacts ==
  ASSUME IsKnown(problem), NEW r, NEW t, NEW q, NEW i, IsTarget(r, t, q, i),
         NEW rs, rs = MovedRoutes(r, t, q, i)
  PROVE  IsMoved(rs, r, t, q, i)
<1>1. IsProblem(problem)
  BY KnownProblem DEF IsKnown
<1>2. /\ IsHeld(r, t) /\ r \in Robots /\ t \in Tasks /\ On(routes[r], t)
      /\ q \in Capable(t) /\ i \in Positions(RouteTo(r, t, q), t)
  BY DEF IsTarget, IsHeld
<1>3. q \in Robots /\ Suits(problem, q, t)
  BY <1>2, CapableFacts DEF IsKnown
<1>4. PICK L : L = RouteLeft(r, t)
  OBVIOUS
<1>5. GoodRoute(problem, r, L) /\ LacksTask(problem, L, routes[r], t)
  BY <1>2, <1>4, LeftFacts
<1>6. PICK B : B = RouteTo(r, t, q)
  OBVIOUS
<1>7. GoodRoute(problem, q, B) /\ ~On(B, t)
  BY <1>2, <1>3, <1>6, ToFacts
<1>8. PICK W : W = With(q, B, t, i)
  OBVIOUS
<1>9. IsTaken(problem, q, W, B, t)
  BY <1>1, <1>2, <1>3, <1>6, <1>7, <1>8, WithGood
<1>10. GoodRoute(problem, q, W) /\ HasTask(problem, W, B, t)
  BY <1>9 DEF IsTaken
<1>11. rs = [routes EXCEPT ![r] = L, ![q] = W]
  BY <1>4, <1>6, <1>8, Zenon DEF MovedRoutes
<1>12. DOMAIN routes = Robots /\ \A x \in Robots : GoodRoute(problem, x, routes[x])
  BY DEF IsKnown, GoodRoutes, Robots
<1>13. /\ DOMAIN rs = Robots /\ rs[q] = W /\ (q # r => rs[r] = L)
       /\ \A x \in Robots : x # q /\ x # r => rs[x] = routes[x]
  BY <1>2, <1>3, <1>11, <1>12
<1>14. \A x \in Robots : GoodRoute(problem, x, rs[x])
  BY <1>5, <1>10, <1>12, <1>13
<1>15. GoodRoutes(problem, rs)
  BY <1>13, <1>14 DEF GoodRoutes, Robots
<1>16. \A u \in Tasks : On(L, u) <=> On(routes[r], u) /\ u # t
  BY <1>5 DEF LacksTask, Tasks
<1>17. \A u \in Tasks : On(W, u) <=> On(B, u) \/ u = t
  BY <1>10 DEF HasTask, Tasks
<1>18. B = IF q = r THEN L ELSE routes[q]
  BY <1>4, <1>6, Zenon DEF RouteTo
<1>19. \A x \in Robots : On(routes[x], t) => x = r
  BY <1>2 DEF IsKnown, Assigned
<1>20. ASSUME NEW x \in Robots, NEW u \in Tasks
       PROVE  On(rs[x], u) <=> IF u = t THEN x = q ELSE On(routes[x], u)
  <2>1. CASE x = q
    <3>1. On(rs[x], u) <=> On(B, u) \/ u = t
      BY <1>13, <1>17, <2>1
    <3>2. CASE q = r
      BY <1>16, <1>18, <2>1, <3>1, <3>2
    <3>3. CASE q # r
      BY <1>18, <2>1, <3>1, <3>3
    <3> QED BY <3>2, <3>3
  <2>2. CASE x # q /\ x = r
    BY <1>13, <1>16, <2>2
  <2>3. CASE x # q /\ x # r
    BY <1>13, <1>19, <2>3
  <2> QED BY <2>1, <2>2, <2>3
<1>21. ASSUME q # r
       PROVE  /\ TaskCount(rs[r]) = TaskCount(routes[r]) - 1
              /\ TaskCount(rs[q]) = TaskCount(routes[q]) + 1
  <2>1. TaskCount(L) = TaskCount(routes[r]) - 1
    BY <1>5 DEF LacksTask
  <2>2. TaskCount(W) = TaskCount(B) + 1
    BY <1>10 DEF HasTask
  <2>3. B = routes[q]
    BY <1>18, <1>21
  <2> QED BY <1>13, <1>21, <2>1, <2>2, <2>3
<1>22. rs[q] = With(q, RouteTo(r, t, q), t, i) /\ (q # r => rs[r] = RouteLeft(r, t))
  BY <1>4, <1>6, <1>8, <1>13
<1> QED BY <1>13, <1>15, <1>20, <1>21, <1>22 DEF IsMoved

LEMMA MovedAssigned ==
  ASSUME IsKnown(problem), NEW r, NEW t, NEW q, NEW i, IsTarget(r, t, q, i),
         NEW rs, IsMoved(rs, r, t, q, i)
  PROVE  Assigned(rs, remaining)
<1>1. r \in Robots /\ t \in Tasks /\ On(routes[r], t) /\ q \in Robots
  <2>1. r \in Robots /\ t \in Tasks /\ On(routes[r], t) /\ q \in Capable(t)
    BY DEF IsTarget, IsHeld
  <2> QED BY <2>1, CapableFacts DEF IsKnown
<1>2. /\ remaining \in SUBSET Tasks
      /\ \A u \in Tasks : \A x \in Robots : On(routes[x], u) => u \notin remaining
      /\ \A u \in Tasks : \A x, y \in Robots : On(routes[x], u) /\ On(routes[y], u) => x = y
      /\ \A u \in Tasks : u \notin remaining => \E x \in Robots : On(routes[x], u)
  BY DEF IsKnown, Assigned
<1>3. \A x \in Robots : \A u \in Tasks :
        On(rs[x], u) <=> IF u = t THEN x = q ELSE On(routes[x], u)
  BY DEF IsMoved
<1>4. \A u \in Tasks : \A x \in Robots : On(rs[x], u) => u \notin remaining
  BY <1>1, <1>2, <1>3
<1>5. \A u \in Tasks : \A x, y \in Robots : On(rs[x], u) /\ On(rs[y], u) => x = y
  BY <1>2, <1>3
<1>6. \A u \in Tasks : u \notin remaining => \E x \in Robots : On(rs[x], u)
  BY <1>1, <1>2, <1>3
<1> QED BY <1>2, <1>4, <1>5, <1>6 DEF Assigned
-----------------------------------------------------------------------------
(* The moves of a pass.                                                     *)
IsMove(m) ==
  /\ m \in [1..5 -> Int]
  /\ IsTarget(m[1], TaskOf(m), m[4], m[5])
  /\ phase = "balance" => m[4] # m[1] /\ CountsApart(m[1], m[4])

AreMoves(M) == IsFiniteSet(M) /\ \A m \in M : IsMove(m)

MovesTo(r, s, k, t, q) == {<<r, s, k, q, i>> : i \in Positions(Base(<<r, s, k, q>>), t)}

MovesOf(r, s, k) ==
  LET task == routes[r].stops[s].tasks[k]
  IN UNION {MovesTo(r, s, k, task, q) : q \in Targets(r, task)}

MovesAt(r, s) == UNION {MovesOf(r, s, k) : k \in DOMAIN routes[r].stops[s].tasks}

MovesFrom(r) == UNION {MovesAt(r, s) : s \in DOMAIN routes[r].stops}

LEMMA MovesUnited ==
  ASSUME NEW S, IsFiniteSet(S), NEW f, DOMAIN f = S, \A x \in S : AreMoves(f[x]),
         NEW V, V = UNION {f[x] : x \in S}
  PROVE  AreMoves(V)
<1>1. \A x \in S : IsFiniteSet(f[x])
  BY DEF AreMoves
<1>2. IsFiniteSet(V)
  BY <1>1, FiniteUnion
<1> QED BY <1>2 DEF AreMoves

LEMMA MoveParts ==
  ASSUME NEW r, NEW s, NEW k, NEW q, NEW i, NEW t, t = routes[r].stops[s].tasks[k]
  PROVE  /\ TaskOf(<<r, s, k, q, i>>) = t
         /\ Base(<<r, s, k, q>>) = RouteTo(r, t, q)
         /\ Base(<<r, s, k, q, i>>) = RouteTo(r, t, q)
         /\ Without(<<r, s, k, q, i>>) = RouteLeft(r, t)
         /\ After(<<r, s, k, q, i>>) = MovedRoutes(r, t, q, i)
<1>1. PICK m : m = <<r, s, k, q, i>>
  OBVIOUS
<1>2. m[1] = r /\ m[2] = s /\ m[3] = k /\ m[4] = q /\ m[5] = i
  BY <1>1
<1>3. PICK o : o = <<r, s, k, q>>
  OBVIOUS
<1>4. o[1] = r /\ o[2] = s /\ o[3] = k /\ o[4] = q
  BY <1>3
<1>5. TaskOf(m) = t /\ TaskOf(o) = t
  BY <1>2, <1>4 DEF TaskOf
<1>6. Without(m) = RouteLeft(r, t) /\ Without(o) = RouteLeft(r, t)
  BY <1>2, <1>4, <1>5 DEF Without, RouteLeft
<1>7. Base(m) = RouteTo(r, t, q) /\ Base(o) = RouteTo(r, t, q)
  BY <1>2, <1>4, <1>6 DEF Base, RouteTo
<1>8. After(m) = [routes EXCEPT ![r] = Without(m), ![q] = With(q, Base(m), TaskOf(m), i)]
  BY <1>2, Zenon DEF After
<1>9. After(m) = MovedRoutes(r, t, q, i)
  BY <1>5, <1>6, <1>7, <1>8, Zenon DEF MovedRoutes
<1> QED BY <1>1, <1>3, <1>5, <1>6, <1>7, <1>9

LEMMA HeldTask ==
  ASSUME IsKnown(problem), NEW r \in Robots, NEW s \in DOMAIN routes[r].stops,
         NEW k \in DOMAIN routes[r].stops[s].tasks
  PROVE  IsHeld(r, routes[r].stops[s].tasks[k])
<1>1. IsProblem(problem) /\ r \in DOMAIN problem.robots
  BY KnownProblem DEF IsKnown, Robots
<1>2. GoodRoute(problem, r, routes[r])
  BY <1>1 DEF IsKnown, GoodRoutes
<1>3. PICK st \in Seq(StopsOn(problem, r)) : st = routes[r].stops
  BY <1>1, <1>2, GoodRouteFacts
<1>4. s \in 1..Len(st)
  BY <1>3
<1>5. PICK T : T = DOMAIN problem.tasks
  OBVIOUS
<1>6. PICK w \in Seq(T) : w = st[s].tasks
  <2>1. st[s] \in StopsOn(problem, r)
    BY <1>3, <1>4
  <2> QED BY <1>5, <2>1 DEF StopsOn, Stops
<1>7. k \in DOMAIN w
  BY <1>3, <1>6
<1>8. w[k] \in T /\ w[k] \in Range(w)
  BY <1>7 DEF Range
<1>9. On(routes[r], w[k])
  BY <1>3, <1>4, <1>6, <1>8 DEF On
<1> QED BY <1>3, <1>5, <1>6, <1>8, <1>9 DEF IsHeld, Tasks

LEMMA MovesToFacts ==
  ASSUME IsKnown(problem), NEW r \in Robots, NEW s \in DOMAIN routes[r].stops,
         NEW k \in DOMAIN routes[r].stops[s].tasks, s \in Int, k \in Int,
         NEW t, t = routes[r].stops[s].tasks[k], NEW q \in Targets(r, t)
  PROVE  AreMoves(MovesTo(r, s, k, t, q))
<1>1. IsHeld(r, t)
  BY HeldTask
<1>2. /\ t \in Tasks /\ q \in Capable(t)
      /\ phase = "balance" => q # r /\ CountsApart(r, q)
  BY <1>1 DEF IsHeld, Targets
<1>3. q \in Robots /\ r \in Int /\ q \in Int /\ IsProblem(problem)
  <2>1. q \in Robots
    BY <1>2, CapableFacts DEF IsKnown
  <2> QED BY <2>1, KnownProblem DEF IsKnown
<1>4. PICK B : B = RouteTo(r, t, q)
  OBVIOUS
<1>5. GoodRoute(problem, q, B)
  BY <1>1, <1>3, <1>4, ToFacts
<1>6. PICK P \in SUBSET Int : P = Positions(B, t) /\ IsFiniteSet(P)
  BY <1>3, <1>5, PositionsFacts
<1>7. PICK f : f = [i \in P |-> <<r, s, k, q, i>>]
  OBVIOUS
<1>8. PICK V : V = {f[i] : i \in P}
  OBVIOUS
<1>9. IsFiniteSet(V)
  <2>1. DOMAIN f = P
    BY <1>7
  <2> QED BY <1>6, <1>8, <2>1, FiniteImages
<1>10. V = MovesTo(r, s, k, t, q)
  <2>1. Base(<<r, s, k, q>>) = B
    <3>1. PICK i : i = 0
      OBVIOUS
    <3>2. /\ TaskOf(<<r, s, k, q, i>>) = t
          /\ Base(<<r, s, k, q>>) = RouteTo(r, t, q)
      BY MoveParts
    <3> QED BY <1>4, <3>2
  <2>2. \A i \in P : f[i] = <<r, s, k, q, i>>
    BY <1>7
  <2>3. V = {<<r, s, k, q, i>> : i \in P}
    BY <1>8, <2>2
  <2> QED BY <1>6, <2>1, <2>3, Zenon DEF MovesTo
<1>11. ASSUME NEW i \in P
       PROVE  IsMove(<<r, s, k, q, i>>)
  <2>1. PICK m : m = <<r, s, k, q, i>>
    OBVIOUS
  <2>2. m[1] = r /\ m[4] = q /\ m[5] = i
    BY <2>1
  <2>3. m \in [1..5 -> Int]
    <3>1. PICK x, y, z, u, v \in Int : x = r /\ y = s /\ z = k /\ u = q /\ v = i
      BY <1>3, <1>6
    <3>2. <<x, y, z, u, v>> \in [1..5 -> Int]
      OBVIOUS
    <3> QED BY <2>1, <3>1, <3>2
  <2>7. m[1] = r /\ m[2] = s /\ m[3] = k
    BY <2>1
  <2>4. TaskOf(m) = t
    BY <2>7, Zenon DEF TaskOf
  <2>5. IsTarget(r, t, q, i)
    BY <1>1, <1>2, <1>4, <1>6 DEF IsTarget
  <2>6. IsMove(m)
    BY <1>2, <2>2, <2>3, <2>4, <2>5 DEF IsMove
  <2> QED BY <2>1, <2>6
<1>12. \A m \in V : IsMove(m)
  BY <1>7, <1>8, <1>11
<1> QED BY <1>9, <1>10, <1>12 DEF AreMoves

LEMMA MovesOfFacts ==
  ASSUME IsKnown(problem), NEW r \in Robots, NEW s \in DOMAIN routes[r].stops,
         NEW k \in DOMAIN routes[r].stops[s].tasks, s \in Int, k \in Int
  PROVE  AreMoves(MovesOf(r, s, k))
<1>1. PICK t : t = routes[r].stops[s].tasks[k]
  OBVIOUS
<1>2. t \in Tasks
  BY <1>1, HeldTask DEF IsHeld
<1>3. IsFiniteSet(Targets(r, t))
  <2>1. Targets(r, t) \in SUBSET Capable(t)
    BY DEF Targets
  <2>2. IsFiniteSet(Capable(t))
    BY <1>2, CapableFacts DEF IsKnown
  <2> QED BY <2>1, <2>2, FS_Subset
<1>4. PICK f : f = [q \in Targets(r, t) |-> MovesTo(r, s, k, t, q)]
  OBVIOUS
<1>5. \A q \in Targets(r, t) : f[q] = MovesTo(r, s, k, t, q)
  BY <1>4
<1>6. \A q \in Targets(r, t) : AreMoves(f[q])
  BY <1>1, <1>5, MovesToFacts
<1>7. PICK V : V = UNION {f[q] : q \in Targets(r, t)}
  OBVIOUS
<1>8. AreMoves(V)
  <2>1. DOMAIN f = Targets(r, t)
    BY <1>4
  <2> QED BY <1>3, <1>6, <1>7, <2>1, MovesUnited
<1>9. V = UNION {MovesTo(r, s, k, t, q) : q \in Targets(r, t)}
  BY <1>5, <1>7
<1> QED BY <1>1, <1>8, <1>9, Zenon DEF MovesOf

LEMMA MovesAtFacts ==
  ASSUME IsKnown(problem), NEW r \in Robots, NEW s \in DOMAIN routes[r].stops, s \in Int
  PROVE  AreMoves(MovesAt(r, s))
<1>1. IsProblem(problem) /\ r \in DOMAIN problem.robots
  BY KnownProblem DEF IsKnown, Robots
<1>2. GoodRoute(problem, r, routes[r])
  BY <1>1 DEF IsKnown, GoodRoutes
<1>3. PICK st \in Seq(StopsOn(problem, r)) : st = routes[r].stops
  BY <1>1, <1>2, GoodRouteFacts
<1>4. PICK T : T = DOMAIN problem.tasks
  OBVIOUS
<1>5. PICK w \in Seq(T) : w = st[s].tasks
  <2>1. st[s] \in StopsOn(problem, r)
    BY <1>3
  <2> QED BY <1>4, <2>1 DEF StopsOn, Stops
<1>6. PICK n \in Nat : DOMAIN w = 1..n
  OBVIOUS
<1>7. PICK D : D = DOMAIN w
  OBVIOUS
<1>8. IsFiniteSet(D) /\ \A k \in D : k \in Int
  <2>1. 1 \in Int /\ n \in Int
    OBVIOUS
  <2>2. IsFiniteSet(1..n)
    BY <2>1, FS_Interval
  <2> QED BY <1>6, <1>7, <2>2
<1>9. D = DOMAIN routes[r].stops[s].tasks
  BY <1>3, <1>5, <1>7
<1>10. PICK f : f = [k \in D |-> MovesOf(r, s, k)]
  OBVIOUS
<1>11. \A k \in D : f[k] = MovesOf(r, s, k)
  BY <1>10
<1>12. \A k \in D : AreMoves(f[k])
  BY <1>8, <1>9, <1>11, MovesOfFacts
<1>13. PICK V : V = UNION {f[k] : k \in D}
  OBVIOUS
<1>14. AreMoves(V)
  <2>1. DOMAIN f = D
    BY <1>10
  <2> QED BY <1>8, <1>12, <1>13, <2>1, MovesUnited
<1>15. V = UNION {MovesOf(r, s, k) : k \in D}
  BY <1>11, <1>13
<1> QED BY <1>9, <1>14, <1>15, Zenon DEF MovesAt

LEMMA MovesFromFacts ==
  ASSUME IsKnown(problem), NEW r \in Robots
  PROVE  AreMoves(MovesFrom(r))
<1>1. IsProblem(problem) /\ r \in DOMAIN problem.robots
  BY KnownProblem DEF IsKnown, Robots
<1>2. GoodRoute(problem, r, routes[r])
  BY <1>1 DEF IsKnown, GoodRoutes
<1>3. PICK st \in Seq(StopsOn(problem, r)) : st = routes[r].stops
  BY <1>1, <1>2, GoodRouteFacts
<1>4. PICK n \in Nat : DOMAIN st = 1..n
  OBVIOUS
<1>5. PICK D : D = DOMAIN st
  OBVIOUS
<1>6. IsFiniteSet(D) /\ \A s \in D : s \in Int
  <2>1. 1 \in Int /\ n \in Int
    OBVIOUS
  <2>2. IsFiniteSet(1..n)
    BY <2>1, FS_Interval
  <2> QED BY <1>4, <1>5, <2>2
<1>7. D = DOMAIN routes[r].stops
  BY <1>3, <1>5
<1>8. PICK f : f = [s \in D |-> MovesAt(r, s)]
  OBVIOUS
<1>9. \A s \in D : f[s] = MovesAt(r, s)
  BY <1>8
<1>10. \A s \in D : AreMoves(f[s])
  BY <1>6, <1>7, <1>9, MovesAtFacts
<1>11. PICK V : V = UNION {f[s] : s \in D}
  OBVIOUS
<1>12. AreMoves(V)
  <2>1. DOMAIN f = D
    BY <1>8
  <2> QED BY <1>6, <1>10, <1>11, <2>1, MovesUnited
<1>13. V = UNION {MovesAt(r, s) : s \in D}
  BY <1>9, <1>11
<1> QED BY <1>7, <1>12, <1>13, Zenon DEF MovesFrom

LEMMA MovesFacts ==
  ASSUME IsKnown(problem)
  PROVE  AreMoves(Moves)
<1>1. IsFiniteSet(Robots)
  BY KnownProblem DEF IsKnown
<1>2. PICK f : f = [r \in Robots |-> MovesFrom(r)]
  OBVIOUS
<1>3. \A r \in Robots : f[r] = MovesFrom(r)
  BY <1>2
<1>4. \A r \in Robots : AreMoves(f[r])
  BY <1>3, MovesFromFacts
<1>5. PICK V : V = UNION {f[r] : r \in Robots}
  OBVIOUS
<1>6. AreMoves(V)
  <2>1. DOMAIN f = Robots
    BY <1>2
  <2> QED BY <1>1, <1>4, <1>5, <2>1, MovesUnited
<1>7. V = UNION {MovesFrom(r) : r \in Robots}
  BY <1>3, <1>5
<1> QED BY <1>6, <1>7, Zenon DEF Moves, MovesFrom, MovesAt, MovesOf, MovesTo
-----------------------------------------------------------------------------
(* The move a pass makes.                                                   *)
LEMMA MoveAfter ==
  ASSUME IsKnown(problem), NEW m, IsMove(m)
  PROVE  /\ IsMoved(After(m), m[1], TaskOf(m), m[4], m[5])
         /\ After(m) = MovedRoutes(m[1], TaskOf(m), m[4], m[5])
<1>1. PICK r, t, q, i : r = m[1] /\ t = TaskOf(m) /\ q = m[4] /\ i = m[5]
  OBVIOUS
<1>2. Without(m) = RouteLeft(r, t)
  BY <1>1 DEF Without, RouteLeft
<1>3. Base(m) = RouteTo(r, t, q)
  BY <1>1, <1>2 DEF Base, RouteTo
<1>4. After(m) = [routes EXCEPT ![r] = Without(m), ![q] = With(q, Base(m), t, i)]
  BY <1>1, Zenon DEF After
<1>5. PICK rs : rs = MovedRoutes(r, t, q, i)
  OBVIOUS
<1>6. After(m) = rs
  BY <1>2, <1>3, <1>4, <1>5, Zenon DEF MovedRoutes
<1>7. IsTarget(r, t, q, i)
  BY <1>1 DEF IsMove
<1>8. IsMoved(rs, r, t, q, i)
  BY <1>5, <1>7, MovedFacts
<1> QED BY <1>1, <1>5, <1>6, <1>8

LEMMA CountIsInt ==
  ASSUME IsKnown(problem), NEW r \in Robots
  PROVE  TaskCount(routes[r]) \in Int
<1>1. IsProblem(problem) /\ r \in DOMAIN problem.robots
  BY KnownProblem DEF IsKnown, Robots
<1>2. GoodRoute(problem, r, routes[r])
  BY <1>1 DEF IsKnown, GoodRoutes
<1> QED BY <1>1, <1>2, GoodRouteFacts

LEMMA MoveRobots ==
  ASSUME IsKnown(problem), NEW m, IsMove(m)
  PROVE  m[1] \in Robots /\ m[4] \in Robots /\ TaskOf(m) \in Tasks
<1>1. m[1] \in Robots /\ TaskOf(m) \in Tasks /\ m[4] \in Capable(TaskOf(m))
  BY DEF IsMove, IsTarget, IsHeld
<1> QED BY <1>1, CapableFacts DEF IsKnown

LEMMA RankFacts ==
  ASSUME IsKnown(problem), NEW m, IsMove(m)
  PROVE  Rank(m) \in [1..7 -> Int] /\ SubSeq(Rank(m), 3, 7) = m
<1>1. PICK b : b = (IF phase = "balance" THEN CountDelta(m) ELSE 0)
  OBVIOUS
<1>2. b \in Int
  <2>1. m[1] \in Robots /\ m[4] \in Robots
    BY MoveRobots
  <2>2. TaskCount(routes[m[1]]) \in Int /\ TaskCount(routes[m[4]]) \in Int
    BY <2>1, CountIsInt
  <2>3. CountDelta(m) \in Int
    BY <2>2 DEF CountDelta
  <2> QED BY <1>1, <2>3
<1>3. PICK c \in Int : c = objective(After(m))
  <2>1. GoodRoutes(problem, After(m))
    BY MoveAfter DEF IsMoved
  <2>2. IsProblem(problem)
    BY KnownProblem DEF IsKnown
  <2> QED BY <2>1, <2>2, ObjectiveIsInt
<1>4. PICK a : a = <<b, c>>
  OBVIOUS
<1>5. a \in [1..2 -> Int] /\ m \in [1..5 -> Int] /\ 2 \in Nat /\ 5 \in Nat
  BY <1>2, <1>4 DEF IsMove
<1>6. PICK s : s = a \o m
  OBVIOUS
<1>7. Rank(m) = s
  BY <1>1, <1>3, <1>4, <1>6, Zenon DEF Rank
<1>8. AreJoined(2, 5, s, a, m)
  BY <1>5, <1>6, TuplesJoined
<1>9. /\ s \in [1..7 -> Int] /\ s[3] = m[1] /\ s[4] = m[2] /\ s[5] = m[3] /\ s[6] = m[4]
      /\ s[7] = m[5]
  BY <1>8 DEF AreJoined
<1>10. SubSeq(s, 3, 7) = m
  <2>1. PICK w : w = SubSeq(s, 3, 7)
    OBVIOUS
  <2>2. PICK x, y \in Int : x = 3 /\ y = 7
    OBVIOUS
  <2>3. \A k \in x..y : s[k] \in Int
    BY <1>9, <2>2
  <2>4. /\ w \in Seq(Int) /\ Len(w) = IF x <= y THEN y - x + 1 ELSE 0
        /\ \A k \in 1..(y - x + 1) : w[k] = s[x + k - 1]
    BY <2>1, <2>2, <2>3, SubSeqProperties
  <2>5. Len(w) = 5 /\ \A k \in 1..5 : w[k] = s[k + 2]
    BY <2>2, <2>4
  <2>6. PICK n \in Nat : n = 5
    OBVIOUS
  <2>7. m \in [1..n -> Int]
    BY <1>5, <2>6
  <2>8. m \in Seq(Int) /\ Len(m) = n
    BY <2>7
  <2>9. \A k \in 1..5 : w[k] = m[k]
    BY <1>9, <2>5
  <2>10. w = m
    BY <2>4, <2>5, <2>6, <2>8, <2>9, SeqEqual
  <2> QED BY <2>1, <2>10
<1> QED BY <1>7, <1>9, <1>10

LEMMA WonMove ==
  ASSUME IsKnown(problem), NEW seen \in SUBSET Moves, NEW good,
         good = {Rank(m) : m \in {x \in seen : Better(x)}}, good # {}
  PROVE  \E m \in seen : Better(m) /\ IsMove(m) /\ SubSeq(First(good), 3, 7) = m
<1>1. IsFiniteSet(Moves) /\ \A m \in Moves : IsMove(m)
  BY MovesFacts DEF AreMoves
<1>2. PICK S \in SUBSET seen : S = {x \in seen : Better(x)}
  OBVIOUS
<1>3. \A m \in S : IsMove(m) /\ Better(m) /\ m \in seen
  BY <1>1, <1>2
<1>4. IsFiniteSet(S)
  <2>1. S \in SUBSET Moves
    OBVIOUS
  <2> QED BY <1>1, <2>1, FS_Subset
<1>5. PICK f : f = [m \in S |-> Rank(m)]
  OBVIOUS
<1>6. \A m \in S : f[m] = Rank(m) /\ f[m] \in [1..7 -> Int]
  BY <1>3, <1>5, RankFacts
<1>7. good = {f[m] : m \in S}
  BY <1>2, <1>6
<1>8. PICK K \in SUBSET [1..7 -> Int] : K = good
  BY <1>6, <1>7
<1>9. IsFiniteSet(K) /\ K # {} /\ 7 \in Nat
  <2>1. DOMAIN f = S
    BY <1>5
  <2>2. IsFiniteSet(K)
    BY <1>4, <1>7, <1>8, <2>1, FiniteImages
  <2> QED BY <1>8, <2>2
<1>10. First(K) \in K
  BY <1>9, FirstIsThere
<1>11. PICK m \in S : First(K) = Rank(m)
  BY <1>6, <1>7, <1>8, <1>10
<1>12. SubSeq(First(good), 3, 7) = m
  BY <1>3, <1>8, <1>11, RankFacts
<1> QED BY <1>3, <1>12

IsMade(m) ==
  /\ IsMove(m) /\ Better(m)
  /\ Passable(Without(m)) /\ Passable(After(m)[m[4]])
  /\ routes' = After(m) /\ phase' = phase /\ before' = before

LEMMA PassSteps ==
  ASSUME IsKnown(problem), Pass
  PROVE  /\ problem' = problem /\ remaining' = remaining
         /\ (\E m : IsMade(m)) \/ (NextPhase /\ routes' = routes)
<1>1. problem' = problem /\ remaining' = remaining
  BY DEF Pass
<1>2. PICK last \in Budgeted :
        LET seen == Seen(last) \cap Moves
            good == {Rank(m) : m \in {x \in seen : Better(x)}}
            won == SubSeq(First(good), 3, 7)
        IN /\ \A look \in Seen(last) : Passable(Without(look))
           /\ \A m \in seen : Passable(After(m)[m[4]])
           /\ IF good # {}
              THEN /\ routes' = After(won)
                   /\ UNCHANGED <<phase, before>>
              ELSE NextPhase /\ UNCHANGED <<routes, balanced>>
  BY Zenon DEF Pass
<1>3. PICK seen \in SUBSET Moves : seen = Seen(last) \cap Moves
  OBVIOUS
<1>4. PICK good : good = {Rank(m) : m \in {x \in seen : Better(x)}}
  OBVIOUS
<1>5. /\ \A look \in Seen(last) : Passable(Without(look))
      /\ \A m \in seen : Passable(After(m)[m[4]])
      /\ IF good # {}
         THEN /\ routes' = After(SubSeq(First(good), 3, 7))
              /\ UNCHANGED <<phase, before>>
         ELSE NextPhase /\ UNCHANGED <<routes, balanced>>
  BY <1>2, <1>3, <1>4, Zenon
<1>6. CASE good # {}
  <2>1. PICK m \in seen : Better(m) /\ IsMove(m) /\ SubSeq(First(good), 3, 7) = m
    BY <1>4, <1>6, WonMove
  <2>2. routes' = After(SubSeq(First(good), 3, 7)) /\ phase' = phase /\ before' = before
    BY <1>5, <1>6
  <2>3. routes' = After(m)
    BY <2>1, <2>2, Zenon
  <2>4. Passable(Without(m)) /\ Passable(After(m)[m[4]])
    BY <1>3, <1>5
  <2>5. IsMade(m)
    BY <2>1, <2>2, <2>3, <2>4 DEF IsMade
  <2> QED BY <1>1, <2>5
<1>7. CASE good = {}
  <2>1. NextPhase /\ routes' = routes
    BY <1>5, <1>7
  <2> QED BY <1>1, <2>1
<1> QED BY <1>6, <1>7

LEMMA MadeKeeps ==
  ASSUME AllocationInv, NEW m, IsMade(m), problem' = problem, remaining' = remaining, Searching
  PROVE  AllocationInv'
<1>1. /\ problem \in Problems /\ RoutesKept /\ GoodRoutes(problem, routes)
      /\ Assigned(routes, remaining) /\ BalanceKept
  BY DEF AllocationInv, RoutesKept
<1>2. IsKnown(problem)
  BY <1>1 DEF IsKnown
<1>3. /\ IsMove(m) /\ Better(m) /\ Passable(Without(m)) /\ Passable(After(m)[m[4]])
      /\ routes' = After(m) /\ phase' = phase /\ before' = before
  BY DEF IsMade
<1>4. PICK r, t, q, i : r = m[1] /\ t = TaskOf(m) /\ q = m[4] /\ i = m[5]
  OBVIOUS
<1>5. PICK rs : rs = After(m)
  OBVIOUS
<1>6. IsMoved(rs, r, t, q, i)
  BY <1>2, <1>3, <1>4, <1>5, MoveAfter
<1>7. Robots' = Robots /\ Tasks' = Tasks /\ Options' = Options
  BY DEF Robots, Tasks, Options
<1>8. Assigned(rs, remaining)
  <2>1. IsTarget(r, t, q, i)
    BY <1>3, <1>4 DEF IsMove
  <2> QED BY <1>2, <1>6, <2>1, MovedAssigned
<1>9. Assigned(routes, remaining)'
  BY <1>3, <1>5, <1>7, <1>8 DEF Assigned
<1>10. \A x \in Robots : Passable(rs[x])
  <2>1. Without(m) = RouteLeft(r, t)
    BY <1>4 DEF Without, RouteLeft
  <2>2. \A x \in Robots : Passable(routes[x])
    BY <1>1 DEF RoutesKept
  <2>3. (q # r => rs[r] = RouteLeft(r, t)) /\ \A x \in Robots : x # q /\ x # r => rs[x] = routes[x]
    BY <1>6 DEF IsMoved
  <2>4. Passable(rs[q])
    BY <1>3, <1>4, <1>5
  <2> QED BY <1>3, <2>1, <2>2, <2>3, <2>4
<1>11. RoutesKept'
  <2>1. GoodRoutes(problem, rs)
    BY <1>6 DEF IsMoved
  <2> QED BY <1>3, <1>5, <1>7, <1>10, <2>1 DEF RoutesKept
<1>12. BalanceKept'
  <2>1. CASE phase = "balance"
    <3>1. within_slack(rs, before, Options.slack)
      BY <1>3, <1>5, <2>1, Zenon DEF Better
    <3>2. IsWithin(routes, before)
      BY <1>1, <2>1 DEF BalanceKept
    <3>3. IsWithin(rs, before)
      BY <3>1, <3>2 DEF IsWithin
    <3>4. IsWithin(routes, before)'
      BY <1>3, <1>5, <1>7, <3>3 DEF IsWithin, within_slack
    <3> QED BY <3>4 DEF BalanceKept
  <2>2. CASE phase = "relocate"
    BY <1>3, <2>2 DEF BalanceKept
  <2> QED BY <2>1, <2>2 DEF Searching
<1> QED BY <1>1, <1>9, <1>11, <1>12 DEF AllocationInv

LEMMA PhaseKeeps ==
  ASSUME AllocationInv, NextPhase, Searching,
         routes' = routes, problem' = problem, remaining' = remaining
  PROVE  AllocationInv'
<1>1. problem \in Problems /\ RoutesKept /\ Assigned(routes, remaining) /\ BalanceKept
  BY DEF AllocationInv
<1>2. Robots' = Robots /\ Tasks' = Tasks /\ Options' = Options
  BY DEF Robots, Tasks, Options
<1>3. RoutesKept' /\ Assigned(routes, remaining)'
  BY <1>1, <1>2 DEF RoutesKept, Assigned
<1>4. IsWithin(routes, before')
  <2>1. CASE phase = "relocate"
    <3>1. before' = routes
      BY <2>1 DEF NextPhase
    <3>2. IsProblem(problem) /\ GoodRoutes(problem, routes) /\ \A r \in Robots : Passable(routes[r])
      BY <1>1, KnownProblem DEF RoutesKept
    <3>3. IsWithin(routes, routes)
      BY <3>2, WithinOneself
    <3> QED BY <3>1, <3>3
  <2>2. CASE phase = "balance"
    <3>1. before' = before
      BY <2>2 DEF NextPhase
    <3> QED BY <1>1, <2>2, <3>1 DEF BalanceKept
  <2> QED BY <2>1, <2>2 DEF Searching
<1>5. IsWithin(routes, before)'
  BY <1>2, <1>4 DEF IsWithin, within_slack
<1> QED BY <1>1, <1>3, <1>5 DEF AllocationInv, BalanceKept
-----------------------------------------------------------------------------
(* The invariant, from the start and over every step.                       *)
LEMMA EmptyRoute ==
  ASSUME NEW p, IsProblem(p), NEW r \in DOMAIN p.robots, NEW route,
         route = rebuild(p.robots[r], << >>)
  PROVE  GoodRoute(p, r, route) /\ Passable(route) /\ \A t : ~On(route, t)
<1>1. PICK P, T, b : P = PlacesOf(p, r) /\ T = DOMAIN p.tasks /\ b = p.robots[r]
  OBVIOUS
<1>2. IsRobot(b, P)
  BY <1>1, ProblemFacts
<1>3. PICK s \in Seq(Stops(P, T)) : s = << >>
  <2>1. PICK S : S = Stops(P, T)
    OBVIOUS
  <2>2. << >> \in Seq(S)
    OBVIOUS
  <2> QED BY <2>1, <2>2
<1>4. Len(s) = 0
  BY <1>3
<1>5. route.stops = s /\ route.legs = LegsOf(b, s)
  BY <1>1, <1>3 DEF rebuild
<1>6. Exact(P, T, b, route)
  BY <1>1, <1>3, <1>5 DEF Exact
<1>7. GoodStops(p, r, s)
  BY <1>1, <1>3, <1>4 DEF GoodStops, StopsOn, Apart
<1>8. GoodRoute(p, r, route)
  BY <1>1, <1>5, <1>6, <1>7 DEF GoodRoute
<1>9. Passable(route)
  <2>1. PICK L : L = LegsOf(b, s)
    OBVIOUS
  <2>2. AreLegs(b, s, L)
    BY <1>2, <2>1, LegsFacts
  <2>3. L \in Seq(Int) /\ Len(L) = 0
    BY <1>4, <2>2 DEF AreLegs, LegCount
  <2>4. Range(L) = {}
    BY <2>3 DEF Range
  <2> QED BY <1>5, <2>1, <2>4 DEF Passable
<1>10. \A t : ~On(route, t)
  BY <1>4, <1>5 DEF On
<1> QED BY <1>8, <1>9, <1>10

LEMMA AllocationStarts ==
  ASSUME Init
  PROVE  AllocationInv
<1>1. /\ problem \in Problems /\ phase = "insert" /\ remaining = Tasks
      /\ routes = [r \in Robots |-> rebuild(problem.robots[r], <<>>)]
  BY DEF Init
<1>2. IsProblem(problem)
  BY <1>1, KnownProblem
<1>3. ASSUME NEW r \in Robots
      PROVE  /\ GoodRoute(problem, r, routes[r]) /\ Passable(routes[r])
             /\ \A t : ~On(routes[r], t)
  <2>1. routes[r] = rebuild(problem.robots[r], << >>)
    BY <1>1
  <2>2. r \in DOMAIN problem.robots
    BY DEF Robots
  <2> QED BY <1>2, <2>1, <2>2, EmptyRoute
<1>4. RoutesKept
  BY <1>1, <1>3 DEF RoutesKept, GoodRoutes, Robots
<1>5. Assigned(routes, remaining)
  BY <1>1, <1>3 DEF Assigned
<1>6. BalanceKept
  BY <1>1 DEF BalanceKept
<1> QED BY <1>1, <1>4, <1>5, <1>6 DEF AllocationInv

LEMMA AllocationStutters ==
  ASSUME AllocationInv, problem' = problem, routes' = routes, remaining' = remaining,
         BalanceKept'
  PROVE  AllocationInv'
<1>1. Robots' = Robots /\ Tasks' = Tasks
  BY DEF Robots, Tasks
<1>2. RoutesKept' /\ Assigned(routes, remaining)'
  BY <1>1 DEF AllocationInv, RoutesKept, Assigned
<1> QED BY <1>2 DEF AllocationInv

LEMMA AllocationKept ==
  ASSUME AllocationInv, [Next]_vars
  PROVE  AllocationInv'
<1>1. IsKnown(problem) /\ BalanceKept
  BY DEF AllocationInv, RoutesKept, IsKnown
<1>2. CASE InsertNext
  BY <1>2, InsertKeeps
<1>3. CASE InsertionFails
  <2>1. BalanceKept'
    BY <1>3 DEF InsertionFails, BalanceKept
  <2> QED BY <1>3, <2>1, AllocationStutters DEF InsertionFails
<1>4. CASE InsertionEnds
  <2>1. BalanceKept'
    BY <1>4 DEF InsertionEnds, BalanceKept
  <2> QED BY <1>4, <2>1, AllocationStutters DEF InsertionEnds
<1>5. CASE Pass
  <2>1. Searching
    BY <1>5 DEF Pass
  <2>2. /\ problem' = problem /\ remaining' = remaining
        /\ (\E m : IsMade(m)) \/ (NextPhase /\ routes' = routes)
    BY <1>1, <1>5, PassSteps
  <2>3. CASE \E m : IsMade(m)
    BY <2>1, <2>2, <2>3, MadeKeeps
  <2>4. CASE NextPhase /\ routes' = routes
    BY <2>1, <2>2, <2>4, PhaseKeeps
  <2> QED BY <2>2, <2>3, <2>4
<1>6. CASE PassFails
  <2>1. BalanceKept'
    BY <1>6 DEF PassFails, BalanceKept
  <2>2. problem' = problem /\ routes' = routes /\ remaining' = remaining
    BY <1>6 DEF PassFails
  <2> QED BY <2>1, <2>2, AllocationStutters
<1>7. CASE PhaseEnds
  <2>1. /\ Searching /\ NextPhase
        /\ problem' = problem /\ routes' = routes /\ remaining' = remaining
    BY <1>7 DEF PhaseEnds
  <2> QED BY <2>1, PhaseKeeps
<1>8. CASE Conclude
  <2>1. /\ phase = "check" /\ phase' = "done" /\ problem' = problem /\ remaining' = remaining
        /\ before' = before
        /\ routes' = IF balanced > 0 /\ ~within_slack(routes, before, Options.slack)
                     THEN before ELSE routes
    BY <1>8 DEF Conclude
  <2>2. IsWithin(routes, before)
    BY <1>1, <2>1 DEF BalanceKept
  <2>3. routes' = routes
    BY <2>1, <2>2, Zenon DEF IsWithin
  <2>4. Options' = Options
    BY <2>1 DEF Options
  <2>5. IsWithin(routes, before)'
    BY <2>1, <2>2, <2>3, <2>4 DEF IsWithin, within_slack
  <2>6. BalanceKept'
    BY <2>5 DEF BalanceKept
  <2> QED BY <2>1, <2>3, <2>6, AllocationStutters
<1>9. CASE Returned \/ UNCHANGED vars
  <2>1. UNCHANGED vars
    BY <1>9 DEF Returned
  <2>2. /\ problem' = problem /\ routes' = routes /\ remaining' = remaining
        /\ phase' = phase /\ before' = before
    BY <2>1 DEF vars
  <2>3. Options' = Options
    BY <2>2 DEF Options
  <2>4. BalanceKept'
    BY <1>1, <2>2, <2>3 DEF BalanceKept, IsWithin, within_slack
  <2> QED BY <2>2, <2>4, AllocationStutters
<1> QED BY <1>2, <1>3, <1>4, <1>5, <1>6, <1>7, <1>8, <1>9 DEF Next

(* What is on the routes and what is left, how the loads stand to those     *)
(* before balancing: kept by every step of the allocation.                  *)
THEOREM AllocationIsKept == Spec => []AllocationInv
<1>1. Init => AllocationInv
  BY AllocationStarts
<1>2. AllocationInv /\ [Next]_vars => AllocationInv'
  BY AllocationKept
<1> QED BY <1>1, <1>2, PTL DEF Spec
-----------------------------------------------------------------------------
LEMMA ExactStop ==
  ASSUME IsProblem(problem), NEW r, NEW stop, GoodStop(problem, r, stop)
  PROVE  /\ stop.service =
              Total([k \in DOMAIN stop.tasks |-> problem.tasks[stop.tasks[k]].service])
         /\ stop.tolerance = Greatest({problem.tasks[t].tolerance : t \in Range(stop.tasks)})
<1>1. PICK T : T = DOMAIN problem.tasks
  OBVIOUS
<1>2. PICK w \in Seq(T) : w = stop.tasks
  BY <1>1 DEF GoodStop, StopsOn, Stops
<1>3. AreAmounts(ServiceOf(problem), ToleranceOf(problem), w, stop.service, stop.tolerance)
  BY <1>2 DEF GoodStop
<1>4. \A k \in DOMAIN w : w[k] \in T
  OBVIOUS
<1>5. \A t \in T : /\ ServiceOf(problem)[t] = problem.tasks[t].service
                   /\ ToleranceOf(problem)[t] = problem.tasks[t].tolerance
  BY <1>1 DEF ServiceOf, ToleranceOf
<1>6. Images(ServiceOf(problem), w) = [k \in DOMAIN w |-> problem.tasks[w[k]].service]
  BY <1>4, <1>5 DEF Images
<1>7. stop.service = Total([k \in DOMAIN w |-> problem.tasks[w[k]].service])
  BY <1>3, <1>6, Zenon DEF AreAmounts, SumOf
<1>8. Tolerances(ToleranceOf(problem), w) = {problem.tasks[t].tolerance : t \in Range(w)}
  BY <1>4, <1>5 DEF Tolerances, Range
<1>9. stop.tolerance = Greatest({problem.tasks[t].tolerance : t \in Range(w)})
  BY <1>3, <1>8, Zenon DEF AreAmounts
<1> QED BY <1>2, <1>7, <1>9

LEMMA AllocationExact ==
  ASSUME AllocationInv
  PROVE  StatesExact
<1>1. IsProblem(problem) /\ GoodRoutes(problem, routes)
  BY KnownProblem DEF AllocationInv, RoutesKept
<1>2. ASSUME NEW r \in Robots
      PROVE  /\ routes[r] = rebuild(problem.robots[r], routes[r].stops)
             /\ \A stop \in StopsOf(r) : GoodStop(problem, r, stop)
  <2>1. GoodRoute(problem, r, routes[r])
    BY <1>1 DEF GoodRoutes, Robots
  <2>2. routes[r] = rebuild(problem.robots[r], routes[r].stops)
    BY <2>1, Zenon DEF GoodRoute, Exact
  <2>3. PICK s \in Seq(StopsOn(problem, r)) : s = routes[r].stops /\ GoodStops(problem, r, s)
    BY <2>1 DEF GoodRoute, GoodStops
  <2>4. \A k \in DOMAIN s : GoodStop(problem, r, s[k])
    BY <2>3 DEF GoodStops
  <2>5. \A stop \in StopsOf(r) : GoodStop(problem, r, stop)
    BY <2>3, <2>4 DEF StopsOf, Range
  <2> QED BY <2>2, <2>5
<1>3. ASSUME NEW r \in Robots, NEW stop \in StopsOf(r)
      PROVE  /\ stop.service =
                  Total([k \in DOMAIN stop.tasks |-> problem.tasks[stop.tasks[k]].service])
             /\ stop.tolerance = Greatest({problem.tasks[t].tolerance : t \in Range(stop.tasks)})
  BY <1>1, <1>2, <1>3, ExactStop
<1> QED BY <1>2, <1>3, Zenon DEF StatesExact

(* What is kept of a route leg by leg (travel, service, stop tolerances) is *)
(* always what a route with these stops and tasks amounts to, however many  *)
(* moves were made before (offline_mission_planner.cpp:75-220).             *)
THEOREM KeepsStatesExact == Spec => []StatesExact
<1>1. AllocationInv => StatesExact
  BY AllocationExact
<1> QED BY <1>1, AllocationIsKept, PTL

LEMMA AllocationWithin ==
  ASSUME AllocationInv
  PROVE  SlackKept
<1> SUFFICES ASSUME phase \in {"balance", "check", "done"}
             PROVE  /\ 100 * (MaximumLoad(routes) - MaximumLoad(before))
                         <= MaximumLoad(before) * Options.slack
                    /\ 100 * (TotalLoad(routes) - TotalLoad(before))
                         <= TotalLoad(before) * Options.slack
  BY Zenon DEF SlackKept
<1>1. IsProblem(problem) /\ GoodRoutes(problem, routes) /\ IsWithin(routes, before)
  BY KnownProblem DEF AllocationInv, RoutesKept, BalanceKept
<1>2. MaximumLoad(routes) \in Int /\ TotalLoad(routes) \in Int
  BY <1>1, LoadsFacts
<1>3. MaximumLoad(before) \in Int /\ TotalLoad(before) \in Int
  BY <1>1 DEF IsWithin
<1>4. Options.slack \in Int
  <2>1. Options.slack \in Nat
    BY <1>1, Zenon DEF IsProblem, Options
  <2> QED BY <2>1
<1>5. ASSUME NEW x \in Int, NEW y \in Int, NEW k \in Int, 100 * x <= y * (100 + k)
      PROVE  100 * (x - y) <= y * k
  <2>1. PICK z \in Int : z = y * k
    OBVIOUS
  <2>2. y * (100 + k) = 100 * y + y * k
    OBVIOUS
  <2> QED BY <1>5, <2>1, <2>2
<1>6. /\ 100 * MaximumLoad(routes) <= MaximumLoad(before) * (100 + Options.slack)
      /\ 100 * TotalLoad(routes) <= TotalLoad(before) * (100 + Options.slack)
  BY <1>1 DEF IsWithin, within_slack
<1>7. 100 * (MaximumLoad(routes) - MaximumLoad(before)) <= MaximumLoad(before) * Options.slack
  BY <1>2, <1>3, <1>4, <1>5, <1>6
<1>8. 100 * (TotalLoad(routes) - TotalLoad(before)) <= TotalLoad(before) * Options.slack
  BY <1>2, <1>3, <1>4, <1>5, <1>6
<1> QED BY <1>7, <1>8

(* Balancing keeps the loads within its slack of what they were before it,  *)
(* whatever the problem, the budget and the slack, so that the caller's     *)
(* check afterwards (offline_mission_planner.cpp:766) never undoes it.      *)
THEOREM KeepsSlack == Spec => []SlackKept
<1>1. AllocationInv => SlackKept
  BY AllocationWithin
<1> QED BY <1>1, AllocationIsKept, PTL
-----------------------------------------------------------------------------
IsHolder(t, r, k) ==
  /\ r \in Robots /\ k \in DOMAIN routes[r].stops
  /\ t \in Range(routes[r].stops[k].tasks)

Holders(t) ==
  {h \in UNION {{r} \X DOMAIN routes[r].stops : r \in Robots} :
     t \in Range(routes[h[1]].stops[h[2]].tasks)}

LEMMA HolderFacts ==
  ASSUME NEW t
  PROVE  /\ \A h \in Holders(t) : h = <<h[1], h[2]>> /\ IsHolder(t, h[1], h[2])
         /\ \A r, k : IsHolder(t, r, k) => <<r, k>> \in Holders(t)
<1>1. ASSUME NEW h \in Holders(t)
      PROVE  h = <<h[1], h[2]>> /\ IsHolder(t, h[1], h[2])
  <2>1. PICK r \in Robots : h \in {r} \X DOMAIN routes[r].stops
    BY DEF Holders
  <2>2. h = <<h[1], h[2]>> /\ h[1] = r /\ h[2] \in DOMAIN routes[r].stops
    BY <2>1
  <2>3. t \in Range(routes[h[1]].stops[h[2]].tasks)
    BY DEF Holders
  <2> QED BY <2>2, <2>3 DEF IsHolder
<1>2. ASSUME NEW r, NEW k, IsHolder(t, r, k)
      PROVE  <<r, k>> \in Holders(t)
  <2>1. /\ r \in Robots /\ k \in DOMAIN routes[r].stops
        /\ t \in Range(routes[r].stops[k].tasks)
    BY <1>2 DEF IsHolder
  <2>2. PICK h : h = <<r, k>>
    OBVIOUS
  <2>3. h \in {r} \X DOMAIN routes[r].stops /\ h[1] = r /\ h[2] = k
    BY <2>1, <2>2
  <2>4. h \in UNION {{x} \X DOMAIN routes[x].stops : x \in Robots}
    BY <2>1, <2>3
  <2> QED BY <2>1, <2>2, <2>3, <2>4 DEF Holders
<1> QED BY <1>1, <1>2

LEMMA AllocationOnce ==
  ASSUME AllocationInv
  PROVE  EveryTaskOnce
<1>1. /\ IsProblem(problem) /\ GoodRoutes(problem, routes) /\ Assigned(routes, remaining)
  BY KnownProblem DEF AllocationInv, RoutesKept
<1>2. ASSUME NEW r \in Robots
      PROVE  /\ GoodStops(problem, r, routes[r].stops)
             /\ DOMAIN routes[r].stops = 1..Len(routes[r].stops)
  <2>1. GoodRoute(problem, r, routes[r])
    BY <1>1 DEF GoodRoutes, Robots
  <2>2. GoodStops(problem, r, routes[r].stops)
    BY <2>1 DEF GoodRoute
  <2> QED BY <2>2 DEF GoodStops
<1>3. ASSUME NEW t \in Tasks, NEW r, NEW k, IsHolder(t, r, k)
      PROVE  /\ On(routes[r], t) /\ r \in Robots /\ t \notin remaining
             /\ compatible(r, t) /\ routes[r].stops[k].location = problem.tasks[t].location
  <2>1. /\ r \in Robots /\ k \in DOMAIN routes[r].stops
        /\ t \in Range(routes[r].stops[k].tasks)
    BY <1>3 DEF IsHolder
  <2>2. k \in 1..Len(routes[r].stops) /\ GoodStop(problem, r, routes[r].stops[k])
    BY <1>2, <2>1 DEF GoodStops
  <2>3. On(routes[r], t)
    BY <2>1, <2>2 DEF On
  <2>4. Suits(problem, r, t) /\ routes[r].stops[k].location = problem.tasks[t].location
    BY <2>1, <2>2 DEF GoodStop
  <2>5. t \notin remaining
    BY <1>1, <2>1, <2>3 DEF Assigned
  <2> QED BY <2>1, <2>3, <2>4, <2>5 DEF Suits, compatible
<1>4. ASSUME NEW t \in Tasks, t \in remaining
      PROVE  Cardinality(Holders(t)) = 0
  <2>1. Holders(t) = {}
    BY <1>3, <1>4, HolderFacts
  <2> QED BY <2>1, FS_EmptySet
<1>5. ASSUME NEW t \in Tasks, t \notin remaining
      PROVE  Cardinality(Holders(t)) = 1
  <2>1. PICK r \in Robots : On(routes[r], t)
    BY <1>1, <1>5 DEF Assigned
  <2>2. PICK k \in 1..Len(routes[r].stops) : t \in Range(routes[r].stops[k].tasks)
    BY <2>1 DEF On
  <2>3. IsHolder(t, r, k)
    BY <1>2, <2>2 DEF IsHolder
  <2>4. ASSUME NEW q, NEW j, IsHolder(t, q, j)
        PROVE  q = r /\ j = k
    <3>1. q = r
      <4>1. On(routes[q], t) /\ q \in Robots
        BY <1>3, <2>4
      <4> QED BY <1>1, <2>1, <4>1 DEF Assigned
    <3>2. j \in 1..Len(routes[r].stops) /\ t \in Range(routes[r].stops[j].tasks)
      BY <1>2, <2>4, <3>1 DEF IsHolder
    <3>3. j = k
      BY <1>2, <2>2, <3>2, OneStop
    <3> QED BY <3>1, <3>3
  <2>5. Holders(t) = {<<r, k>>}
    <3>1. <<r, k>> \in Holders(t)
      BY <2>3, HolderFacts
    <3>2. \A h \in Holders(t) : h = <<r, k>>
      <4> TAKE h \in Holders(t)
      <4>1. h = <<h[1], h[2]>> /\ IsHolder(t, h[1], h[2])
        BY HolderFacts
      <4>2. h[1] = r /\ h[2] = k
        BY <2>4, <4>1
      <4> QED BY <4>1, <4>2
    <3> QED BY <3>1, <3>2
  <2> QED BY <2>5, FS_Singleton
<1>6. ASSUME NEW t \in Tasks
      PROVE  /\ Cardinality(Holders(t)) = IF t \in remaining THEN 0 ELSE 1
             /\ \A h \in Holders(t) :
                  /\ compatible(h[1], t)
                  /\ routes[h[1]].stops[h[2]].location = problem.tasks[t].location
  BY <1>3, <1>4, <1>5, HolderFacts
<1>7. ASSUME NEW r \in Robots
      PROVE  /\ \A stop \in StopsOf(r) : stop.tasks # <<>> /\ IsInjective(stop.tasks)
             /\ IsInjective([i \in DOMAIN routes[r].stops |-> routes[r].stops[i].location])
  <2>1. PICK s : s = routes[r].stops
    OBVIOUS
  <2>2. GoodStops(problem, r, s) /\ DOMAIN s = 1..Len(s)
    BY <1>2, <2>1
  <2>3. \A stop \in StopsOf(r) : stop.tasks # <<>> /\ IsInjective(stop.tasks)
    BY <2>1, <2>2 DEF StopsOf, Range, GoodStops, GoodStop
  <2>4. IsInjective([i \in DOMAIN s |-> s[i].location])
    BY <2>2 DEF GoodStops, Apart, IsInjective
  <2> QED BY <2>1, <2>3, <2>4
<1> QED BY <1>6, <1>7, Zenon DEF EveryTaskOnce, Holders

(* "every task id occurs exactly once among all stops, its requirements are *)
(* covered by the capabilities of its robot, and stops merged at one point  *)
(* keep all ids" (README.md:219, translated): at every moment of insertion, *)
(* relocation and balancing, for any problem.                               *)
THEOREM KeepsEveryTaskOnce == Spec => []EveryTaskOnce
<1>1. AllocationInv => EveryTaskOnce
  BY AllocationOnce
<1> QED BY <1>1, AllocationIsKept, PTL
-----------------------------------------------------------------------------
(* Every move pays.                                                         *)
Squares(rs) == [r \in Robots |-> TaskCount(rs[r]) * TaskCount(rs[r])]

LEMMA SquaresNear ==
  ASSUME NEW a \in Int, NEW b \in Int, a > b + 1
  PROVE  (a - 1) * (a - 1) + (b + 1) * (b + 1) < a * a + b * b
<1>1. PICK x, y \in Int : x = a * a /\ y = b * b
  OBVIOUS
<1>2. (a - 1) * (a - 1) = x - 2 * a + 1
  BY <1>1
<1>3. (b + 1) * (b + 1) = y + 2 * b + 1
  BY <1>1
<1> QED BY <1>1, <1>2, <1>3

LEMMA TwoUpdated ==
  ASSUME NEW n \in Nat, NEW c \in [1..n -> Int], NEW e \in [1..n -> Int],
         NEW r \in 1..n, NEW q \in 1..n, r # q,
         \A x \in 1..n : x # r /\ x # q => e[x] = c[x]
  PROVE  Total(e) = Total(c) - c[r] - c[q] + e[r] + e[q]
<1>1. PICK d : d = [c EXCEPT ![r] = e[r]]
  OBVIOUS
<1>2. /\ d \in [1..n -> Int] /\ d[r] = e[r] /\ d[q] = c[q]
      /\ \A x \in 1..n : x # r => d[x] = c[x]
  BY <1>1
<1>3. /\ c \in Seq(Int) /\ Len(c) = n /\ d \in Seq(Int) /\ Len(d) = n
      /\ e \in Seq(Int) /\ Len(e) = n
  <2>1. \A f \in [1..n -> Int] : f \in Seq(Int) /\ Len(f) = n
    OBVIOUS
  <2>2. d \in [1..n -> Int]
    BY <1>2
  <2> QED BY <2>1, <2>2, Zenon
<1>4. Total(d) = Total(c) - c[r] + d[r]
  <2>1. DifferAt(d, c, r) /\ r \in 1..Len(c)
    BY <1>2, <1>3 DEF DifferAt
  <2>2. TotalDiffersAt(d, c, r)
    BY <1>3, <2>1, TotalDiffers
  <2> QED BY <2>2, Zenon DEF TotalDiffersAt
<1>5. Total(e) = Total(d) - d[q] + e[q]
  <2>1. \A x \in 1..n : x # q => e[x] = d[x]
    BY <1>2
  <2>2. DifferAt(e, d, q) /\ q \in 1..Len(d)
    BY <1>3, <2>1 DEF DifferAt
  <2>3. TotalDiffersAt(e, d, q)
    BY <1>3, <2>2, TotalDiffers
  <2> QED BY <2>3, Zenon DEF TotalDiffersAt
<1>6. Total(c) \in Int /\ Total(d) \in Int /\ Total(e) \in Int
  BY <1>3, TotalIsInt
<1>7. c[r] \in Int /\ c[q] \in Int /\ e[r] \in Int /\ e[q] \in Int
  OBVIOUS
<1> QED BY <1>2, <1>4, <1>5, <1>6, <1>7

LEMMA SpreadDrops ==
  ASSUME IsKnown(problem), NEW r, NEW t, NEW q, NEW i, NEW rs, IsMoved(rs, r, t, q, i),
         r \in Robots, q \in Robots, q # r, CountsApart(r, q)
  PROVE  Total(Squares(rs)) < Total(Squares(routes))
<1>1. PICK n \in Nat : Robots = 1..n
  BY KnownProblem DEF IsKnown
<1>2. PICK a, b \in Int : a = TaskCount(routes[r]) /\ b = TaskCount(routes[q])
  BY CountIsInt
<1>3. a > b + 1
  BY <1>2 DEF CountsApart
<1>4. /\ TaskCount(rs[r]) = a - 1 /\ TaskCount(rs[q]) = b + 1
      /\ \A x \in Robots : x # q /\ x # r => rs[x] = routes[x]
  BY <1>2 DEF IsMoved
<1>5. PICK c, e : c = Squares(routes) /\ e = Squares(rs)
  OBVIOUS
<1>6. \A x \in Robots : /\ c[x] = TaskCount(routes[x]) * TaskCount(routes[x])
                        /\ e[x] = TaskCount(rs[x]) * TaskCount(rs[x])
  BY <1>5 DEF Squares
<1>7. /\ c[r] = a * a /\ c[q] = b * b
      /\ e[r] = (a - 1) * (a - 1) /\ e[q] = (b + 1) * (b + 1)
  BY <1>2, <1>4, <1>6
<1>8. \A x \in Robots : x # r /\ x # q => e[x] = c[x]
  BY <1>4, <1>6
<1>9. \A x \in Robots : c[x] \in Int
  <2> TAKE x \in Robots
  <2>1. PICK z \in Int : z = TaskCount(routes[x])
    BY CountIsInt
  <2>2. z * z \in Int
    OBVIOUS
  <2> QED BY <1>6, <2>1, <2>2
<1>10. (a - 1) * (a - 1) \in Int /\ (b + 1) * (b + 1) \in Int /\ a * a \in Int /\ b * b \in Int
  OBVIOUS
<1>11. \A x \in Robots : e[x] \in Int
  BY <1>7, <1>8, <1>9, <1>10
<1>12. DOMAIN c = Robots /\ DOMAIN e = Robots /\ c = [x \in Robots |-> c[x]] /\ e = [x \in Robots |-> e[x]]
  BY <1>5 DEF Squares
<1>13. c \in [1..n -> Int] /\ e \in [1..n -> Int]
  BY <1>1, <1>9, <1>11, <1>12
<1>14. Total(e) = Total(c) - c[r] - c[q] + e[r] + e[q]
  BY <1>1, <1>8, <1>13, TwoUpdated
<1>15. e[r] + e[q] < c[r] + c[q]
  BY <1>3, <1>7, SquaresNear
<1>16. c[r] \in Int /\ c[q] \in Int /\ e[r] \in Int /\ e[q] \in Int
  BY <1>9, <1>11
<1>17. Total(c) \in Int
  BY <1>13, TotalIsInt
<1>18. PICK u, v, w, x, y \in Int : u = Total(c) /\ v = c[r] /\ w = c[q] /\ x = e[r] /\ y = e[q]
  BY <1>16, <1>17
<1>19. u - v - w + x + y < u
  BY <1>15, <1>18
<1>20. Total(e) < Total(c)
  BY <1>14, <1>18, <1>19, Zenon
<1> QED BY <1>5, <1>20, Zenon

LEMMA MadePays ==
  ASSUME AllocationInv, NEW m, IsMade(m), problem' = problem
  PROVE  /\ phase = "relocate" => objective(routes') < objective(routes)
         /\ phase = "balance" => Spread' < Spread
<1>1. IsKnown(problem)
  BY DEF AllocationInv, RoutesKept, IsKnown
<1>2. IsMove(m) /\ Better(m) /\ routes' = After(m)
  BY DEF IsMade
<1>3. CASE phase = "relocate"
  <2>1. objective(After(m)) < objective(routes)
    BY <1>2, <1>3, Zenon DEF Better
  <2> QED BY <1>2, <1>3, <2>1
<1>4. CASE phase = "balance"
  <2>1. PICK r, t, q, i : r = m[1] /\ t = TaskOf(m) /\ q = m[4] /\ i = m[5]
    OBVIOUS
  <2>2. PICK rs : rs = After(m)
    OBVIOUS
  <2>3. IsMoved(rs, r, t, q, i)
    BY <1>1, <1>2, <2>1, <2>2, MoveAfter
  <2>4. r \in Robots /\ q \in Robots
    BY <1>1, <1>2, <2>1, MoveRobots
  <2>5. q # r /\ CountsApart(r, q)
    BY <1>2, <1>4, <2>1 DEF IsMove
  <2>6. Total(Squares(rs)) < Total(Squares(routes))
    BY <1>1, <2>3, <2>4, <2>5, SpreadDrops
  <2>7. Spread = Total(Squares(routes))
    BY Zenon DEF Spread, Squares
  <2>8. Spread' = Total([x \in Robots' |-> TaskCount(routes'[x]) * TaskCount(routes'[x])])
    BY Zenon DEF Spread
  <2>9. Robots' = Robots /\ routes' = rs
    BY <1>2, <2>2 DEF Robots
  <2>10. Spread' = Total(Squares(rs))
    BY <2>8, <2>9, Zenon DEF Squares
  <2> QED BY <1>4, <2>6, <2>7, <2>10
<1> QED BY <1>3, <1>4

LEMMA StepPays ==
  ASSUME AllocationInv, [Next]_vars
  PROVE  /\ phase = "relocate" => routes' = routes \/ objective(routes') < objective(routes)
         /\ phase = "balance" => routes' = routes \/ Spread' < Spread
<1>1. IsKnown(problem)
  BY DEF AllocationInv, RoutesKept, IsKnown
<1>2. CASE Pass
  <2>1. /\ problem' = problem
        /\ (\E m : IsMade(m)) \/ (NextPhase /\ routes' = routes)
    BY <1>1, <1>2, PassSteps
  <2>2. CASE \E m : IsMade(m)
    <3>1. PICK m : IsMade(m)
      BY <2>2
    <3>2. /\ phase = "relocate" => objective(routes') < objective(routes)
          /\ phase = "balance" => Spread' < Spread
      BY <2>1, <3>1, MadePays
    <3> QED BY <3>2
  <2>3. CASE routes' = routes
    BY <2>3
  <2> QED BY <2>1, <2>2, <2>3
<1>3. CASE InsertNext
  BY <1>3 DEF InsertNext
<1>4. CASE Conclude
  BY <1>4 DEF Conclude
<1>5. CASE InsertionFails \/ InsertionEnds \/ PassFails \/ PhaseEnds
  BY <1>5 DEF InsertionFails, InsertionEnds, PassFails, PhaseEnds
<1>6. CASE Returned \/ UNCHANGED vars
  BY <1>6 DEF Returned, vars
<1> QED BY <1>2, <1>3, <1>4, <1>5, <1>6 DEF Next

(* Every relocation lowers the objective and every balancing move evens the *)
(* task counts out, for any problem: neither search can go round in circles *)
(* (offline_mission_planner.cpp:455-627).                                   *)
THEOREM MovesAlwaysPay == Spec => MovesPay
<1>1. AllocationInv /\ [Next]_vars =>
        [/\ phase = "relocate" => routes' = routes \/ objective(routes') < objective(routes)
         /\ phase = "balance" => routes' = routes \/ Spread' < Spread]_vars
  BY StepPays
<1> QED BY <1>1, AllocationIsKept, PTL DEF Spec, MovesPay
=============================================================================
