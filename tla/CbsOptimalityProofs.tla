------------------------ MODULE CbsOptimalityProofs ------------------------
(***************************************************************************)
(* Theorems about CbsOptimality, for every problem and environment that    *)
(* meets its assumptions: the solution found is one of the cheapest, and   *)
(* when no node is left there is none.                                     *)
(***************************************************************************)
EXTENDS CbsOptimality, OrderLemmas

(* The constraints of node n leave room for the solution s. *)
Inside(n, s) == \A a \in Agents(problem) : Allows(problem, a, n.constraints[a], s[a])

(* No peaceful solution is lost: while the search goes on, each is inside   *)
(* some open node.                                                          *)
Covered ==
  answer = "searching" =>
    \A peace \in Peaceful(problem) : \E n \in tree : Inside(n, peace)

(* The plans of a node cost no more than any its constraints allow.         *)
LowerBound(n) ==
  \A a \in Agents(problem) : \A q \in PlansOf(problem, a) :
    Allows(problem, a, n.constraints[a], q) => PlanCost(n.solution[a]) <= PlanCost(q)

IInv ==
  /\ TypeOK
  /\ answer = "idle" => tree = {}
  /\ Covered
  /\ \A n \in tree : LowerBound(n)
  /\ CheapestFound
  /\ NoneMeansNone
-----------------------------------------------------------------------------
(* The cost of a solution is the sum of what its plans cost.                *)
Costs(p, s) == [a \in Agents(p) |-> PlanCost(s[a])]
AgentCount(p) == Cardinality(Agents(p))

LEMMA TotalIsSum ==
  ASSUME NEW p \in Problems, NEW s \in Solutions(p)
  PROVE  /\ AgentCount(p) \in Nat /\ Agents(p) = 1..AgentCount(p)
         /\ Costs(p, s) \in [1..AgentCount(p) -> Nat]
         /\ \E f : IsSum(f, AgentCount(p), Costs(p, s)) /\ Total(s) = f[AgentCount(p)]
<1>1. PICK n \in Nat : n = AgentCount(p) /\ Agents(p) = 1..n
  BY CostAssumption, FS_CardinalityType DEF AgentCount
<1>2. PICK S : S = UNION {PlansOf(p, a) : a \in Agents(p)}
  OBVIOUS
<1>3. s \in [1..n -> S] /\ \A a \in 1..n : s[a] \in PlansOf(p, a)
  BY <1>1, <1>2 DEF Solutions
<1>4. \A a \in 1..n : PlanCost(s[a]) \in Nat
  BY <1>1, <1>3, CostAssumption
<1>5. PICK cost : cost = Costs(p, s)
  OBVIOUS
<1>6. cost = [a \in 1..n |-> PlanCost(s[a])]
  BY <1>1, <1>5 DEF Costs
<1>7. cost \in [1..n -> Nat]
  BY <1>4, <1>6
<1>8. Len(s) = n
  BY <1>3
<1>9. \E g : g = [k \in 0..n |-> IF k = 0 THEN 0 ELSE g[k - 1] + cost[k]]
  BY <1>7, SumExists, Zenon DEF IsSum
<1>10. \A g : g = [k \in 0..n |-> IF k = 0 THEN 0 ELSE g[k - 1] + cost[k]] <=>
              g = [k \in 0..n |-> IF k = 0 THEN 0 ELSE g[k - 1] + PlanCost(s[k])]
  <2> TAKE g
  <2>1. \A k \in 0..n : k # 0 => cost[k] = PlanCost(s[k])
    BY <1>6
  <2>2. [k \in 0..n |-> IF k = 0 THEN 0 ELSE g[k - 1] + cost[k]] =
        [k \in 0..n |-> IF k = 0 THEN 0 ELSE g[k - 1] + PlanCost(s[k])]
    BY <2>1
  <2> QED BY <2>2
<1> DEFINE upTo == CHOOSE g : g = [k \in 0..n |-> IF k = 0 THEN 0
                                                  ELSE g[k - 1] + PlanCost(s[k])]
<1>11. upTo = [k \in 0..n |-> IF k = 0 THEN 0 ELSE upTo[k - 1] + PlanCost(s[k])]
  BY <1>9, <1>10, Zenon
<1>12. Total(s) = upTo[n]
  BY <1>8, Zenon DEF Total
<1> HIDE DEF upTo
<1>13. IsSum(upTo, n, cost)
  BY <1>10, <1>11, Zenon DEF IsSum
<1>14. \E f : IsSum(f, n, cost) /\ Total(s) = f[n]
  BY <1>12, <1>13, Zenon
<1> QED BY <1>1, <1>5, <1>7, <1>14

LEMMA TotalNatural ==
  ASSUME NEW p \in Problems, NEW s \in Solutions(p)
  PROVE  Total(s) \in Nat
<1>1. PICK n, cs : n = AgentCount(p) /\ cs = Costs(p, s)
  OBVIOUS
<1>2. n \in Nat /\ cs \in [1..n -> Nat]
  BY <1>1, TotalIsSum
<1>3. PICK f : IsSum(f, n, cs) /\ Total(s) = f[n]
  BY <1>1, TotalIsSum
<1>4. n \in 0..n /\ f[n] \in Nat
  BY <1>2, <1>3, SumGrows
<1> QED BY <1>3, <1>4

(* A solution whose plans cost no more costs no more.                       *)
LEMMA TotalOrder ==
  ASSUME NEW p \in Problems, NEW s \in Solutions(p), NEW t \in Solutions(p),
         \A a \in Agents(p) : PlanCost(s[a]) <= PlanCost(t[a])
  PROVE  Total(s) <= Total(t)
<1>1. PICK n, cs, ct : n = AgentCount(p) /\ cs = Costs(p, s) /\ ct = Costs(p, t)
  OBVIOUS
<1>2. n \in Nat /\ Agents(p) = 1..n /\ cs \in [1..n -> Nat] /\ ct \in [1..n -> Nat]
  BY <1>1, TotalIsSum
<1>3. PICK f : IsSum(f, n, cs) /\ Total(s) = f[n]
  BY <1>1, TotalIsSum
<1>4. PICK g : IsSum(g, n, ct) /\ Total(t) = g[n]
  BY <1>1, TotalIsSum
<1>5. \A k \in 1..n : cs[k] <= ct[k]
  BY <1>1, <1>2 DEF Costs
<1>6. \A k \in 0..n : f[k] <= g[k]
  BY <1>2, <1>3, <1>4, <1>5, SumOrder
<1> QED BY <1>2, <1>3, <1>4, <1>6

(* Putting in another plan changes it by the difference of the two.         *)
LEMMA TotalDiffers ==
  ASSUME NEW p \in Problems, NEW s \in Solutions(p), NEW t \in Solutions(p),
         NEW a \in Agents(p), \A b \in Agents(p) : b # a => t[b] = s[b]
  PROVE  Total(t) = Total(s) - PlanCost(s[a]) + PlanCost(t[a])
<1>1. PICK n, cs, ct : n = AgentCount(p) /\ cs = Costs(p, s) /\ ct = Costs(p, t)
  OBVIOUS
<1>2. n \in Nat /\ Agents(p) = 1..n /\ cs \in [1..n -> Nat] /\ ct \in [1..n -> Nat]
  BY <1>1, TotalIsSum
<1>3. PICK f : IsSum(f, n, cs) /\ Total(s) = f[n]
  BY <1>1, TotalIsSum
<1>4. PICK g : IsSum(g, n, ct) /\ Total(t) = g[n]
  BY <1>1, TotalIsSum
<1>5. \A k \in 1..n : k # a => ct[k] = cs[k]
  BY <1>1, <1>2 DEF Costs
<1>6. Differs(f, g, n, a, cs, ct)
  BY <1>2, <1>3, <1>4, <1>5, SumDiffers
<1>7. cs[a] = PlanCost(s[a]) /\ ct[a] = PlanCost(t[a])
  BY <1>1, <1>2 DEF Costs
<1> QED BY <1>3, <1>4, <1>6, <1>7 DEF Differs
-----------------------------------------------------------------------------
(* A node inside whose constraints a solution lies costs no more than it.   *)
LEMMA NodeIsBound ==
  ASSUME IInv, NEW n \in tree, NEW s \in Solutions(problem), Inside(n, s)
  PROVE  n.cost <= Total(s)
<1>1. problem \in Problems /\ n.solution \in Solutions(problem) /\ n.cost = Total(n.solution)
  BY DEF IInv, TypeOK, NodeOK
<1>2. \A a \in Agents(problem) : PlanCost(n.solution[a]) <= PlanCost(s[a])
  BY DEF IInv, LowerBound, Inside, Solutions
<1> QED BY <1>1, <1>2, TotalOrder

LEMMA StartKeepsInv ==
  ASSUME IInv, Start
  PROVE  IInv'
<1> DEFINE free == [a \in Agents(problem) |-> {}]
           options == [a \in Agents(problem) |-> LowLevel(problem, a, {})]
<1>1. problem \in Problems /\ problem' = problem /\ taken' = 0 /\ answer = "idle"
  BY DEF IInv, TypeOK, Start
<1>2. {} \in ConstraintSets(problem)
  BY <1>1, ConstraintsAssumption
<1>3. CASE (\E a \in Agents(problem) : options[a] = {}) /\ answer' = "none" /\ tree' = {}
  <2>1. PICK a \in Agents(problem) : LowLevel(problem, a, {}) = {}
    BY <1>3
  <2>2. \A q \in PlansOf(problem, a) : FALSE
    BY <1>1, <1>2, <2>1, LowLevelAssumption, ConstraintsAssumption
  <2>3. Solutions(problem) = {}
    BY <2>2 DEF Solutions
  <2>4. Peaceful(problem) = {}
    BY <2>3 DEF Peaceful
  <2> QED BY <1>1, <1>3, <2>4
           DEF IInv, TypeOK, Covered, LowerBound, CheapestFound, NoneMeansNone, Peaceful
<1>4. CASE (\E solution \in Selections(options) : tree' = {Node(0, solution, free, Total(solution))})
           /\ answer' = "searching"
  <2>1. PICK solution \in Selections(options) : tree' = {Node(0, solution, free, Total(solution))}
    BY <1>4
  <2>2. \A a \in Agents(problem) : solution[a] \in LowLevel(problem, a, {})
    BY <2>1 DEF Selections
  <2>3. solution \in Solutions(problem)
    <3>1. \A a \in Agents(problem) : solution[a] \in PlansOf(problem, a)
      BY <1>1, <1>2, <2>2, LowLevelAssumption
    <3>2. solution \in [Agents(problem) -> UNION {options[a] : a \in Agents(problem)}]
      BY <2>1 DEF Selections
    <3>3. solution = [a \in Agents(problem) |-> solution[a]]
      BY <3>2
    <3>4. solution \in [Agents(problem) -> UNION {PlansOf(problem, a) : a \in Agents(problem)}]
      BY <3>1, <3>3
    <3> QED BY <3>1, <3>4 DEF Solutions
  <2> DEFINE root == Node(0, solution, free, Total(solution))
  <2>4. /\ root.solution = solution /\ root.constraints = free
        /\ root.cost = Total(solution)
    BY DEF Node
  <2>5. NodeOK(root)
    BY <1>2, <2>3, <2>4 DEF NodeOK
  <2>6. LowerBound(root)
    <3> SUFFICES ASSUME NEW a \in Agents(problem), NEW q \in PlansOf(problem, a),
                        Allows(problem, a, root.constraints[a], q)
                 PROVE  PlanCost(root.solution[a]) <= PlanCost(q)
      BY DEF LowerBound
    <3>1. Allows(problem, a, {}, q)
      BY <2>4
    <3>2. {} \in ConstraintSets(problem) /\ solution[a] \in LowLevel(problem, a, {})
      BY <1>1, <2>2, ConstraintsAssumption
    <3>3. \A plan \in LowLevel(problem, a, {}), r \in PlansOf(problem, a) :
            Allows(problem, a, {}, r) => PlanCost(plan) <= PlanCost(r)
      <4>1. problem \in Problems /\ {} \in ConstraintSets(problem)
        BY <1>1, <3>2
      <4>2. \A plan \in LowLevel(problem, a, {}), r \in PlansOf(problem, a) :
              Allows(problem, a, {}, r) => PlanCost(plan) <= PlanCost(r)
        BY <4>1, LowLevelAssumption, Zenon
      <4> QED BY <4>2, Zenon
    <3>4. PlanCost(solution[a]) <= PlanCost(q)
      BY <3>1, <3>2, <3>3, Zenon
    <3> QED BY <2>4, <3>4
  <2>7. \A peace \in Solutions(problem) : Inside(root, peace)
    <3>1. \A a \in Agents(problem) : \A q \in PlansOf(problem, a) :
            Allows(problem, a, {}, q)
      BY <1>1, ConstraintsAssumption, Zenon
    <3>2. \A a \in Agents(problem) : root.constraints[a] = {}
      BY <2>4
    <3>3. \A peace \in Solutions(problem) : \A a \in Agents(problem) :
            peace[a] \in PlansOf(problem, a)
      BY DEF Solutions
    <3> QED BY <3>1, <3>2, <3>3, Zenon DEF Inside
  <2> HIDE DEF root, free, options
  <2>8. tree' = {root}
    BY <2>1 DEF root
  <2>9. TypeOK'
    BY <1>1, <1>4, <2>5, <2>8 DEF TypeOK, NodeOK
  <2>10. Covered'
    BY <1>1, <2>7, <2>8 DEF Covered, Inside, Peaceful
  <2>11. (\A n \in tree : LowerBound(n))'
    BY <1>1, <2>6, <2>8 DEF LowerBound
  <2> QED BY <1>4, <2>9, <2>10, <2>11 DEF IInv, CheapestFound, NoneMeansNone
<1> QED BY <1>3, <1>4 DEF Start

(* The cheapest node bounds every peaceful solution from below; as its own  *)
(* plans are peaceful it is one of the cheapest.                            *)
LEMMA SolveKeepsInv ==
  ASSUME IInv, Solve
  PROVE  IInv'
<1>1. PICK n \in Cheapest : /\ FirstConflict(problem, n.solution) = {}
                            /\ tree' = tree \ {n}
                            /\ agreed' = n.solution
  BY DEF Solve
<1>2. /\ answer = "searching" /\ answer' = "found" /\ problem' = problem
      /\ taken' = taken + 1 /\ problem \in Problems /\ taken \in Nat
  BY DEF Solve, IInv, TypeOK
<1>3. n \in tree /\ n.solution \in Solutions(problem) /\ n.cost = Total(n.solution)
  BY <1>1 DEF Cheapest, IInv, TypeOK, NodeOK
<1>4. n.solution \in Peaceful(problem)
  BY <1>1, <1>3 DEF Peaceful
<1>5. ASSUME NEW peace \in Peaceful(problem)
      PROVE  Total(n.solution) <= Total(peace)
  <2>1. PICK m \in tree : Inside(m, peace)
    BY <1>2 DEF IInv, Covered
  <2>2. peace \in Solutions(problem)
    BY DEF Peaceful
  <2>3. m.cost <= Total(peace)
    BY <2>1, <2>2, NodeIsBound
  <2>4. n.cost <= m.cost
    BY <1>1 DEF Cheapest
  <2>5. n.cost \in Int /\ m.cost \in Int /\ Total(peace) \in Int
    <3>1. m.solution \in Solutions(problem) /\ m.cost = Total(m.solution)
      BY DEF IInv, TypeOK, NodeOK
    <3> QED BY <1>2, <1>3, <2>2, <3>1, TotalNatural
  <2> QED BY <1>3, <2>3, <2>4, <2>5
<1>6. TypeOK'
  BY <1>1, <1>2, <1>3 DEF IInv, TypeOK, NodeOK
<1>7. CheapestFound'
  BY <1>1, <1>2, <1>4, <1>5 DEF CheapestFound
<1>8. (\A m \in tree : LowerBound(m))'
  BY <1>1, <1>2 DEF IInv, LowerBound
<1> QED BY <1>2, <1>6, <1>7, <1>8 DEF IInv, Covered, NoneMeansNone

(* The children of a node share its solutions out among them: a peaceful    *)
(* solution inside the node is inside the child of the agent that does not  *)
(* do what its new constraint forbids, and that agent finds a plan.         *)
LEMMA BranchKeepsInv ==
  ASSUME IInv, Branch
  PROVE  IInv'
<1>1. PICK n \in Cheapest : \E conflict \in FirstConflict(problem, n.solution) :
        LET added == ConstraintsFor(conflict)
            Kept(a) == Grown(n, a, added[a])
            options == [a \in DOMAIN added |-> LowLevel(problem, a, Kept(a)[a])]
            able == {a \in DOMAIN added : options[a] # {}}
            Id(a) == next_id + Cardinality({b \in DOMAIN added : b < a})
        IN \E plan \in Selections([a \in able |-> options[a]]) :
             tree' = (tree \ {n}) \cup
                     {Child(n, Id(a), a, plan[a], Kept(a)) : a \in able}
  BY DEF Branch
<1>2. PICK conflict \in FirstConflict(problem, n.solution) :
        LET added == ConstraintsFor(conflict)
            Kept(a) == Grown(n, a, added[a])
            options == [a \in DOMAIN added |-> LowLevel(problem, a, Kept(a)[a])]
            able == {a \in DOMAIN added : options[a] # {}}
            Id(a) == next_id + Cardinality({b \in DOMAIN added : b < a})
        IN \E plan \in Selections([a \in able |-> options[a]]) :
             tree' = (tree \ {n}) \cup
                     {Child(n, Id(a), a, plan[a], Kept(a)) : a \in able}
  BY <1>1
<1> DEFINE added == ConstraintsFor(conflict)
           Kept(a) == Grown(n, a, added[a])
           options == [a \in DOMAIN added |-> LowLevel(problem, a, Kept(a)[a])]
           able == {a \in DOMAIN added : options[a] # {}}
           Id(a) == next_id + Cardinality({b \in DOMAIN added : b < a})
<1>3. PICK plan \in Selections([a \in able |-> options[a]]) :
        tree' = (tree \ {n}) \cup
                {Child(n, Id(a), a, plan[a], Kept(a)) : a \in able}
  BY <1>2
<1> DEFINE child(a) == Child(n, Id(a), a, plan[a], Kept(a))
<1>4. /\ answer = "searching" /\ answer' = "searching" /\ problem' = problem
      /\ taken' = taken + 1 /\ problem \in Problems /\ taken \in Nat
  BY DEF Branch, IInv, TypeOK
<1>5. /\ n \in tree /\ n.solution \in Solutions(problem) /\ LowerBound(n)
      /\ n.cost = Total(n.solution)
      /\ n.constraints \in [Agents(problem) -> ConstraintSets(problem)]
  BY <1>1 DEF Cheapest, IInv, TypeOK, NodeOK
<1>6. DOMAIN added \subseteq Agents(problem)
  BY <1>4, <1>5, ConstraintsAssumption
<1>7. ASSUME NEW a \in DOMAIN added
      PROVE  /\ a \in Agents(problem)
             /\ Kept(a) \in [Agents(problem) -> ConstraintSets(problem)]
             /\ Kept(a)[a] = n.constraints[a] \cup added[a]
             /\ \A b \in Agents(problem) : b # a => Kept(a)[b] = n.constraints[b]
  <2>1. n.constraints[a] \cup added[a] \in ConstraintSets(problem)
    BY <1>4, <1>5, <1>6, ConstraintsAssumption
  <2> QED BY <1>5, <1>6, <2>1 DEF Grown
<1>8. ASSUME NEW a \in able
      PROVE  /\ NodeOK(child(a))
             /\ LowerBound(child(a))
             /\ child(a).constraints = Kept(a)
  <2>1. a \in DOMAIN added /\ a \in Agents(problem)
    BY <1>7
  <2>2. plan[a] \in LowLevel(problem, a, Kept(a)[a])
    BY <1>3, <2>1 DEF Selections
  <2>3. Kept(a)[a] \in ConstraintSets(problem)
    BY <1>7, <2>1
  <2>4. /\ plan[a] \in PlansOf(problem, a)
        /\ \A q \in PlansOf(problem, a) :
             Allows(problem, a, Kept(a)[a], q) => PlanCost(plan[a]) <= PlanCost(q)
    BY <1>4, <2>1, <2>2, <2>3, LowLevelAssumption
  <2> DEFINE taken_up == [n.solution EXCEPT ![a] = plan[a]]
  <2>5. /\ taken_up[a] = plan[a]
        /\ \A b \in Agents(problem) : b # a => taken_up[b] = n.solution[b]
    BY <1>5, <2>1 DEF Solutions
  <2>6. taken_up \in Solutions(problem)
    BY <1>5, <2>1, <2>4 DEF Solutions
  <2>7. /\ child(a).solution = taken_up /\ child(a).constraints = Kept(a)
        /\ child(a).cost = n.cost - PlanCost(n.solution[a]) + PlanCost(plan[a])
    BY DEF Child, ChildCost, Node
  <2> HIDE DEF taken_up, child, Kept
  <2>8. NodeOK(child(a))
    <3>1. Total(taken_up) = Total(n.solution) - PlanCost(n.solution[a]) + PlanCost(plan[a])
      BY <1>4, <1>5, <2>1, <2>5, <2>6, TotalDiffers
    <3> QED BY <1>5, <1>7, <2>1, <2>6, <2>7, <3>1 DEF NodeOK
  <2>9. LowerBound(child(a))
    BY <1>5, <1>7, <2>1, <2>4, <2>5, <2>7 DEF LowerBound
  <2> QED BY <2>7, <2>8, <2>9
<1>9. ASSUME NEW peace \in Peaceful(problem)
      PROVE  \E m \in tree' : Inside(m, peace)
  <2>1. PICK m \in tree : Inside(m, peace)
    BY <1>4 DEF IInv, Covered
  <2>2. CASE m # n
    BY <1>3, <2>1, <2>2
  <2>3. CASE m = n
    <3>1. peace \in Solutions(problem)
      BY DEF Peaceful
    <3>2. PICK a \in DOMAIN added : \A C \in ConstraintSets(problem) :
            Allows(problem, a, C, peace[a]) => Allows(problem, a, C \cup added[a], peace[a])
      BY <1>4, <1>5, SplitAssumption
    <3>3. a \in Agents(problem) /\ n.constraints[a] \in ConstraintSets(problem)
      BY <1>5, <1>7
    <3>4. Allows(problem, a, Kept(a)[a], peace[a])
      BY <1>7, <2>1, <2>3, <3>2, <3>3 DEF Inside
    <3>5. peace[a] \in PlansOf(problem, a) /\ Kept(a)[a] \in ConstraintSets(problem)
      BY <1>7, <3>1, <3>3 DEF Solutions
    <3>6. a \in able
      BY <1>4, <3>3, <3>4, <3>5, LowLevelAssumption
    <3>7. child(a) \in tree'
      BY <1>3, <3>6
    <3>8. child(a).constraints = Kept(a)
      BY <1>8, <3>6
    <3> HIDE DEF child, Kept
    <3>9. Inside(child(a), peace)
      BY <1>7, <2>1, <2>3, <3>4, <3>8 DEF Inside
    <3> QED BY <3>7, <3>9
  <2> QED BY <2>2, <2>3
<1>10. \A m \in tree' : m \in tree \/ \E a \in able : m = child(a)
  BY <1>3
<1> HIDE DEF able, child
<1>11. \A m \in tree' : NodeOK(m) /\ LowerBound(m)
  BY <1>8, <1>10 DEF IInv, TypeOK
<1>12. TypeOK'
  BY <1>4, <1>11 DEF TypeOK, NodeOK
<1>13. Covered'
  BY <1>4, <1>9 DEF Covered, Inside
<1>14. (\A m \in tree : LowerBound(m))'
  BY <1>4, <1>11 DEF LowerBound
<1> QED BY <1>4, <1>12, <1>13, <1>14 DEF IInv, CheapestFound, NoneMeansNone

LEMMA EndKeepsInv ==
  ASSUME IInv, GiveUp \/ Exhausted
  PROVE  IInv'
<1>1. /\ answer = "searching" /\ answer' \in {"limit", "none"}
      /\ UNCHANGED <<problem, tree, taken>>
  BY DEF GiveUp, Exhausted
<1>2. answer' = "none" => Peaceful(problem) = {}
  BY <1>1 DEF GiveUp, Exhausted, IInv, Covered
<1> QED BY <1>1, <1>2
        DEF IInv, TypeOK, NodeOK, Covered, LowerBound, CheapestFound, NoneMeansNone, Peaceful

LEMMA InductiveInvariant ==
  /\ Init => IInv
  /\ IInv /\ [Next]_vars => IInv'
<1>1. Init => IInv
  BY DEF Init, IInv, TypeOK, Covered, LowerBound, CheapestFound, NoneMeansNone
<1>2. ASSUME IInv, [Next]_vars
      PROVE  IInv'
  <2>1. CASE UNCHANGED vars
    BY <1>2, <2>1 DEF vars, cbsVars, IInv, TypeOK, NodeOK, Covered, Inside, LowerBound,
                      CheapestFound, NoneMeansNone, Peaceful, Solutions
  <2>2. CASE Next
    <3>1. CASE Returned
      BY <2>1, <3>1 DEF Returned
    <3> QED BY <1>2, <2>2, <3>1, StartKeepsInv, SolveKeepsInv, BranchKeepsInv, EndKeepsInv
            DEF Next, Step
  <2> QED BY <1>2, <2>1, <2>2
<1> QED BY <1>1, <1>2

(* Every open node has a plan and constraints for every agent, and its cost *)
(* is what its plans cost in all, although a child is given its parent's    *)
(* cost, less the old plan's, plus the new one's                            *)
(* (conflict_based_search.hpp:118, 156-186).                                *)
THEOREM TypeCorrect == Spec => []TypeOK
<1>1. IInv => TypeOK
  BY DEF IInv
<1> QED BY <1>1, InductiveInvariant, PTL DEF Spec

(* The solution that the search returns is free of conflicts and costs no   *)
(* more than any other that is, whatever the environment's constraints are  *)
(* and even if the low-level search does not heed some of them              *)
(* (conflict_based_search.hpp:129-187).                                     *)
THEOREM Optimality == Spec => []CheapestFound
<1>1. IInv => CheapestFound
  BY DEF IInv
<1> QED BY <1>1, InductiveInvariant, PTL DEF Spec

(* A search that ends for want of nodes has shown that no solution is free  *)
(* of conflicts (conflict_based_search.hpp:189).                            *)
THEOREM FailureIsProof == Spec => []NoneMeansNone
<1>1. IInv => NoneMeansNone
  BY DEF IInv
<1> QED BY <1>1, InductiveInvariant, PTL DEF Spec
=============================================================================
