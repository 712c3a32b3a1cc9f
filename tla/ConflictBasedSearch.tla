------------------------ MODULE ConflictBasedSearch ------------------------
(***************************************************************************)
(* The high level of conflict-based search (conflict_based_search.hpp), a  *)
(* template over its environment.  Each node holds a plan and constraints  *)
(* for every agent.  The cheapest node is taken: if its plans conflict, it *)
(* has one child for each agent of the first conflict, in which that agent *)
(* is constrained not to take part in it and is planned anew.              *)
(*                                                                         *)
(* The heap orders nodes by cost alone: which of the cheapest it returns   *)
(* is left open.                                                           *)
(***************************************************************************)
EXTENDS Integers, FiniteSets, Sequences

CONSTANTS
  Agents(_),              \* the agents of a problem
  LowLevel(_, _, _),      \* the plans the low-level search may return for a problem,
                          \* an agent and its constraints; none if it fails
  FirstConflict(_, _),    \* the conflict found first in a solution: a set of at most one
  ConstraintsFor(_),      \* the new constraints a conflict gives each of its agents
  PlanCost(_),            \* the cost of one agent's plan
  Limit(_)                \* the most nodes a problem may take; 0: no limit

VARIABLES
  problem,
  tree,      \* the open nodes: [id, solution, constraints, cost]
  next_id,
  taken,     \* how many nodes were taken
  answer,    \* "idle", "searching", "found", "limit" or "none"
  agreed     \* when found: the plan of every agent

cbsVars == <<tree, next_id, taken, answer, agreed>>

Node(id, solution, constraints, cost) ==
  [id |-> id, solution |-> solution, constraints |-> constraints, cost |-> cost]

(* The root adds up the costs of its agents' plans.                        *)
Total(solution) ==
  LET upTo[n \in 0..Len(solution)] ==
        IF n = 0 THEN 0 ELSE upTo[n - 1] + PlanCost(solution[n])
  IN upTo[Len(solution)]

OldPlanCounted(n, a, plan) == n.cost + PlanCost(plan)   \* mutated: the old plan's cost stays

(* A child only takes the difference that its agent's new plan makes.      *)
ChildCost(n, a, plan) == n.cost - PlanCost(n.solution[a]) + PlanCost(plan)

(* The functions that take from S[a] for every a. *)
Selections(S) == {f \in [DOMAIN S -> UNION {S[a] : a \in DOMAIN S}] :
                 \A a \in DOMAIN S : f[a] \in S[a]}

Start ==
  /\ answer = "idle"
  /\ taken' = 0 /\ next_id' = 1 /\ agreed' = <<>>
  /\ LET free == [a \in Agents(problem) |-> {}]
         options == [a \in Agents(problem) |-> LowLevel(problem, a, {})]
     IN \/ /\ \E a \in Agents(problem) : options[a] = {}
           /\ answer' = "none" /\ tree' = {}
        \/ /\ \E solution \in Selections(options) : tree' = {Node(0, solution, free, Total(solution))}
           /\ answer' = "searching"
  /\ UNCHANGED problem

LimitReached == Limit(problem) # 0 /\ taken >= Limit(problem)

Dearest == {n \in tree : \A o \in tree : n.cost >= o.cost}   \* mutated: the heap's order

Cheapest == {n \in tree : \A o \in tree : n.cost <= o.cost}

GiveUpSilently ==   \* mutated: the caller is not told of the limit
  /\ answer = "searching" /\ tree # {}
  /\ LimitReached
  /\ answer' = "none"
  /\ UNCHANGED <<problem, tree, next_id, taken, agreed>>

GiveUp ==
  /\ answer = "searching" /\ tree # {}
  /\ LimitReached
  /\ answer' = "limit"
  /\ UNCHANGED <<problem, tree, next_id, taken, agreed>>

Solve ==
  /\ answer = "searching" /\ ~LimitReached
  /\ \E n \in Cheapest :
       /\ FirstConflict(problem, n.solution) = {}
       /\ tree' = tree \ {n}
       /\ agreed' = n.solution
  /\ taken' = taken + 1
  /\ answer' = "found"
  /\ UNCHANGED <<problem, next_id>>

(* The constraints of n's child in which agent a gets new ones. *)
Grown(n, a, new) == [n.constraints EXCEPT ![a] = @ \cup new]

Child(n, id, a, plan, kept) ==
  Node(id, [n.solution EXCEPT ![a] = plan], kept, ChildCost(n, a, plan))

(* Ids go to the agents in their order, and to those that find no plan     *)
(* too.                                                                    *)
Branch ==
  /\ answer = "searching" /\ ~LimitReached
  /\ \E n \in Cheapest : \E conflict \in FirstConflict(problem, n.solution) :
       LET added == ConstraintsFor(conflict)
           Kept(a) == Grown(n, a, added[a])
           options == [a \in DOMAIN added |-> LowLevel(problem, a, Kept(a)[a])]
           able == {a \in DOMAIN added : options[a] # {}}
           Id(a) == next_id + Cardinality({b \in DOMAIN added : b < a})
       IN /\ \E plan \in Selections([a \in able |-> options[a]]) :
               tree' = (tree \ {n}) \cup
                       {Child(n, Id(a), a, plan[a], Kept(a)) : a \in able}
          /\ next_id' = next_id + Cardinality(DOMAIN added)
  /\ taken' = taken + 1
  /\ UNCHANGED <<problem, answer, agreed>>

NeverExhausted ==   \* mutated: the loop does not stop without nodes
  /\ answer = "searching" /\ tree = {}
  /\ UNCHANGED <<problem, cbsVars>>

Exhausted ==
  /\ answer = "searching" /\ tree = {}
  /\ answer' = "none"
  /\ UNCHANGED <<problem, tree, next_id, taken, agreed>>

Step == GiveUp \/ Solve \/ Branch \/ Exhausted
=============================================================================
