--------------------------- MODULE CbsOptimality ---------------------------
(***************************************************************************)
(* What conflict-based search promises of any environment that plays its   *)
(* part: "CBS is optimal with respect to the sum-of-individual costs"      *)
(* (conflict_based_search.hpp:30).  The assumptions below say what that    *)
(* rests on.                                                               *)
(***************************************************************************)
EXTENDS ConflictBasedSearch

CONSTANTS
  Problems,
  PlansOf(_, _),          \* the plans of a problem's agent, constrained or not
  ConstraintSets(_),      \* the sets of constraints its agents can have
  Allows(_, _, _, _)      \* whether a problem's agent, so constrained, may use a plan

Solutions(p) ==
  {s \in [Agents(p) -> UNION {PlansOf(p, a) : a \in Agents(p)}] :
     \A a \in Agents(p) : s[a] \in PlansOf(p, a)}

Peaceful(p) == {s \in Solutions(p) : FirstConflict(p, s) = {}}

(* The low level returns plans of the agent, none dearer than any that its *)
(* constraints allow, and fails only if they allow none.  It need not obey *)
(* the constraints itself.                                                 *)
ASSUME LowLevelAssumption ==
  \A p \in Problems : \A a \in Agents(p) : \A C \in ConstraintSets(p) :
    /\ LowLevel(p, a, C) \subseteq PlansOf(p, a)
    /\ \A plan \in LowLevel(p, a, C), q \in PlansOf(p, a) :
         Allows(p, a, C, q) => PlanCost(plan) <= PlanCost(q)
    /\ LowLevel(p, a, C) = {} => \A q \in PlansOf(p, a) : ~Allows(p, a, C, q)

(* Constraints are sets that grow from the empty set, which allows all.    *)
ASSUME ConstraintsAssumption ==
  \A p \in Problems :
    /\ {} \in ConstraintSets(p)
    /\ \A a \in Agents(p) : \A q \in PlansOf(p, a) : Allows(p, a, {}, q)
    /\ \A s \in Solutions(p) : \A c \in FirstConflict(p, s) :
         /\ DOMAIN ConstraintsFor(c) \subseteq Agents(p)
         /\ \A a \in DOMAIN ConstraintsFor(c), C \in ConstraintSets(p) :
              C \cup ConstraintsFor(c)[a] \in ConstraintSets(p)

(* Of every peaceful solution, one of the agents of a conflict does not do *)
(* what its new constraint forbids.                                        *)
ASSUME SplitAssumption ==
  \A p \in Problems : \A s \in Solutions(p) : \A c \in FirstConflict(p, s) :
    \A peace \in Peaceful(p) : \E a \in DOMAIN ConstraintsFor(c) :
      \A C \in ConstraintSets(p) :
        Allows(p, a, C, peace[a]) =>
          Allows(p, a, C \cup ConstraintsFor(c)[a], peace[a])

(* The agents are numbered, and no plan has a negative cost.               *)
ASSUME CostAssumption ==
  \A p \in Problems :
    /\ IsFiniteSet(Agents(p)) /\ Agents(p) = 1..Cardinality(Agents(p))
    /\ \A a \in Agents(p) : \A q \in PlansOf(p, a) : PlanCost(q) \in Nat

vars == <<problem, cbsVars>>

Init ==
  /\ problem \in Problems
  /\ tree = {} /\ next_id = 0 /\ taken = 0 /\ answer = "idle" /\ agreed = <<>>

Decided == answer \in {"found", "limit", "none"}

Returned == Decided /\ UNCHANGED vars

Next == Start \/ Step \/ Returned

Spec == Init /\ [][Next]_vars /\ WF_vars(Start \/ Step)
-----------------------------------------------------------------------------
(* The types of the variables: a node has a plan and constraints for every *)
(* agent, and the differences from parent to child have kept its cost the  *)
(* sum of what its plans cost (conflict_based_search.hpp:118, 170, 176).   *)
NodeOK(n) ==
  /\ n.solution \in Solutions(problem)
  /\ n.constraints \in [Agents(problem) -> ConstraintSets(problem)]
  /\ n.cost = Total(n.solution)

TypeOK ==
  /\ problem \in Problems
  /\ answer \in {"idle", "searching", "found", "limit", "none"}
  /\ taken \in Nat
  /\ \A n \in tree : NodeOK(n)
  /\ answer = "found" => agreed \in Solutions(problem)

(* The solution returned is peaceful, and no peaceful solution costs less, *)
(* although nodes are dropped on the way: those whose agent finds no plan  *)
(* (conflict_based_search.hpp:178) and those already taken.                *)
CheapestFound ==
  answer = "found" =>
    /\ agreed \in Peaceful(problem)
    /\ \A peace \in Peaceful(problem) : Total(agreed) <= Total(peace)

(* Running out of nodes proves that there is no solution.                  *)
NoneMeansNone == answer = "none" => Peaceful(problem) = {}
=============================================================================
