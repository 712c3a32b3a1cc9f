-------------------------- MODULE MCCbsOptimality --------------------------
(* Two agents with three plans each, or none at all, and any conflicts     *)
(* between them; some plans are returned in spite of the constraints       *)
(* against them, as those of a parked robot are.  A plan is <<agent, k>>   *)
(* and costs k times the agent; a constraint is the plan it forbids.       *)
EXTENDS CbsOptimality, TLC

MCAgents(p) == {1, 2}

MCPlansOf(p, a) == {a} \X (1..p.plans[a])

MCPlanCost(plan) == plan[1] * plan[2]

MCAllows(p, a, C, plan) == plan \notin C

(* The cheapest plan that is allowed or does not heed its constraints.     *)
MCLowLevel(p, a, C) ==
  LET Usable == {q \in MCPlansOf(p, a) : q \notin C \/ q \in p.stubborn}
  IN {q \in Usable : \A o \in Usable : MCPlanCost(q) <= MCPlanCost(o)}

MCFirstConflict(p, s) ==
  IF <<s[1], s[2]>> \in p.clashes THEN {<<s[1], s[2]>>} ELSE {}

MCConstraintsFor(c) == <<{c[1]}, {c[2]}>>

MCConstraintSets(p) == SUBSET ({1, 2} \X (1..3))

MCLimit(p) == p.limit

MCProblems ==
  {[clashes |-> {}, stubborn |-> {}, plans |-> <<3, 0>>, limit |-> 0]}
  \cup
  {[clashes |-> clashes, stubborn |-> stubborn, plans |-> <<3, 3>>,
    limit |-> IF stubborn = {} THEN 0 ELSE 5] :
     clashes \in {{<<<<1, k[1]>>, <<2, k[2]>>>> : k \in K} :
                    K \in SUBSET ((1..3) \X (1..3))},
     stubborn \in {{}, {<<1, 1>>}, {<<2, 2>>}}}

(* The search ends: by its limit, or because constraints leave it nothing  *)
(* to repeat.                                                              *)
Ends == <>Decided
=============================================================================
