--------------------------- MODULE CbsCoordinator ---------------------------
(***************************************************************************)
(* The coordinator of the core library: conflict-based search, without a   *)
(* limit, over robots that move freely on a grid, one cell a tick, and     *)
(* have their milestones to pass in order: each stop once and then once    *)
(* more per tick of service.  A problem is [grid, starts, milestones].  A  *)
(* plan is a sequence of states [at, progress], one per tick.              *)
(***************************************************************************)
EXTENDS CoreGrid, FiniteSets, FiniteSetsExt

VARIABLES problem, tree, next_id, taken, answer, agreed

make_milestones(robot, stops, service) ==
  LET Passing(k) == [i \in 1..(1 + service[k]) |-> stops[k].at]
      home == robot.return_home /\ stops # <<>> /\ Last(stops).at # robot.start
  IN FlattenSeq([k \in DOMAIN stops |-> Passing(k)])
       \o IF home THEN <<robot.start>> ELSE <<>>

Agents(p) == DOMAIN p.starts

Goal(p, a) == IF p.milestones[a] = <<>> THEN p.starts[a] ELSE Last(p.milestones[a])

FirstState(p, a) ==
  [at |-> p.starts[a],
   progress |-> IF p.milestones[a] # <<>> /\ Head(p.milestones[a]) = p.starts[a] THEN 1 ELSE 0]

Passed(p, a, at, progress) ==
  IF progress < Len(p.milestones[a]) /\ p.milestones[a][progress + 1] = at
  THEN progress + 1 ELSE progress

(* What a robot may do in the tick after tick. *)
Next_states(p, a, constraints, tick, s) ==
  {[at |-> c, progress |-> Passed(p, a, c, s.progress)] :
     c \in {c \in getNeighbors(p.grid, s.at) \cup {s.at} :
              /\ [kind |-> "vertex", tick |-> tick + 1, at |-> c] \notin constraints
              /\ [kind |-> "edge", tick |-> tick, from |-> s.at, to |-> c] \notin constraints}}

(* No constraint keeps the robot from its goal any more. *)
GoalFree(p, a, constraints, tick) ==
  \A c \in constraints : c.kind = "vertex" /\ c.at = Goal(p, a) => tick > c.tick

isSolution(p, a, constraints, tick, s) ==
  /\ s.progress = Len(p.milestones[a]) /\ s.at = Goal(p, a)
  /\ GoalFree(p, a, constraints, tick)

(* The ticks within which there is a plan if there is one at all: past the *)
(* last constraint, a shortest one is nowhere twice with the same stops    *)
(* passed.  The code sets the search no such bound: where a stop is out of *)
(* reach, which the allocation sees to that none is, it has no end.        *)
LongEnough(p, a, constraints) ==
  Max({0} \cup {c.tick : c \in constraints})
    + p.grid.width * p.grid.height * (Len(p.milestones[a]) + 1)

(* A shortest plan, always the same: conflict-based search with any of     *)
(* them is CbsOptimality's.                                                *)
ShortestPlan(p, a, constraints) ==
  LET After(t, states) == UNION {Next_states(p, a, constraints, t - 1, s) : s \in states}
      Solved(t, states) == {s \in states : isSolution(p, a, constraints, t, s)}
      Further(layers, t) ==
        IF Solved(t - 1, Last(layers)) # {} THEN layers ELSE Append(layers, After(t, Last(layers)))
      reached == FoldLeft(Further, <<{FirstState(p, a)}>>,
                          [t \in 1..LongEnough(p, a, constraints) |-> t])
      end == Len(reached) - 1
      solved == Solved(end, Last(reached))
      Before(t, s) ==
        CHOOSE b \in reached[t] : s \in Next_states(p, a, constraints, t - 1, b)
  IN IF solved = {} THEN {}
     ELSE {FoldLeft(LAMBDA plan, t : <<Before(end + 1 - t, Head(plan))>> \o plan,
                    <<CHOOSE s \in solved : TRUE>>, [t \in 1..end |-> t])}

(* Whoever has arrived stays. *)
state_at(plan, tick) == IF tick < Len(plan) THEN plan[tick + 1].at ELSE Last(plan).at

NoChange(plans, horizon, t, a, b) == FALSE   \* mutated: only meeting is a conflict

ChangePlaces(plans, horizon, t, a, b) ==
  /\ t + 1 < horizon
  /\ state_at(plans[a], t) = state_at(plans[b], t + 1)
  /\ state_at(plans[b], t) = state_at(plans[a], t + 1)

getFirstConflict(p, plans) ==
  LET horizon == Max({Len(plans[a]) : a \in DOMAIN plans})
      At(a, t) == state_at(plans[a], t)
      Meet(t, a, b) == At(a, t) = At(b, t)
      all == {<<t, a, b>> \in (0..(horizon - 1)) \X (DOMAIN plans) \X (DOMAIN plans) :
                a < b /\ (Meet(t, a, b) \/ ChangePlaces(plans, horizon, t, a, b))}
      IsFirst(c) == \A d \in all : \/ c[1] < d[1]
                                   \/ c[1] = d[1] /\ (c[2] < d[2] \/ (c[2] = d[2] /\ c[3] <= d[3]))
      Found(t, a, b) ==
        [kind |-> IF Meet(t, a, b) THEN "vertex" ELSE "edge", tick |-> t, agents |-> <<a, b>>,
         from |-> <<At(a, t), At(b, t)>>, to |-> <<At(a, t + 1), At(b, t + 1)>>]
  IN {Found(c[1], c[2], c[3]) : c \in {c \in all : IsFirst(c)}}

createConstraintsFromConflict(c) ==
  [a \in Range(c.agents) |->
     LET k == CHOOSE k \in {1, 2} : c.agents[k] = a
     IN IF c.kind = "vertex"
        THEN {[kind |-> "vertex", tick |-> c.tick, at |-> c.from[k]]}
        ELSE {[kind |-> "edge", tick |-> c.tick, from |-> c.from[k], to |-> c.to[k]]}]

TicksOf(plan) == Len(plan) - 1

NoLimit(p) == 0

Cbs == INSTANCE ConflictBasedSearch WITH
  LowLevel <- ShortestPlan, FirstConflict <- getFirstConflict,
  ConstraintsFor <- createConstraintsFromConflict, PlanCost <- TicksOf, Limit <- NoLimit

coordinationVars == <<problem, tree, next_id, taken, answer, agreed>>
-----------------------------------------------------------------------------
Coordinated == answer = "found"

(* The schedules the robots are given (README.md, mission plan): each      *)
(* starts where the robot is, goes on to a neighbouring cell or waits each *)
(* tick, passes its stops in order with the service each needs, and ends   *)
(* at the last or at home; and no two robots are ever in one cell, or      *)
(* change places, also after one of them has arrived.                      *)
SchedulesServe ==
  Coordinated =>
    \A a \in Agents(problem) :
      LET plan == agreed[a]
          Serves(at) == \E seen \in [1..Len(problem.milestones[a]) -> DOMAIN plan] :
                          /\ \A j, k \in DOMAIN seen : j < k => seen[j] < seen[k]
                          /\ \A k \in DOMAIN seen : plan[seen[k]].at = problem.milestones[a][k]
      IN /\ Head(plan).at = problem.starts[a] /\ Last(plan).at = Goal(problem, a)
         /\ \A k \in 1..(Len(plan) - 1) :
              plan[k + 1].at \in getNeighbors(problem.grid, plan[k].at) \cup {plan[k].at}
         /\ Serves(plan)
         /\ \A b \in Agents(problem) \ {a} : \A t \in 0..(Len(plan) + Len(agreed[b])) :
              /\ state_at(plan, t) # state_at(agreed[b], t)
              /\ ~ /\ state_at(plan, t) = state_at(agreed[b], t + 1)
                   /\ state_at(plan, t + 1) = state_at(agreed[b], t)

(* Whether the robots together can do with fewer ticks than total: a joint *)
(* state has [at, progress, done] of every robot.                          *)
CheaperTogether(p, total) ==
  LET Arrived(a, s) == s.progress = Len(p.milestones[a]) /\ s.at = Goal(p, a)
      Stopping(j) ==
        {[a \in Agents(p) |-> [j[a] EXCEPT !.done = @ \/ a \in stopping]] :
           stopping \in SUBSET {a \in Agents(p) : Arrived(a, j[a])}}
      Own(a, s) ==
        IF s.done THEN {s}
        ELSE {[at |-> n.at, progress |-> n.progress, done |-> FALSE] :
                n \in Next_states(p, a, {}, 0, s)}
      Peaceful(j, k) ==
        \A a, b \in Agents(p) : a # b =>
          k[a].at # k[b].at /\ ~(k[a].at = j[b].at /\ k[b].at = j[a].at)
      Together(j) ==
        UNION {Stopping(k) : k \in {k \in Cbs!Selections([a \in Agents(p) |-> Own(a, j[a])]) :
                                      Peaceful(j, k)}}
      Later(w) ==
        LET ticks == w[2] + Cardinality({a \in Agents(p) : ~w[1][a].done})
        IN IF ticks >= total THEN {} ELSE Together(w[1]) \X {ticks}
      AllDone(w) == \A a \in Agents(p) : w[1][a].done
      first == [a \in Agents(p) |-> [at |-> FirstState(p, a).at,
                                     progress |-> FirstState(p, a).progress, done |-> FALSE]]
      ways == FoldLeft(LAMBDA found, t : found \cup UNION {Later(w) : w \in found},
                       Stopping(first) \X {0}, [t \in 1..total |-> t])
  IN \E w \in ways : AllDone(w) /\ w[2] < total

(* No schedules without conflict have fewer ticks in all: the wait for a   *)
(* robot that parks, is served or comes the other way is the least.        *)
SchedulesCheapest == Coordinated => ~CheaperTogether(problem, Cbs!Total(agreed))
=============================================================================
