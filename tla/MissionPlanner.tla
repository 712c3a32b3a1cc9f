--------------------------- MODULE MissionPlanner ---------------------------
(***************************************************************************)
(* The planner of the core library, MissionPlanner::plan: tasks are        *)
(* inserted one by one where they cost least, then relocated one at a time *)
(* while that pays, and then the routes are scheduled.  A mission is       *)
(* [grid, robots, tasks, weights]; a robot is [start, return_home,         *)
(* capabilities], a task [at, needs, service, high_priority], a stop       *)
(* [at, tasks].  Which of equally good routes is taken is left open.       *)
(***************************************************************************)
EXTENDS CbsCoordinator

CONSTANT Missions

VARIABLES
  mission,
  state,     \* "new", "inserting", "improving", "coordinating" or how it ended
  routes,    \* the stops of each robot
  order,     \* the tasks still to be inserted
  passes     \* how many relocations were made

missionVars == <<mission, state, routes, order, passes>>

Robots == DOMAIN mission.robots
Tasks == DOMAIN mission.tasks

is_compatible(r, t) == mission.tasks[t].needs \subseteq mission.robots[r].capabilities

Candidates(t) == Cardinality({r \in Robots : is_compatible(r, t)})

validate_inputs ==
  /\ Robots = {} => Tasks = {}
  /\ \A r \in Robots : traversable(mission.grid, mission.robots[r].start)
  /\ \A r, s \in Robots : r # s => mission.robots[r].start # mission.robots[s].start
  /\ \A t \in Tasks : traversable(mission.grid, mission.tasks[t].at) /\ Candidates(t) > 0

(* Few candidates, then high priority, then long service; a stable sort.   *)
Sooner(t, u) ==
  LET a == mission.tasks[t]
      b == mission.tasks[u]
      Urgency(x) == IF x.high_priority THEN 0 ELSE 1
      Rank(x, k) == <<Candidates(k), Urgency(x), -x.service, k>>
  IN \E i \in 1..4 : /\ Rank(a, t)[i] < Rank(b, u)[i]
                     /\ \A j \in 1..(i - 1) : Rank(a, t)[j] = Rank(b, u)[j]
-----------------------------------------------------------------------------
(* Routes: what they cost, and how a task comes into one and out of it.    *)
Unreachable == 1000

distance(from, to) ==
  LET cells == mission.grid.width * mission.grid.height
      steps == {n \in 0..cells : to \in CellsWithin(mission.grid, from, n)}
  IN IF steps = {} THEN Unreachable ELSE Min(steps)

Service(stop) == FoldSet(LAMBDA t, sum : sum + mission.tasks[t].service, 0, stop.tasks)

Load(r, stops) ==
  LET robot == mission.robots[r]
      places == <<robot.start>> \o [k \in DOMAIN stops |-> stops[k].at]
                  \o IF robot.return_home THEN <<robot.start>> ELSE <<>>
      legs == {distance(places[k], places[k + 1]) : k \in 1..(Len(places) - 1)}
  IN IF stops = <<>> THEN 0
     ELSE IF Unreachable \in legs THEN Unreachable
     ELSE   FoldSet(LAMBDA k, sum : sum + distance(places[k], places[k + 1]), 0,
                    1..(Len(places) - 1))
          + FoldSet(LAMBDA k, sum : sum + Service(stops[k]), 0, DOMAIN stops)

objective(all) ==
  LET loads == [r \in Robots |-> Load(r, all[r])]
  IN   mission.weights.maximum * Max({0} \cup Range(loads))
     + mission.weights.total * FoldSet(LAMBDA r, sum : sum + loads[r], 0, Robots)

AtTheEnd(stops, t) ==   \* mutated: a task is only tried after all others
  {Append(stops, [at |-> mission.tasks[t].at, tasks |-> {t}])}

NeverMerged(stops, t) ==   \* mutated: a place that is a stop already becomes another
  {InsertAt(stops, k, [at |-> mission.tasks[t].at, tasks |-> {t}]) : k \in 1..(Len(stops) + 1)}

(* The task joins the stop at its place, or makes one anywhere.            *)
insertion_options(stops, t) ==
  LET at == mission.tasks[t].at
      same == {k \in DOMAIN stops : stops[k].at = at}
  IN IF same # {}
     THEN {[stops EXCEPT ![Min(same)].tasks = @ \cup {t}]}
     ELSE {InsertAt(stops, k, [at |-> at, tasks |-> {t}]) : k \in 1..(Len(stops) + 1)}

remove_task(stops, t) ==
  LET left == [k \in DOMAIN stops |-> [stops[k] EXCEPT !.tasks = @ \ {t}]]
  IN SelectSeq(left, LAMBDA stop : stop.tasks # {})

Served(stops) == UNION {stops[k].tasks : k \in DOMAIN stops}

(* What task t may be tried with, once the routes are all. *)
Trials(all, t) ==
  UNION {{[all EXCEPT ![r] = stops] : stops \in insertion_options(all[r], t)} :
           r \in {r \in Robots : is_compatible(r, t)}}

CanDrive(all) == \A r \in Robots : Load(r, all[r]) # Unreachable

Cheapest(trials) == {t \in trials : \A u \in trials : objective(t) <= objective(u)}
-----------------------------------------------------------------------------
missionInit ==
  /\ mission \in Missions
  /\ state = "new" /\ routes = <<>> /\ order = <<>> /\ passes = 0
  /\ problem = <<>> /\ tree = {} /\ next_id = 0 /\ taken = 0
  /\ answer = "idle" /\ agreed = <<>>

Begin ==
  /\ state = "new"
  /\ IF validate_inputs
     THEN /\ state' = "inserting"
          /\ routes' = [r \in Robots |-> <<>>]
          /\ order' = SortSeq([t \in Tasks |-> t], Sooner)
     ELSE state' = "invalid" /\ UNCHANGED <<routes, order>>
  /\ UNCHANGED <<mission, passes, coordinationVars>>

(* Routes that cannot be driven are no candidates here; none left is an    *)
(* exception.                                                              *)
Insert ==
  /\ state = "inserting" /\ order # <<>>
  /\ LET trials == {t \in Trials(routes, Head(order)) : CanDrive(t)}
     IN \/ /\ \E best \in Cheapest(trials) : routes' = best
           /\ order' = Tail(order) /\ UNCHANGED state
        \/ /\ trials = {}
           /\ state' = "unreachable" /\ UNCHANGED <<routes, order>>
  /\ UNCHANGED <<mission, passes, coordinationVars>>

Inserted ==
  /\ state = "inserting" /\ order = <<>>
  /\ state' = "improving"
  /\ UNCHANGED <<mission, routes, order, passes, coordinationVars>>

(* All routes that differ in where one task is done. *)
Relocations ==
  UNION {Trials([routes EXCEPT ![r] = remove_task(@, t)], t) :
           <<r, t>> \in {<<r, t>> \in Robots \X Tasks : t \in Served(routes[r])}}

(* Here a route that cannot be driven is an exception of the whole call,   *)
(* though there is a plan.                                                 *)
Relocate ==
  /\ state = "improving" /\ passes < Cardinality(Tasks)
  /\ \A trial \in Relocations : CanDrive(trial)
  /\ \E best \in Cheapest(Relocations) :
       objective(best) < objective(routes) /\ routes' = best
  /\ passes' = passes + 1
  /\ UNCHANGED <<mission, state, order, coordinationVars>>

RelocationThrows ==
  /\ state = "improving" /\ passes < Cardinality(Tasks)
  /\ \E trial \in Relocations : ~CanDrive(trial)
  /\ state' = "unreachable"
  /\ UNCHANGED <<mission, routes, order, passes, coordinationVars>>

Settled ==
  \/ passes = Cardinality(Tasks)
  \/ /\ \A trial \in Relocations : CanDrive(trial)
     /\ \A trial \in Relocations : objective(trial) >= objective(routes)

Coordinate ==
  /\ state = "improving" /\ Settled
  /\ state' = IF Robots = {} THEN "planned" ELSE "coordinating"
  /\ problem' = [grid |-> mission.grid,
                 starts |-> [r \in Robots |-> mission.robots[r].start],
                 milestones |-> [r \in Robots |->
                   make_milestones(mission.robots[r], routes[r],
                                   [k \in DOMAIN routes[r] |-> Service(routes[r][k])])]]
  /\ UNCHANGED <<mission, routes, order, passes, tree, next_id, taken, answer, agreed>>

Schedule ==
  /\ state = "coordinating"
  /\ Cbs!Start \/ Cbs!Step
  /\ state' = IF answer' = "found" THEN "planned"
              ELSE IF answer' = "none" THEN "no schedule" ELSE state
  /\ UNCHANGED <<mission, routes, order, passes>>

missionNext ==
  Begin \/ Insert \/ Inserted \/ Relocate \/ RelocationThrows \/ Coordinate \/ Schedule
-----------------------------------------------------------------------------
(* However often tasks were moved, each is done once, at its place, by a   *)
(* robot that can do it and get there; a robot stops once at a place, and  *)
(* with all its tasks there: service ticks of a stop are what the          *)
(* coordinator makes the robot stay for.                                   *)
TasksServed ==
  state \in {"improving", "coordinating", "planned"} =>
    /\ CanDrive(routes)
    /\ \A t \in Tasks :
         /\ Cardinality({<<r, k>> \in Robots \X (1..Cardinality(Tasks)) :
                           k \in DOMAIN routes[r] /\ t \in routes[r][k].tasks}) = 1
         /\ \A r \in Robots : t \in Served(routes[r]) => is_compatible(r, t)
    /\ \A r \in Robots : \A j, k \in DOMAIN routes[r] :
         /\ routes[r][j].at = routes[r][k].at => j = k
         /\ \A t \in routes[r][j].tasks : mission.tasks[t].at = routes[r][j].at

(* Unless the passes ran out, no task that is done elsewhere, by the same  *)
(* robot or by another, would make the plan better: the order it was       *)
(* inserted in has left nothing to gain by one move.  All places and all   *)
(* robots are compared, by a definition of their own.                      *)
NothingToGain ==
  state = "coordinating" /\ passes < Cardinality(Tasks) =>
    \A r, s \in Robots : \A t \in Served(routes[r]) :
      is_compatible(s, t) =>
        LET without == [routes EXCEPT ![r] = remove_task(@, t)]
            Places == 0..Len(without[s])
            At(k) == SubSeq(without[s], 1, k)
                       \o <<[at |-> mission.tasks[t].at, tasks |-> {t}]>>
                       \o SubSeq(without[s], k + 1, Len(without[s]))
            shared == \E k \in DOMAIN without[s] : without[s][k].at = mission.tasks[t].at
        IN shared \/ \A k \in Places :
             objective([without EXCEPT ![s] = At(k)]) >= objective(routes)
=============================================================================
