--------------------------- MODULE TaskAllocation ---------------------------
(***************************************************************************)
(* How the offline planner shares the tasks out (build_routes and its      *)
(* caller in offline_mission_planner.cpp): every task is inserted, the one *)
(* with the greatest regret first; then single tasks are relocated, as     *)
(* long as that lowers the objective; then, if wanted, tasks are moved     *)
(* from robots with many to robots with few, while the loads stay within a *)
(* slack of what they were.                                                *)
(*                                                                         *)
(* A problem is [robots, tasks, weights, options].  Weights and loads are  *)
(* integers, so the code's 1e-9 only makes comparisons strict; the slack   *)
(* is in hundredths.  Time can run out before any candidate.               *)
(***************************************************************************)
EXTENDS RouteState, FiniteSets

CONSTANT Problems

(* What the caller has seen to (offline_mission_planner.cpp:654-691): every *)
(* task has a capable robot, and no number but a missing way is negative.  *)
PlacesOf(p, r) ==
  {p.tasks[t].location : t \in DOMAIN p.tasks}
    \cup ({p.robots[r].start, p.robots[r].home} \ {NoHome})

IsProblem(p) ==
  /\ Len(p.robots) \in Nat /\ DOMAIN p.robots = 1..Len(p.robots)
  /\ Len(p.tasks) \in Nat /\ DOMAIN p.tasks = 1..Len(p.tasks)
  /\ \A r \in DOMAIN p.robots : \A a, b \in PlacesOf(p, r) :
       Leg(p.robots[r], a, b) \in Nat \cup {NoPath}
  /\ \A r \in DOMAIN p.robots : p.robots[r].start # NoHome
  /\ \A t \in DOMAIN p.tasks :
       /\ p.tasks[t].service \in Nat /\ p.tasks[t].tolerance \in Nat
       /\ p.tasks[t].location # NoHome
       /\ \E r \in DOMAIN p.robots : p.tasks[t].needs \subseteq p.robots[r].caps
  /\ p.weights.maximum \in Nat /\ p.weights.total \in Nat
  /\ p.options.max_candidates \in Nat /\ p.options.slack \in Nat

ASSUME ProblemsAssumption == \A p \in Problems : IsProblem(p)

VARIABLES
  problem,
  phase,        \* "insert", "relocate", "balance", "check", "done" or "failed"
  routes,       \* of each robot
  remaining,    \* the tasks not inserted yet
  passes,       \* of the present phase
  evaluations,  \* candidates looked at, in both phases together
  exhausted,    \* the budget was found to be spent
  before,       \* the routes before balancing
  balanced      \* how many balancing moves were made

vars == <<problem, phase, routes, remaining, passes, evaluations, exhausted, before, balanced>>

Robots == DOMAIN problem.robots
Tasks == DOMAIN problem.tasks
Options == problem.options

compatible(r, t) == problem.tasks[t].needs \subseteq problem.robots[r].caps

Capable(t) == {r \in Robots : compatible(r, t)}

(* With more tasks than this only the most urgent one is considered.       *)
ManyTasks == 50
RegretLimit == IF Len(problem.tasks) > ManyTasks THEN 1 ELSE 12

Loads(rs) == [r \in DOMAIN rs |-> LoadOf(rs[r])]

MaximumLoad(rs) == Greatest(Range(Loads(rs)))
TotalLoad(rs) == Total(Loads(rs))

objective(rs) ==
  problem.weights.maximum * MaximumLoad(rs) + problem.weights.total * TotalLoad(rs)

TaskCount(route) == Total([i \in DOMAIN route.stops |-> Len(route.stops[i].tasks)])

within_maximum(rs, reference, slack) ==   \* mutated: the total load is free to grow
  100 * MaximumLoad(rs) <= MaximumLoad(reference) * (100 + slack)

within_slack(rs, reference, slack) ==
  /\ 100 * MaximumLoad(rs) <= MaximumLoad(reference) * (100 + slack)
  /\ 100 * TotalLoad(rs) <= TotalLoad(reference) * (100 + slack)

(* A task joins a stop at its location if there is one.                    *)
Stopping(route, t) ==
  {i \in DOMAIN route.stops : route.stops[i].location = problem.tasks[t].location}

LastOnly(route, t) ==   \* mutated: new stops go to the end
  {IF Stopping(route, t) # {} THEN Min(Stopping(route, t)) ELSE Len(route.stops) + 1}

Positions(route, t) ==
  IF Stopping(route, t) # {} THEN {Min(Stopping(route, t))}
  ELSE 1..(Len(route.stops) + 1)

With(r, route, t, i) ==
  IF Stopping(route, t) # {} THEN merged(route, i, t, problem.tasks[t])
  ELSE inserted(problem.robots[r], route, i, StopFor(problem.tasks[t], t))

(* The first difference decides. *)
LexLess(a, b) ==
  \E i \in DOMAIN a : a[i] < b[i] /\ \A j \in DOMAIN a : j < i => a[j] = b[j]

First(keys) == CHOOSE k \in keys : \A o \in keys \ {k} : LexLess(k, o)

Init ==
  /\ problem \in Problems
  /\ phase = "insert"
  /\ routes = [r \in Robots |-> rebuild(problem.robots[r], <<>>)]
  /\ remaining = Tasks
  /\ passes = 0 /\ evaluations = 0 /\ exhausted = FALSE
  /\ before = <<>> /\ balanced = 0
-----------------------------------------------------------------------------
(* Insertion. *)
Urgency(t) ==
  <<Cardinality(Capable(t)), IF problem.tasks[t].high THEN 0 ELSE 1,
    -problem.tasks[t].service, t>>

Shortlist ==
  {t \in remaining :
     Cardinality({u \in remaining : LexLess(Urgency(u), Urgency(t))}) < RegretLimit}

(* The ways to insert a task, as <<objective, robot, position>>: the order *)
(* in which the least is found first.                                      *)
Insertions(t) ==
  UNION {{<<objective([routes EXCEPT ![r] = With(r, routes[r], t, i)]), r, i>> :
            i \in Positions(routes[r], t)} : r \in Capable(t)}

Huge == 1000000000

Regret(t) ==
  LET best == First(Insertions(t))
      others == {o[1] : o \in Insertions(t) \ {best}}
  IN IF others = {} THEN Huge ELSE Min(others) - best[1]

(* A way that a capable robot would have to go does not exist: that is an  *)
(* exception.                                                              *)
NoWay ==
  \E t \in Shortlist : \E r \in Capable(t) : \E i \in Positions(routes[r], t) :
    ~Passable(With(r, routes[r], t, i))

(* (The code goes on to rebuild the legs, which by StatesExact changes      *)
(* nothing.)                                                               *)
InsertNext ==
  /\ phase = "insert" /\ remaining # {} /\ ~NoWay
  /\ LET t == First({<<-Regret(u)>> \o Urgency(u) : u \in Shortlist})[5]
         best == First(Insertions(t))
         r == best[2]
     IN /\ routes' = [routes EXCEPT ![r] = With(r, @, t, best[3])]
        /\ remaining' = remaining \ {t}
  /\ UNCHANGED <<problem, phase, passes, evaluations, exhausted, before, balanced>>

InsertionFails ==
  /\ phase = "insert" /\ remaining # {} /\ NoWay
  /\ phase' = "failed"
  /\ UNCHANGED <<problem, routes, remaining, passes, evaluations, exhausted, before, balanced>>

InsertionEnds ==
  /\ phase = "insert" /\ remaining = {}
  /\ phase' = "relocate"
  /\ UNCHANGED <<problem, routes, remaining, passes, evaluations, exhausted, before, balanced>>
-----------------------------------------------------------------------------
(* Local search.  A move is <<source, stop, place of the task among those  *)
(* of the stop, target, position>>; a pass looks at them in this order.    *)
TaskOf(m) == routes[m[1]].stops[m[2]].tasks[m[3]]

Without(m) ==
  removed(problem.robots[m[1]], routes[m[1]], TaskOf(m), problem.tasks)

Base(m) == IF m[4] = m[1] THEN Without(m) ELSE routes[m[4]]

PutDownFirst(m) ==   \* mutated: the task is taken away after it was put down
  [routes EXCEPT ![m[4]] = With(m[4], Base(m), TaskOf(m), m[5]), ![m[1]] = Without(m)]

(* Where source and target are one, what is put down last stays.           *)
After(m) ==
  [routes EXCEPT ![m[1]] = Without(m), ![m[4]] = With(m[4], Base(m), TaskOf(m), m[5])]

CountsApart(source, target) == TaskCount(routes[source]) > TaskCount(routes[target]) + 1

(* The robots a task of the source may go to in the present phase. *)
Targets(source, t) ==
  {r \in Capable(t) : phase = "balance" => r # source /\ CountsApart(source, r)}

Moves ==
  UNION {UNION {UNION {
    LET task == routes[r].stops[s].tasks[k]
    IN UNION {{<<r, s, k, target, i>> : i \in Positions(Base(<<r, s, k, target>>), task)} :
                target \in Targets(r, task)} :
      k \in DOMAIN routes[r].stops[s].tasks} : s \in DOMAIN routes[r].stops} : r \in Robots}

(* Before the moves of a task the task is taken away, also if it then has  *)
(* none: <<source, stop, place, 0, 0>>.                                    *)
Takings ==
  UNION {UNION {{<<r, s, k, 0, 0>> : k \in DOMAIN routes[r].stops[s].tasks} :
                  s \in DOMAIN routes[r].stops} : r \in Robots}

Looks == Takings \cup Moves

(* What a pass gets to see before it ends, or the time or the candidate    *)
(* budget does: everything up to one of these, nothing if to Nowhere.      *)
Nowhere == <<0, 0, 0, 0, 0>>

Seen(last) == {look \in Looks : ~LexLess(last, look)}

Budgeted ==
  {last \in {Nowhere} \cup Looks :
     Cardinality({m \in Moves : LexLess(m, last)}) < Options.max_candidates - evaluations}

(* What a move does to the sum of the squares of the task counts.          *)
CountDelta(m) ==
  IF m[1] = m[4] THEN 0
  ELSE 2 * (TaskCount(routes[m[4]]) - TaskCount(routes[m[1]]) + 1)

ShorterMaximum(m) ==   \* mutated: only the maximum load counts
  MaximumLoad(After(m)) < MaximumLoad(routes)

Better(m) ==
  IF phase = "balance"
  THEN within_slack(After(m), before, Options.slack)
       /\ (CountDelta(m) < 0 \/ objective(After(m)) < objective(routes))
  ELSE objective(After(m)) < objective(routes)

Rank(m) ==
  << IF phase = "balance" THEN CountDelta(m) ELSE 0, objective(After(m)) >> \o m

Searching == phase \in {"relocate", "balance"}

BudgetLeft == ~exhausted /\ evaluations < Options.max_candidates

NextPhase ==
  /\ phase' = IF phase = "relocate" /\ Options.balance THEN "balance" ELSE "check"
  /\ before' = IF phase = "relocate" THEN routes ELSE before
  /\ passes' = 0

(* One pass: the best of the moves seen is made; without one, or when the  *)
(* passes or the budget are used up, the phase is over.                    *)
Pass ==
  /\ Searching /\ passes < Options.max_passes /\ BudgetLeft
  /\ \E last \in Budgeted :
       LET seen == Seen(last) \cap Moves
           good == {Rank(m) : m \in {x \in seen : Better(x)}}
           won == SubSeq(First(good), 3, 7)
       IN /\ \A look \in Seen(last) : Passable(Without(look))
          /\ \A m \in seen : Passable(After(m)[m[4]])
          /\ evaluations' = evaluations + Cardinality(seen)
          /\ exhausted' = (Seen(last) # Looks)
          /\ IF good # {}
             THEN /\ routes' = After(won)
                  /\ balanced' = IF phase = "balance" THEN balanced + 1 ELSE balanced
                  /\ passes' = passes + 1
                  /\ UNCHANGED <<phase, before>>
             ELSE NextPhase /\ UNCHANGED <<routes, balanced>>
  /\ UNCHANGED <<problem, remaining>>

PassFails ==
  /\ Searching /\ passes < Options.max_passes /\ BudgetLeft
  /\ \E last \in Budgeted :
       \/ \E look \in Seen(last) : ~Passable(Without(look))
       \/ \E m \in Seen(last) \cap Moves : ~Passable(After(m)[m[4]])
  /\ phase' = "failed"
  /\ UNCHANGED <<problem, routes, remaining, passes, evaluations, exhausted, before, balanced>>

PhaseEnds ==
  /\ Searching
  /\ passes = Options.max_passes \/ ~BudgetLeft
  /\ NextPhase
  /\ exhausted' = (exhausted \/ (passes < Options.max_passes /\ ~BudgetLeft))
  /\ UNCHANGED <<problem, routes, remaining, evaluations, balanced>>

(* The caller undoes balancing that went too far.                          *)
Conclude ==
  /\ phase = "check"
  /\ routes' = IF balanced > 0 /\ ~within_slack(routes, before, Options.slack)
               THEN before ELSE routes
  /\ phase' = "done"
  /\ UNCHANGED <<problem, remaining, passes, evaluations, exhausted, before, balanced>>

Ended == phase \in {"done", "failed"}

Returned == Ended /\ UNCHANGED vars

Next ==
  \/ InsertNext \/ InsertionFails \/ InsertionEnds
  \/ Pass \/ PassFails \/ PhaseEnds \/ Conclude \/ Returned

Spec == Init /\ [][Next]_vars
-----------------------------------------------------------------------------
StopsOf(r) == Range(routes[r].stops)

(* "every task id occurs exactly once among all stops, its requirements    *)
(* are covered by the capabilities of its robot, and stops merged at one   *)
(* point keep all ids" (README.md:219, translated), at every moment of the *)
(* allocation.                                                             *)
EveryTaskOnce ==
  /\ \A t \in Tasks :
       LET holders == {h \in UNION {{r} \X DOMAIN routes[r].stops : r \in Robots} :
                         t \in Range(routes[h[1]].stops[h[2]].tasks)}
       IN /\ Cardinality(holders) = IF t \in remaining THEN 0 ELSE 1
          /\ \A h \in holders :
               /\ compatible(h[1], t)
               /\ routes[h[1]].stops[h[2]].location = problem.tasks[t].location
  /\ \A r \in Robots :
       /\ \A stop \in StopsOf(r) : stop.tasks # <<>> /\ IsInjective(stop.tasks)
       /\ IsInjective([i \in DOMAIN routes[r].stops |-> routes[r].stops[i].location])

(* What is kept leg by leg as tasks come and go is what a route with these *)
(* tasks amounts to, however many moves were made before.                  *)
StatesExact ==
  \A r \in Robots :
    /\ routes[r] = rebuild(problem.robots[r], routes[r].stops)
    /\ \A stop \in StopsOf(r) :
         /\ stop.service = Total([k \in DOMAIN stop.tasks |-> problem.tasks[stop.tasks[k]].service])
         /\ stop.tolerance = Greatest({problem.tasks[t].tolerance : t \in Range(stop.tasks)})

Spread == Total([r \in Robots |-> TaskCount(routes[r]) * TaskCount(routes[r])])

(* Every relocation lowers the objective and every balancing move evens    *)
(* the task counts out: neither phase can go round in circles, whatever    *)
(* the number of its passes.                                               *)
MovesPay ==
  [][/\ phase = "relocate" => routes' = routes \/ objective(routes') < objective(routes)
     /\ phase = "balance" => routes' = routes \/ Spread' < Spread]_vars

(* The routes' stops without task t, and with it at place i of robot r, or *)
(* at the stop that robot makes there anyway.                              *)
Vacated(t) ==
  [r \in Robots |->
     SelectSeq([i \in DOMAIN routes[r].stops |->
                  [routes[r].stops[i] EXCEPT
                     !.tasks = Remove(@, t),
                     !.service = IF t \in Range(routes[r].stops[i].tasks)
                                 THEN @ - problem.tasks[t].service ELSE @]],
               LAMBDA stop : stop.tasks # <<>>)]

Placed(stops, t, i) ==
  IF i \in DOMAIN stops /\ stops[i].location = problem.tasks[t].location
  THEN [stops EXCEPT ![i].service = @ + problem.tasks[t].service]
  ELSE InsertAt(stops, i, StopFor(problem.tasks[t], t))

(* When relocation ends of itself, no task could be moved to any place of  *)
(* any capable robot, its own included, to lower the objective.            *)
LocallyOptimal ==
  [][(phase = "relocate" /\ phase' \in {"balance", "check"}
        /\ passes < Options.max_passes /\ BudgetLeft /\ ~exhausted') =>
       \A t \in Tasks : \A r \in Capable(t) :
         LET stops == Vacated(t)
         IN \A i \in 1..(Len(stops[r]) + 1) :
              objective([q \in Robots |->
                           rebuild(problem.robots[q],
                                   IF q = r THEN Placed(stops[r], t, i) ELSE stops[q])])
                >= objective(routes)]_vars

(* Balancing never exceeds its slack on what it started from, so that the  *)
(* caller's check (offline_mission_planner.cpp:766) never has to undo it.  *)
SlackKept ==
  phase \in {"balance", "check", "done"} /\ before # <<>> =>
    LET Kept(now, then) == 100 * (now - then) <= then * Options.slack
    IN /\ Kept(MaximumLoad(routes), MaximumLoad(before))
       /\ Kept(TotalLoad(routes), TotalLoad(before))
=============================================================================
