----------------------------- MODULE RouteState -----------------------------
(***************************************************************************)
(* The routes that allocation works on (offline_mission_planner.cpp,       *)
(* RouteState): the stops of one robot with the travel estimate of every   *)
(* leg, changed leg by leg as tasks come and go.                           *)
(*                                                                         *)
(* A robot is [start, home, caps, ticks]: where it starts, where it has to *)
(* return (or NoHome), what it can do and its travel estimates, NoPath     *)
(* where it has no way.  A task is [location, needs, service, tolerance,   *)
(* high].  A route is [stops, legs, travel, service]; a stop is            *)
(* [location, tasks, service, tolerance], with its tasks in the order in   *)
(* which they came.                                                        *)
(***************************************************************************)
EXTENDS Integers, SequencesExt

NoHome == <<>>
NoPath == -1

Leg(robot, from, to) == robot.ticks[<<from, to>>]

LoadOf(route) == route.travel + route.service

Total(numbers) ==
  LET upTo[k \in 0..Len(numbers)] == IF k = 0 THEN 0 ELSE upTo[k - 1] + numbers[k]
  IN upTo[Len(numbers)]

PlaceBefore(robot, stops, i) == IF i = 1 THEN robot.start ELSE stops[i - 1].location

(* The legs of a route with these stops. *)
LegsOf(robot, stops) ==
  [i \in DOMAIN stops |-> Leg(robot, PlaceBefore(robot, stops, i), stops[i].location)]
    \o IF robot.home # NoHome /\ stops # <<>>
       THEN <<Leg(robot, Last(stops).location, robot.home)>> ELSE <<>>

rebuild(robot, stops) ==
  [stops |-> stops,
   legs |-> LegsOf(robot, stops),
   travel |-> Total(LegsOf(robot, stops)),
   service |-> Total([i \in DOMAIN stops |-> stops[i].service])]

StopFor(task, t) ==
  [location |-> task.location, tasks |-> <<t>>,
   service |-> task.service, tolerance |-> task.tolerance]

(* A stop comes in at place i: the leg there gives way to one to the stop  *)
(* and one on from it, if the robot goes on.                               *)
inserted(robot, route, i, stop) ==
  LET last == i = Len(route.stops) + 1
      ends == last /\ robot.home = NoHome
      next == IF last THEN robot.home ELSE route.stops[i].location
      around == << Leg(robot, PlaceBefore(robot, route.stops, i), stop.location) >>
                \o IF ends THEN <<>> ELSE << Leg(robot, stop.location, next) >>
      old == IF i \in DOMAIN route.legs THEN route.legs[i] ELSE 0
  IN [stops |-> InsertAt(route.stops, i, stop),
      legs |-> SubSeq(route.legs, 1, i - 1) \o around
               \o SubSeq(route.legs, i + 1, Len(route.legs)),
      travel |-> route.travel + Total(around) - old,
      service |-> route.service + stop.service]

(* Another task at a stop the robot makes anyway. *)
merged(route, i, t, task) ==
  [route EXCEPT !.stops[i].tasks = Append(@, t),
                !.stops[i].service = @ + task.service,
                !.stops[i].tolerance = IF task.tolerance > @ THEN task.tolerance ELSE @,
                !.service = @ + task.service]

Greatest(numbers) == Max({0} \cup numbers)

NothingOn(route, i) == 0   \* mutated: the leg on from a stop that goes stays counted

LegOn(route, i) == IF i + 1 \in DOMAIN route.legs THEN route.legs[i + 1] ELSE 0

(* The stop at place i goes: the legs to it and on from it give way to one *)
(* that joins its neighbours, if there is a next one.                      *)
WithoutStop(robot, route, i) ==
  LET stops == RemoveAt(route.stops, i)
      next == IF i <= Len(stops) THEN stops[i].location ELSE robot.home
      joined == IF next = NoHome THEN <<>>
                ELSE << Leg(robot, PlaceBefore(robot, route.stops, i), next) >>
  IN IF stops = <<>> THEN [route EXCEPT !.stops = <<>>, !.legs = <<>>, !.travel = 0]
     ELSE [route EXCEPT !.stops = stops,
                        !.legs = SubSeq(@, 1, i - 1) \o joined \o SubSeq(@, i + 2, Len(@)),
                        !.travel = @ + Total(joined) - route.legs[i] - LegOn(route, i)]

StopOf(route, t) == CHOOSE i \in DOMAIN route.stops : t \in Range(route.stops[i].tasks)

removed(robot, route, t, tasks) ==
  LET i == StopOf(route, t)
      left == RemoveAt(route.stops[i].tasks, CHOOSE k \in DOMAIN route.stops[i].tasks :
                                               route.stops[i].tasks[k] = t)
      rest == [route EXCEPT !.service = @ - tasks[t].service]
  IN IF left = <<>> THEN WithoutStop(robot, rest, i)
     ELSE [rest EXCEPT !.stops[i].tasks = left,
                       !.stops[i].service = @ - tasks[t].service,
                       !.stops[i].tolerance = Greatest({tasks[u].tolerance : u \in Range(left)})]

(* Whether every leg of the route can be travelled. *)
Passable(route) == NoPath \notin Range(route.legs)
=============================================================================
