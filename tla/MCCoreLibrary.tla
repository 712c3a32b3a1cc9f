---------------------------- MODULE MCCoreLibrary ----------------------------
(* The core library: its A* over a grid (the grid path planner) and over a *)
(* route (the low level of the multi-map coordinator); or a mission that   *)
(* is planned and coordinated.  A behaviour is of one of the three.        *)
EXTENDS MissionPlanner

VARIABLES query, queue, closed, came, outcome, path

C(x, y) == [x |-> x, y |-> y]

Grid(width, height, obstacles) == [width |-> width, height |-> height, obstacles |-> obstacles]
-----------------------------------------------------------------------------
(* Every way between two cells, or to one off the grid, of grids of three  *)
(* by three cells with one or three obstacles, and of a larger one whose   *)
(* walls make the search improve on the way to an open cell.               *)
Small == {C(x, y) : x \in 0..2, y \in 0..2}

MCQueries ==
  {[width |-> 3, height |-> 3, obstacles |-> obstacles, start |-> start, goal |-> goal] :
     obstacles \in {O \in SUBSET Small : Cardinality(O) \in {1, 3}},
     start \in {C(0, 0), C(1, 0)}, goal \in Small \cup {C(3, 1), C(1, -1)}}
  \cup
  {[width |-> 6, height |-> 4, obstacles |-> obstacles, start |-> start, goal |-> goal] :
     obstacles \in {{C(1, 1), C(2, 1), C(3, 1), C(4, 2), C(4, 3)},
                    {C(3, 0), C(3, 1), C(3, 2), C(1, 2)}},
     start \in {C(0, 1), C(2, 0)}, goal \in {C(5, 1), C(5, 3), C(3, 3)}}

Paths == INSTANCE GridPathPlanner WITH Queries <- MCQueries
-----------------------------------------------------------------------------
(* Routes along a corridor, there and back, and up a stair, with a gate on *)
(* the way, under every few of the constraints they could be given early.  *)
Frames == INSTANCE RouteFrames

Hall(x) == [map |-> "hall", x |-> x, y |-> 0]
Upper == [map |-> "upper", x |-> 0, y |-> 0]

(* A path through the cells, each move of d ticks; by the stair when the   *)
(* map changes.                                                            *)
CellPath(cells, d) ==
  [k \in DOMAIN cells |->
     [pos |-> cells[k], tick |-> d * (k - 1),
      transition |-> IF k > 1 /\ cells[k].map # cells[k - 1].map THEN "stair" ELSE ""]]

Route(cells, d) ==
  Frames!make_frames(
    [start |-> Head(cells), segments |-> <<CellPath(cells, d)>>,
     stops |-> <<[location |-> Last(cells), service |-> 0]>>],
    [regions |-> <<[id |-> "gate", cells |-> {Hall(1)}, buffer |-> 0]>>, buffer |-> 0])

Routes ==
  {Route(<<Hall(0), Hall(1), Hall(2)>>, 1), Route(<<Hall(0), Hall(1), Hall(0)>>, 1),
   Route(<<Hall(1), Hall(2)>>, 2), Route(<<Hall(1), Upper>>, 2), Route(<<Hall(0)>>, 1)}

Latest == 3   \* the last tick that constraints are about

Constraints(route) ==
  LET cells == {f.pos : f \in Range(route)}
      held == {f.res : f \in Range(route)} \ {Frames!NoResource}
  IN {<<"vertex", t, c>> : t \in 1..Latest, c \in cells}
     \cup {<<"resource", t, r>> : t \in 1..Latest, r \in held}
     \cup {<<"edge", t, route[f].pos, route[f + 1].pos>> :
             t \in 0..(Latest - 1), f \in 1..(Len(route) - 1)}

MCRouteQueries ==
  UNION {{[routes |-> <<route>>, constraints |-> few] :
            few \in {D \in SUBSET Constraints(route) : Cardinality(D) <= 3}} : route \in Routes}

Ways == INSTANCE LowLevelSearch WITH Queries <- MCRouteQueries

pathVars == <<query, queue, closed, came, outcome, path>>
-----------------------------------------------------------------------------
Robot(x, y, home, capabilities) ==
  [start |-> C(x, y), return_home |-> home, capabilities |-> capabilities]

Task(x, y, needs, service) ==
  [at |-> C(x, y), needs |-> needs, service |-> service, high_priority |-> FALSE]

Urgent(task) == [task EXCEPT !.high_priority = TRUE]

Mission(grid, robots, tasks) ==
  [grid |-> grid, robots |-> robots, tasks |-> tasks, weights |-> [maximum |-> 3, total |-> 1]]

Open == Grid(3, 2, {})
Narrow == Grid(4, 2, {C(0, 1), C(2, 1), C(3, 1)})   \* a corridor with one bay
Lane == Grid(6, 1, {})
Split == Grid(3, 1, {C(1, 0)})

MCMissions ==
  {Mission(Narrow, <<Robot(0, 0, FALSE, {"a"}), Robot(3, 0, FALSE, {"a"})>>,
           <<Task(3, 0, {"a"}, 0), Task(0, 0, {"a"}, 0)>>),
   Mission(Narrow, <<Robot(0, 0, FALSE, {"a"}), Robot(3, 0, FALSE, {"b"})>>,
           <<Task(3, 0, {"a"}, 0), Task(0, 0, {"b"}, 0)>>),
   Mission(Open, <<Robot(0, 0, TRUE, {"a"}), Robot(2, 0, FALSE, {"a", "b"})>>,
           <<Task(1, 0, {"a"}, 1), Task(0, 1, {"b"}, 0), Task(2, 1, {"a"}, 0),
             Urgent(Task(1, 0, {}, 1))>>),
   Mission(Lane, <<Robot(0, 0, FALSE, {"a"})>>,
           <<Task(1, 0, {"a"}, 0), Task(2, 0, {"a"}, 1), Task(3, 0, {"a"}, 2)>>),
   Mission(Lane, <<Robot(1, 0, FALSE, {"a"}), Robot(5, 0, FALSE, {"a"})>>,
           <<Task(3, 0, {"a"}, 1), Task(0, 0, {"a"}, 0)>>),
   Mission(Split, <<Robot(0, 0, FALSE, {"a"}), Robot(2, 0, FALSE, {"a"})>>, <<Task(2, 0, {"a"}, 0)>>),
   Mission(Split, <<Robot(0, 0, FALSE, {"a"})>>, <<Task(2, 0, {"a"}, 0)>>),
   Mission(Open, <<>>, <<>>),
   Mission(Open, <<Robot(0, 0, FALSE, {"a"})>>, <<Task(2, 1, {"b"}, 0)>>)}
-----------------------------------------------------------------------------
NoMission ==
  /\ mission = CHOOSE m \in Missions : TRUE
  /\ state = "none" /\ routes = <<>> /\ order = <<>> /\ passes = 0
  /\ problem = <<>> /\ tree = {} /\ next_id = 0 /\ taken = 0
  /\ answer = "idle" /\ agreed = <<>>

NoQuery ==
  /\ query = CHOOSE q \in MCQueries : TRUE
  /\ queue = <<>> /\ closed = {} /\ came = <<>> /\ path = <<>> /\ outcome = "idle"

OnRoute == "routes" \in DOMAIN query

MCInit ==
  \/ missionInit /\ NoQuery
  \/ (Paths!Init \/ Ways!Init) /\ NoMission

Search ==
  /\ state = "none"
  /\ \/ ~OnRoute /\ Paths!Next
     \/ OnRoute /\ Ways!Next
  /\ UNCHANGED <<missionVars, coordinationVars>>

MCNext ==
  \/ Search
  \/ missionNext /\ UNCHANGED pathVars

mcVars == <<missionVars, coordinationVars, pathVars>>

(* One thread runs a search to its end. *)
MCSpec == MCInit /\ [][MCNext]_mcVars /\ WF_mcVars(Search)

(* Every search ends: though a robot that may wait has states without end, *)
(* past the last constraint its goal is in reach of any of them.           *)
Terminates == state = "none" => <>(outcome \in {"found", "failed", "rejected"})

(* What is said of paths, by the module of the grid path planner: that     *)
(* they are shortest,                                                      *)
ShortestOrNone == state = "none" /\ ~OnRoute => Paths!ShortestOrNone

(* and that expanded states need not be reopened.                          *)
ClosedSettled == state = "none" /\ ~OnRoute => Paths!ClosedSettled

(* What is said of routes under constraints by the module of the low-level *)
(* search: its answer is that of the function the coordinator uses.        *)
AnswersAsLowLevel == state = "none" /\ OnRoute => Ways!AnswersAsLowLevel
=============================================================================
