--------------------------- MODULE GridPathPlanner ---------------------------
(***************************************************************************)
(* The path planner of the core library, GridPathPlanner::plan: an A*      *)
(* search over the free cells of a grid.  A query is [width, height,       *)
(* obstacles, start, goal].  Either endpoint outside the free cells, or no *)
(* way between them, is an exception.                                      *)
(***************************************************************************)
EXTENDS CoreGrid, FiniteSets

CONSTANT Queries

VARIABLES query, queue, closed, came, outcome, path

Abs(n) == IF n < 0 THEN -n ELSE n

admissibleHeuristic(q, c) == Abs(c.x - q.goal.x) + Abs(c.y - q.goal.y)

isSolution(q, c) == c = q.goal

Start(q) == q.start

Search == INSTANCE AStar WITH
  StartState <- Start, Neighbors <- getNeighbors,
  Estimate <- admissibleHeuristic, IsSolution <- isSolution

planVars == <<query, queue, closed, came, outcome, path>>

Init ==
  /\ query \in Queries
  /\ queue = <<>> /\ closed = {} /\ came = <<>> /\ path = <<>>
  /\ outcome = "idle"

EndpointsFree == traversable(query, query.start) /\ traversable(query, query.goal)

Reject ==
  /\ outcome = "idle" /\ ~EndpointsFree
  /\ outcome' = "rejected"
  /\ UNCHANGED <<query, queue, closed, came, path>>

BeginUnchecked == Search!Begin   \* mutated: endpoints are not looked at

Begin == EndpointsFree /\ Search!Begin

Decided == outcome \in {"found", "failed", "rejected"}

Returned == Decided /\ UNCHANGED planVars

Next == Reject \/ Begin \/ Search!AStarStep \/ Returned

Spec == Init /\ [][Next]_planVars
-----------------------------------------------------------------------------
Within(q, n) == CellsWithin(q, q.start, n)

(* A path that is found runs from start to goal over free cells, one       *)
(* step at a time, and no path is shorter: its cost is what insertion into *)
(* a mission is weighed by (mission_planner.cpp:15).  A search that fails  *)
(* was for a goal that cannot be reached, and only an endpoint off the     *)
(* grid is rejected.                                                       *)
ShortestOrNone ==
  /\ outcome = "found" =>
       /\ Head(path) = query.start /\ Last(path) = query.goal
       /\ \A k \in 1..(Len(path) - 1) : path[k + 1] \in getNeighbors(query, path[k])
       /\ \A c \in Range(path) : traversable(query, c)
       /\ Len(path) > 1 => query.goal \notin Within(query, Len(path) - 2)
  /\ outcome = "failed" => query.goal \notin Everywhere(query, query.start)
  /\ outcome = "rejected" => ~EndpointsFree

(* An expanded state was reached in the cheapest way, so that never        *)
(* reopening it (a_star.hpp:120) loses nothing, though the way to an open  *)
(* state may still improve.                                                *)
ClosedSettled ==
  \A s \in closed \ {query.start} : s \notin Within(query, came[s].g - 1)
=============================================================================
