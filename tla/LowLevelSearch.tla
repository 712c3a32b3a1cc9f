--------------------------- MODULE LowLevelSearch ---------------------------
(***************************************************************************)
(* The low-level search of the multi-map coordinator's conflict-based      *)
(* search, step by step: an A* search for the earliest way along a route   *)
(* under constraints.  A query is [routes, constraints]; it plans for      *)
(* robot 1.  A state is <<tick, frame>>.                                   *)
(***************************************************************************)
EXTENDS MultiMapConflicts

CONSTANT Queries

VARIABLES query, queue, closed, came, outcome, path

Start(q) == <<0, 1>>

getNeighbors(q, s) ==
  {<<s[1] + 1, f>> :
     f \in {g \in {s[2], s[2] + 1} : Neighbor(q.routes[1], q.constraints, s[2], g, s[1])}}

admissibleHeuristic(q, s) == Len(q.routes[1]) - s[2]

AtGoal(q, s) == isSolution(q.routes[1], q.constraints, s[2], s[1])

Search == INSTANCE AStar WITH
  StartState <- Start, Neighbors <- getNeighbors,
  Estimate <- admissibleHeuristic, IsSolution <- AtGoal

searchVars == <<query, queue, closed, came, outcome, path>>

Init ==
  /\ query \in Queries
  /\ queue = <<>> /\ closed = {} /\ came = <<>> /\ path = <<>>
  /\ outcome = "idle"

Decided == outcome \in {"found", "failed"}

Returned == Decided /\ UNCHANGED searchVars

Next == Search!Begin \/ Search!AStarStep \/ Returned

(* One thread runs the call to its end. *)
Spec == Init /\ [][Next]_searchVars /\ WF_searchVars(Search!Begin \/ Search!AStarStep)
-----------------------------------------------------------------------------
FramesOf(states) == [k \in DOMAIN states |-> states[k][2]]

(* The search returns the plan of the function lowLevel, which the         *)
(* coordinator is composed with in its place, and fails where that has     *)
(* none: whichever state the queue returns, the plan is the same.          *)
AnswersAsLowLevel ==
  /\ outcome = "found" => lowLevel(query, 1, query.constraints) = {FramesOf(path)}
  /\ outcome = "failed" => lowLevel(query, 1, query.constraints) = {}

(* The search ends, though a robot that may wait has states without end:   *)
(* past the last constraint the goal is in reach of any of them.           *)
Terminates == <>Decided
=============================================================================
