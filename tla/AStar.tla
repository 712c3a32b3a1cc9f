------------------------------- MODULE AStar -------------------------------
(***************************************************************************)
(* The A* search of a_star.hpp, a template over its environment.  A state  *)
(* is queued with its cost so far g and its estimate f, and keeps the      *)
(* neighbour it was reached from until a cheaper way is found.  A state    *)
(* that has been expanded is never reopened.                               *)
(*                                                                         *)
(* The queue returns a state of the least f, and of the greatest g among   *)
(* those; which, if there are several, is left open.                       *)
(***************************************************************************)
EXTENDS Integers, Sequences, TLC

CONSTANTS
  StartState(_),      \* of a query
  Neighbors(_, _),    \* the states that a state of a query leads to, each at cost 1
  Estimate(_, _),     \* the least cost still to come, never too high
  IsSolution(_, _)

VARIABLES
  query,
  queue,     \* [f, g] of every open state
  closed,    \* the states expanded
  came,      \* [from, g] of every state reached but the first
  outcome,   \* "idle", "searching", "found" or "failed"
  path       \* when found: the states from the start to the solution

aStarVars == <<queue, closed, came, outcome, path>>

Begin ==
  /\ outcome = "idle"
  /\ LET start == StartState(query)
     IN queue' = (start :> [f |-> Estimate(query, start), g |-> 0])
  /\ closed' = {} /\ came' = <<>> /\ path' = <<>>
  /\ outcome' = "searching"
  /\ UNCHANGED query

AnyOrder(a, b) == TRUE   \* mutated: the queue is not sorted

NotAfter(a, b) == a.f < b.f \/ (a.f = b.f /\ a.g >= b.g)

Top == {s \in DOMAIN queue : \A o \in DOMAIN queue : NotAfter(queue[s], queue[o])}

(* From the start to s. *)
Way[s \in DOMAIN came \cup {StartState(query)}] ==
  IF s = StartState(query) THEN <<s>> ELSE Append(Way[came[s].from], s)

Find ==
  /\ outcome = "searching"
  /\ \E s \in Top : IsSolution(query, s) /\ path' = Way[s]
  /\ outcome' = "found"
  /\ UNCHANGED <<query, queue, closed, came>>

Close(s) == closed \cup {s}

LatestWay(n, g) == n \notin closed   \* mutated: the latest way wins

(* A way of cost g to n is new or cheaper than the one known. *)
Better(n, g) ==
  /\ n \notin closed
  /\ n \in DOMAIN queue => g < queue[n].g

Expand ==
  /\ outcome = "searching"
  /\ \E s \in Top :
       LET g == queue[s].g + 1
           better == {n \in Neighbors(query, s) \ {s} : Better(n, g)}
       IN /\ ~IsSolution(query, s)
          /\ queue' = [n \in better |-> [f |-> g + Estimate(query, n), g |-> g]]
                      @@ [o \in DOMAIN queue \ {s} |-> queue[o]]
          /\ came' = [n \in better |-> [from |-> s, g |-> g]] @@ came
          /\ closed' = Close(s)
  /\ UNCHANGED <<query, outcome, path>>

FailNever ==   \* mutated: the loop does not look whether the queue is empty
  /\ outcome = "searching"
  /\ DOMAIN queue = {}
  /\ UNCHANGED <<query, aStarVars>>

Fail ==
  /\ outcome = "searching"
  /\ DOMAIN queue = {}
  /\ outcome' = "failed"
  /\ UNCHANGED <<query, queue, closed, came, path>>

AStarStep == Find \/ Expand \/ Fail
=============================================================================
