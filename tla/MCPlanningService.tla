------------------------- MODULE MCPlanningService -------------------------
(* Two processes, two ways to preprocess and one without the cache, two    *)
(* output directories.                                                     *)
EXTENDS PlanningService, TLC

Plain == [inflate |-> FALSE, persistent |-> TRUE]
Inflated == [inflate |-> TRUE, persistent |-> TRUE]
Uncached == [inflate |-> FALSE, persistent |-> FALSE]

Request(settings, directory, animate) ==
  [valid |-> TRUE, settings |-> settings, directory |-> directory, animate |-> animate]

MCRequests ==
  {Request(Plain, "a", FALSE), Request(Inflated, "b", FALSE),
   Request(Uncached, "b", TRUE), [Request(Plain, "b", FALSE) EXCEPT !.valid = FALSE]}

AnyProcess == Permutations(Processes)
=============================================================================
