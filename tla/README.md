# Verification of capability_mission_planner

TLA+ models of the mission planner in `src/`, the TLC runs that check them on
small instances and the theorems about them that TLAPS checks for every
instance.  Line numbers refer to the sources at the commit modelled; paths are
below `src/src/` unless they say otherwise.

## 1. The system and its parts

The planner assigns tasks to robots of different capabilities, plans a path for
each over several maps joined by transitions (stairs, lifts), and then
schedules the paths in time so that no two robots collide and no shared
resource is held twice.  It is a sequential library; a ROS 2 node and a command
line call it.  Nothing in it runs concurrently except separate processes that
share cache and output directories, and the adapters that call the live
reservation table in whatever order execution brings.

| Part | State it keeps | Operations | Talks to |
| --- | --- | --- | --- |
| Live reservation table, `offline/coordination/live_reservation.cpp` | list of timed reservations | `try_reserve`, `update_progress`, `release_robot` | called by an execution adapter |
| Route frames, `make_frames` in `offline/coordination/multi_map_coordinator.cpp` | the frames of one route | walk, mark regions, buffer, park | input of all scheduling |
| Route reservations, `offline/coordination/route_reservations.cpp` | runs of occupancy and motion of the robots already scheduled | `safe_intervals`, `blocked_advance`, `record_blocked_departures` | built by the coordinator, read by the scheduler |
| Interval scheduler, `offline/coordination/safe_interval_scheduler.cpp` | queue, nodes, best arrivals | one search | called by the coordinator for each robot |
| Multi-map coordinator, `offline/coordination/multi_map_coordinator.cpp` | schedules of all robots, blame for lost ticks, a repair transaction | `coordinate_multi_map_routes` | called by the offline planner |
| Conflict-based search, `include/capability_mission_planner/search/` | high-level nodes with constraints | `CBS::search`, `AStar::search` | fallback of both coordinators |
| Offline mission planner, `offline/offline_mission_planner.cpp` | routes during allocation, budgets | insertion, relocation, balance, annotation | path planner, coordinator |
| Multi-map path planner, `offline/maps/multi_map_path_planner.cpp` | grids, distance fields, transition graph | `plan`, `precompute`, estimates | map bundle |
| Map loader and cache, `offline/maps/map_bundle_loader.cpp` | cache files on disk | `load` | file system, other processes |
| Core planner, `core/mission_planner.cpp`, `core/cbs_coordinator.cpp`, `core/grid_path_planner.cpp` | routes on one grid, milestones | `plan`, `coordinate` | conflict-based search |
| Configuration, exporter, animation, node, CLI | none of their own | parse, write files, one service callback | everything above |

What is hard in it, and what therefore makes each part correct:

- **Live table.** Calls come in any order, and progress reports may be late,
  repeated or stale.  A tick of a resource must have one holder whatever the
  history, and a call may change only its caller's ticks.
- **Frames.** Four passes rewrite the same sequence.  The timetable of the
  planned path must survive them, moves must keep the resource by which the
  scheduler knows that the robot cannot stop, and buffers must reach as far as
  configured.
- **Intervals and search.** Inclusive intervals, departures shifted by a tick,
  cuts where waiting is unsafe, parking for ever at the goal, dominance, a node
  limit: a classic place for off-by-one errors, which can only be seen against
  an independent statement of what a schedule is.
- **Coordinator.** Robots are scheduled one at a time; the result must be free
  of conflicts between all, and a repair that is cut off half way by its node
  or time budget must leave no trace.
- **Conflict-based search.** Termination, repeated constraints on parked
  robots, optimality of what it returns.
- **Allocation.** Budgets that cut loops between two moves; incremental travel
  figures that must equal recomputed ones; unreachable tasks half way.
- **Checkpoints.** Half of them are placed by frames counted along the paths, half
  by ticks of the schedule; services, waits and the loop that goes on behind a
  hold must not set them apart.
- **Path planner.** Three caches, each with keys of its own, over a search on a
  sparse graph whose edges are searches on grids: no answer may depend on what
  was asked before, and none may be worse than a search over all cells.
- **Map bundle.** Relations given twice, in either direction, contradicting each
  other or leaving a map adrift; transitions that miss a free cell.
- **Map cache.** Processes on one directory, one temporary name, cells written in
  three parts to a file that another writer may empty in between, files edited
  between reading and fingerprinting, a writer that dies half way.
- **Node and exporter.** A plan is several files written one after the other, some
  of them untested; success may be answered only when all are there, whole and of
  one request.
- **Core planner.** Insertion and relocation with and without exceptions of the
  path planner; schedules that serve every stop and are cheapest of all joint ones.

`PROJECT.json` lists the hazards one by one, with their lines and the property
that covers each.

## 2. Modules

| Module | Models | Remarks |
| --- | --- | --- |
| `ResourceCalendar` | what the live table promises | abstract: holder of every tick |
| `LiveReservation` | `LiveReservationTable` | refines `ResourceCalendar` |
| `LiveReservationProofs` | | the theorems, for all constants |
| `RouteGeometry` | resources of frames, distance and sweep tests | lengths in quarter cells |
| `RouteFrames` | `make_frames` as operators | used by the MC modules to build routes |
| `FrameBuilder` | `make_frames` loop by loop | a state machine over `RouteFrames` |
| `RouteReservations` | class `RouteReservations` | intervals as sequences of records |
| `OrderLemmas` | | lemmas: least and greatest of a set, ranks, sums, recursion on a tree |
| `SafeIntervalScheduler` | `schedule_safe_intervals` | actions of the search, one per node taken |
| `SafeIntervalSchedulerProofs` | | lemmas: intervals against the ticks, the search's invariant, for all jobs |
| `TickSchedule` | the tick-by-tick meaning of a schedule | oracle; knows no intervals |
| `IntervalSearch` | one call of the scheduler | composes the two, states the properties |
| `IntervalSearchProofs` | | the theorems, for all jobs |
| `CoordinationContract` | what coordination promises | abstract: publish, then perhaps repair |
| `MultiMapConflicts` | class `Environment`: conflicts, constraints, neighbours, goal test | `lowLevel` is the answer of the low-level A* as a function |
| `ConflictBasedSearch` | `CBS::search` over any environment | actions, one per high-level node taken |
| `CbsOptimality` | what the search promises of an environment | assumptions on the environment, the properties |
| `CbsOptimalityProofs` | | the theorems, for all environments |
| `AStar` | `AStar::search` over any environment | actions, one per state expanded |
| `LowLevelSearch` | the A* search of one robot under constraints | instance of `AStar`, held to `lowLevel` |
| `GridPathPlanner` | `GridPathPlanner::plan` | instance of `AStar` |
| `RouteState` | struct `RouteState`: routes changed leg by leg | operators |
| `TaskAllocation` | `build_routes` and its caller's check of the balancing | one action per insertion and per pass |
| `TaskAllocationProofs` | | the theorems, for all problems |
| `NavigationCheckpoints` | `extract_navigation_annotations` | operators for each part, then one action; composed with `FrameBuilder` |
| `MultiMapCoordinator` | `coordinate_multi_map_routes` | composes the scheduler and conflict-based search; refines the contract |
| `MultiMapCoordinatorProofs` | | the theorems, for all missions |
| `GridMap` | `MapLayer`: cells, moves and their ticks | operators, and the reference `LeastTicks` |
| `CompactGridSearch` | `compact_grid_search`, `compact_distance_field` | actions, one per entry taken from the queue |
| `MapBundle` | `MapBundleLoader::load`, `make_coarse_bundle` | operators: what a directory becomes, or that it is refused |
| `MultiMapPathPlanner` | class `MultiMapPathPlanner` | loads a bundle, then answers calls and fills its caches |
| `MapCache` | `load_map`, `load_cached_map`, `save_cached_map` | processes step by step over shared files |
| `PlanningService` | `handle_plan`, `PlanExporter::write` | composes processes over `MapCache`, with crashes |
| `PlanningServiceProofs` | | the theorems, for all processes and requests |
| `CoreGrid` | the core library's `GridMap` | operators |
| `CbsCoordinator` | the core coordinator | a third environment of `ConflictBasedSearch` |
| `MissionPlanner` | the core `MissionPlanner::plan` | over `CoreGrid` and `CbsCoordinator` |

`MCCoreLibrary` checks `GridPathPlanner`, `LowLevelSearch` and `MissionPlanner`
together, `MCPathPlanner` checks `CompactGridSearch`, `MultiMapPathPlanner` and
`FrameBuilder`, and `MCIntervalSearch` checks `IntervalSearch` and `LiveReservation`: a
behaviour is of one of them, and of those of `MCPathPlanner` a route that the
path planner has answered goes on to become frames (`FrameRoute`), and frames go
on to be timed and get their checkpoints (`NavigationCheckpoints`).  The other MC
modules have one module each; `MCPathPlanner` takes the requests of `FrameBuilder`
from `MCFrameBuilder`.

How state and code correspond:

- `LiveReservation.reservations` is the vector `_reservations`; as no code looks
  at its order and it never holds equal items, it is a set.  `granted` is the
  result of the latest `try_reserve`.
- A frame is `[pos, res]`: the cell with its map, and the resource string as a
  tuple of its kind and what it names.  The geometry is exact: cells are
  integers, footprints and margins come in quarter cells, and the clamped
  minimum of the sweep is computed by cases on integers.  The coordinator's
  1e-9 makes touching footprints conflict, hence `<=`.
- A job of the search holds the reservations, whose queries do not change
  during a search (the code computes them on first use and keeps them), and the
  node limit.  `nodes`, `best`, `open` and `expanded` are the code's locals;
  the queue's order is its comparator (estimated finish, then latest arrival,
  then node number).
- In the coordinator `phase` is the place in `coordinate_multi_map_routes`,
  `plans` the schedules, `blocking[r][o]` the blame table, and `candidate`,
  `queue`, `trial`, `used` the local variables of the repair.  When a robot
  finds no schedule, the call goes over to an instance of
  `ConflictBasedSearch` (`FallBack`), whose answer becomes the plans or the
  exception.
- `ConflictBasedSearch.tree` is the heap `open`, `taken` the count `expanded`,
  `answer` and `agreed` what the call returns.  The heap orders nodes by cost
  alone, so which of several cheapest nodes comes first is left open, and
  every property holds for all choices.  The environment is a set of constant
  operators: the conflict found first, the constraints it gives its agents, the
  low-level answer, the cost of a plan.  The root's cost is the sum over its plans;
  a child's is its parent's less the old plan of its agent plus the new one
  (`ChildCost`, lines 170 and 176), never added up anew.
- `AStar` has `queue` for `openSet` with `stateToHeap`, `closed` for
  `closedSet` and `came` for `cameFrom`; ties in the order of the queue are left
  open.  In the coordinator's model each low-level search is one step, the
  function `lowLevel`; `LowLevelSearch` shows that the search, step by step,
  returns exactly what that function says.
- In `TaskAllocation` a pass of the local search is one action: it looks at the
  moves in the order of the code's loops, as many as the candidate budget
  leaves and as the time allows (any number), and makes the best of them.  On the
  way it takes each task off its route (`Takings`), whether or not any move follows,
  and there too a missing way ends the call.
  `routes` stands for both `routes` and the routes inside `states`, which the
  code keeps equal.  Loads are integers, so the 1e-9 of the comparisons only
  makes them strict; the slack is counted in hundredths.  An exception of the
  path planner ends the call in phase `"failed"`.

- `NavigationCheckpoints.timed` is a robot's schedule, of which only `route_frame`
  is kept, and `points` its checkpoints; `about` is the resource, transition or
  stop a checkpoint names.  One task stands for all of a stop, and traffic events,
  which repeat the holdings, are left out.  Which schedule the coordinator returns
  is left open.
- Positions and places in ROOT of `MapBundle` are counted in cells, so that
  transition points fall on cells exactly; the code's 1e-6 and 1e-9 make that
  comparison robust.  Ticks are rounded up as `seconds_to_ticks` does, with 1.414
  for the square root, and penalties as `lround` does.
- `MultiMapPathPlanner.caches` has `_cache`, `_segment_cache` and
  `_estimate_cache`; the coarse planner's only cache is that of its segments,
  kept under the level of the maps.  One search over one map answers a fixed
  cheapest path (`map_paths`), as the code does when asked again;
  `CompactGridSearch` shows step by step that what it answers is cheapest.
  `dir.factor` is `coarse_search_factor` when costs are downsampled, else 1.
  Keys are text in the code: `Significant` is what six significant digits keep of a
  clearance or speed (`cache_key`, `estimate_cache_key`, 62-89), `Decimal` what
  `to_string` keeps (489-492), both any functions; a key has what they return.
- `MapCache.source` stands for content, size and time of the sources: an edit
  that keeps both is not in the model.  `files` are the files themselves, `entry`
  and `temporary` their names, so that a process can go on with a file that was
  renamed.  `job[p].step` is the place in `load_map`.  A file is its head, how far it
  reaches and its three blocks of cells (`save_cached_map`, 233-238), written and
  read one at a time.  A writer goes on at its own place: behind the point to which
  another has emptied the file it leaves zeros, and the length is right all the
  same.  `torn` is not in the file: it tells of which entries this is so.
- `PlanningService.disk` says of each file whether it was written since the latest
  request for its directory came, cut short or whole; `plan.json` is cut until its
  stream is closed by the return.  What two requests to the same directory at one
  time do is not in the model, as `src/README.md:72` asks users not to.
- The core coordinator takes one shortest plan per search, always the same, where
  A* may take any; `cbs_optimality` and the proof cover any choice.  `ShortestPlan`
  looks layer by layer until a goal is solved, at most `LongEnough` ticks: by then
  any plan there is has been found.  The code has no such end.

## 3. Runs

| Run | Question | Instance |
| --- | --- | --- |
| `waits_at_cells` | may the robot wait at every cell? (no) | 3-cell corridor, stair, moves of 1 to 3 ticks, services 0 to 2, regions that overlap, buffers 0 to 2 |
| `interval_search` | are intervals exact, schedules legal and earliest, failures true? does any order of calls of the live table keep a tick with one robot, and move ticks only as a calendar does? | routes of up to 7 frames among 1 or 2 others; 2 robots, 2 resources, ticks 0..3 |
| `multi_map_coordinator` | are only sound schedules published, and repairs only when better? | 2 to 4 robots, node budgets 0 to 30 |
| `region_holds_one` | does one robot at a time stand in a shared region? (no) | two missions of two robots |
| `no_constraint_twice` | are a conflict's constraints always new? (no) | the missions of `multi_map_coordinator` |
| `cbs_optimality` | is the solution found one of the cheapest, and "none" true? | 2 agents, 3 plans each, any conflicts between them |
| `core_library` | are paths shortest, does A* answer as `lowLevel` and end; are core missions served, relocated until nothing pays, and scheduled without conflict at least cost? | 3x3 grids with 1 or 3 obstacles, two 6x4 grids with walls; 5 routes under up to 3 constraints; 9 missions of up to 2 robots and 4 tasks |
| `task_allocation` | are tasks, figures, local optima and the slack kept, wherever the budget cuts? | 2 or 3 robots, 3 or 4 tasks on 6 places |
| `path_planner` | are searches exact, directories judged rightly, answers best and (where no other profile in use is written alike) independent of the caches, frames true to their route, and checkpoints true to the schedule? | 3x3 maps with up to 3 obstacles; 13 directories of up to 2 maps, 40 calls, 2 of them in any order; the requests of `waits_at_cells`; waits on up to 2 frames |
| `planning_service` | is a cache hit never outdated and, but for torn entries, what its sources give; is success answered only with the plan on disk? | 2 processes, 3 requests, 2 editions of a source, 2 settings, 2 directories |
| `stale_cache` | the former, with a map edited while it is loaded (no) | 1 process, 2 requests |
| `full_disk` | the latter, with a disk that may fill up (no) | 1 process, 2 requests |

Bounds.  Four ticks give the live table disjoint, touching, nested and
overlapping intervals; the entries of one resource do not look at those of
another, so that two resources suffice to see renewals apart.  In
`MCIntervalSearch` the others wait at most `WaitBound` = 2 ticks in all, enough
to be before, with and after the robot at every frame; reaches of 0, 3 and 4
quarter cells distinguish meeting in a cell, brushing past on a diagonal and
touching from the next cell; the oracle looks twice the horizon ahead.  The
missions of `MCMultiMapCoordinator` were chosen so that every phase is
entered: collisions at the start, failure of the first pass, repairs with one
and two blockers, repairs that run out of nodes in their first and in their
second search, repairs accepted and refused, and fallbacks that agree, that
meet their node limit, and that must make a parked robot give way.  Their
cheapest schedules are found by `CheaperExists`, a search over the joint moves
of all robots that knows nothing of constraints.  In this environment
conflict-based search cannot run out of nodes, since robots may wait where they
start; `cbs_optimality` covers that ending with agents without plans and with
solutions that all conflict.  There agent a's k-th plan costs a times k, so that
sums tie and differ, and "stubborn" plans are returned against their
constraints, as the plans of parked robots are; these instances have a node
limit, since nothing else ends them.  The routes of `core_library` include
one that visits a cell twice and ends there, one of a single frame and one with
a stair; three constraints suffice to hold a robot up, to keep it from its goal
after it got there, and to leave it no way at all.  The walls of the larger
grids make the search improve on the way to a queued
cell, which small grids do not.  `MCTaskAllocation` has robots with and without
a way home, of different speeds and abilities, one that cannot come or cannot
leave where a task is, tasks at one place, candidate budgets that end within a
pass and between the phases, and slacks that refuse and admit balancing.  The
regret shortlist of one task for more than 50 tasks is in the model but out of
reach of instances of this size.

The core missions have a corridor with one bay, where one robot has to step
aside; stops shared by tasks, with service; tasks whose best order is not that of
their insertion; a robot that is capable of a task and cannot get there, so that
insertion passes it over and relocation throws; and missions refused, without
robots and without a plan.  The coordinator sets no limit, so an instance
without any schedule would not end: there is none in the run, and
`SchedulesCheapest` compares with a search over the joint moves of all robots.

The maps of `path_planner` have obstacles, a narrow cell, dear cells and diagonal
moves past corners; each rule by which a directory is refused or kept has one of
its own, and of those that are served one has coarse maps.
The checkpoints are those of every route answered, of routes with a stop and
service, and of one with turns at the two sides of the distance of eight steps;
each is timed with waits of one or two ticks on none, one or two of the frames the
robot may wait at, which has it wait before, in and behind regions, in service and
before a stair.  Any number of further waits only repeats these.
Two calls suffice for a cache: one that fills it and one that reads it; the calls
differ in kind, capabilities, clearance, speed, direction, an endpoint that is
blocked and one without room.  Two robots, `Just` and `Over`, differ by less than
their numbers are written with, and only one of them fits through the narrow cell: what
is kept for one is answered to the other.  `AnswersFresh` and `RoutesBest`
therefore speak of profiles that no other in use is written like (`Alone`), and fail
without that condition; the repository does not say how near is the same.
`RoutesBest` compares with a relaxation over all cells of all maps that knows no
nodes or segments.  Where a start or goal has too little room, a path across maps may still end there by a transition, since
only transition points between are tested for room (611); `RoutesBest` says
nothing then.

In `planning_service` two processes can be at any two steps of loading and
exporting, with the same settings or different ones; three requests let one of
them come after two that met.  Two writers that meet can publish an entry with a
valid head and the full length in which a block of cells is zeros, or of the
other's settings (the entry's name does not depend on them, `cache_path_for`,
58-68): one empties the temporary file under the other, which goes on at its own
place and renames it.  It is a hit until the first writer has filled the gap, and
for good if that one dies.  The model has this;
`HitIsCurrent` asks of such a torn entry only that it is not of outdated sources,
and of any other that it is exact.  The run leaves out two things, which `Mishaps`
turns on: a source edited while it is loaded (`stale_cache`) and a disk that is
full while an export writes (`full_disk`).  Output directories are used by one
request at a time, as `src/README.md:72` asks.

Fairness.  The search and the coordinator are loops of one thread.
`MultiMapCoordinator` assumes that the call, while it has not ended, goes on
(`GoesOn`), and TLC's deadlock check shows that it always can; `CbsOptimality`
assumes weak fairness of the one thread's next step, and `core_library` of that of
its A* searches.  No fairness is assumed of anything else, in particular not of
the live table's callers, of processes and of operators, and no liveness claimed.
The deadlock check is off in `path_planner`, `core_library` and `planning_service`,
because calls return and the requests are bounded.

What the five violations show.  `waits_at_cells`: a resource buffer spreads an
edge's or a transition's resource over the cells around it and, because the
pass works in place, on to the end of the route; the scheduler takes those
cells for places where the robot cannot stop, against the comment at
`multi_map_coordinator.cpp:359`.  `region_holds_one`: a robot parked in a shared
region, or midway through a move of several ticks inside it, does not hold the
region, against `src/README.md:199`.  `no_constraint_twice`: the low level
looks at vertex constraints only to tell when a robot may rest at its goal, so
an edge constraint of a later tick does nothing to a robot that is parked; the
search meets the same conflict and constraint again, against the assertion at
`conflict_based_search.hpp:166`.  `stale_cache`: the size and time of a map are
taken when its entry is written, after it was read (`map_bundle_loader.cpp:205`),
so that an edit in between goes unnoticed for good, against
`src/README.md:155`.  `full_disk`: `plan.json` and `summary.txt` are tested only
when they are opened (`plan_exporter.cpp:323-357, 380-383`), so that a disk that
is full when they are written leaves them cut and success is answered with the
path of a plan that is not whole, against `src/README.md:63`.  `CheapestAgreed` shows of the repeated constraints
that they cost nodes but never the optimum, and the proof below says why.

## 4. Proofs

`LiveReservationProofs` proves, for any sets of robots and resources and any set
of integer ticks:

- `TypeCorrect`, `MutualExclusion`, `OneEntryPerRobot`: the invariants of the run;
- `CalendarImplemented`: the table implements `ResourceCalendar`.

Assumptions: ticks are integers (`TicksAssumption`) and the empty string is no
id (`NoNameAssumption`); TLC evaluates both in the run.  The inductive invariant
is `IInv == TypeOK /\ Exclusive /\ SingleSlot`.  `Exclusive` needs the types to
know that intervals are ordered; `SingleSlot` is needed for the refinement: when
a grant replaces a robot's entry, the ticks it gives back are exactly those of
that one entry.  The lemma `TrimmedShrinks` says all that matters of a progress
report, stale or not: it takes ticks away and leaves entries non-empty.  The
refinement maps the table to the holder of each tick (`Owner`); each action is
shown to be one action of the calendar (`GrantMaps`, `RefusalMaps`,
`ProgressMaps`, `ReleaseMaps`).

`CbsOptimalityProofs` proves of conflict-based search, for any environment:

- `TypeCorrect`: nodes hold a plan and constraints for every agent, and their cost,
  kept by differences down the tree, is the sum of the plans' costs;
- `Optimality`: the solution returned has no conflict and none costs less;
- `FailureIsProof`: the search runs out of nodes only if there is no solution.

It assumes of the environment what `CbsOptimality` states and TLC evaluates on
the run's instance.  `LowLevelAssumption`: the low level returns no plan dearer
than one its constraints allow, and fails only if they allow none; it need not
keep the constraints.  `ConstraintsAssumption`: no constraints allow everything,
and sets of constraints grow.  `SplitAssumption`: in every solution without
conflicts, one agent of any given conflict keeps its new constraint.
`CostAssumption`: agents are numbered and costs are natural numbers.  In the
multi-map environment the first holds because A* is exact, the third because
two robots that both did what a conflict forbids would conflict, and the last
because costs are ticks; `AgreesOnCheapest` below proves the optimum of that
environment directly.  The inductive invariant adds to
the types, of which the sum that the differences keep is one, two facts: while the search goes on, every solution without conflicts
is inside the constraints of some open node (`Covered`), and the plans of a node
cost no more than any its constraints allow (`LowerBound`).  Together they bound
the cheapest node by the cheapest solution (`NodeIsBound`).

`IntervalSearchProofs` proves of one call of the scheduler, for any route, tracks,
horizon and node limit:

- `IntervalsAreExact`: safe intervals and blocked departures are what the tracks
  say tick by tick;
- `SchedulesAreLegal`: a schedule found goes along the whole route, meets nobody
  and parks clear of the others;
- `ArrivesOnce`: no arrival is improved on, an interval is queued once;
- `FindsEarliest`: no schedule finishes before the one found, and a search that
  runs out of nodes, but not into their limit, has missed none.

`JobsAssumption` says what a call is (`IsCall`): the others' tracks are whole
schedules of frames, and the horizon, footprints and positions are numbers.  The
lemmas of `SafeIntervalSchedulerProofs` on the intervals follow the code one function at a time and
compare it with the set of ticks it is about: `RunsExact` (runs of a condition
along a schedule), `MergeKeepsTicks`, `OccupancyExact`, `MotionExact`,
`GapsExact`, `SplitExact`, and `AdvanceExact` for the departure times of a move.
A safe interval of one tick, with waits blocked from before it on, is listed twice
(`route_reservations.cpp:318-331`); the two are told apart by `copy`, are
searched separately and both count towards the node limit.
The inductive invariant `SearchInv` says that the nodes are a tree (a parent has a
smaller number), that each node's interval is a safe interval of its frame, that
one move after a wait in the parent's interval arrives in it at the node's arrival,
that the queue holds entries of nodes, and that a schedule found is legal and ends
by the horizon.  That a chain of such moves is a legal schedule is `TimedIsWay`, by
recursion on the tree (`TreeRecursion`).

The other two theorems take a second invariant, `ThoroughInv`.  *No arrival is
improved on* (`Indexed`, `Settled`): nodes are taken in the order of the finish they
promise, so those taken promise one no later than those in the queue; each departure
is the first that is possible, and moves that start at different frames end at different
frames (`MovesEndApart`), so a later offer into the same interval is never better.
*Nothing is missed* (`AllExplored`): every node that was taken has been answered for
by a node in each interval its moves can arrive in.  `Reachable` is the reference, a
search over all frames tick by tick; whatever it reaches is covered by some node
(`ReachableIsCovered`), by the least tick that would not be, so that no finish comes
before the goal's turn in the queue.  The reference looks twice as far as the horizon
and the search only up to it.  That nothing lies between takes the hypothesis
`LeavesTime`: the horizon leaves the length of the route after the last of the others
has stopped.  Then what can be finished at all can be finished by the horizon
(`FinishSoon`: nothing moves any more, so a frame that is reached late is reached
within its number of ticks).  TLC evaluates the hypothesis for the jobs of the run
(`TimeAssumption`); that the schedule found is the earliest does not need it.

`MultiMapCoordinatorProofs` proves of a whole call, for any missions:

- `NeverMeet`: no two robots meet, at ticks or between them, moving or parked, of
  those scheduled so far in the first pass, of those rescheduled so far in a repair,
  and of all of them in the schedules that are returned, from the first pass, a
  repair or the fallback;
- `FinishInHorizon`: a robot finishes within the lengths of the routes up to its own,
  and after a repair within those of all, so that the horizon is long enough;
- `PlansKeepConstraints`: plans in the fallback's search keep their constraints on
  cells and resources, also when parked, and those on moves while under way;
- `AgreesOnCheapest`: the fallback's schedules have the least total cost there is,
  by a search over the joint moves of all robots, and the fallback never runs out of
  nodes;
- `KeepsContract`: the call implements `CoordinationContract`.

`MissionsAssumption` says of a mission that each robot starts in a cell where it may
stop and ends in a frame that holds nothing (which `make_frames` sees to with its
start and parking frames), and that footprints are natural numbers; nothing of how
many robots there are or where routes lead.  The argument has five parts.

1. *First pass and repair* (`CoordinationInv`).  In the first pass the robots before
   `agent` have decided schedules; while a repair is tried, those out of the queue
   have.  *Decided* means that each has a legal schedule no later than the horizon
   and that any two are apart.  A search around decided robots adds one more
   (`FoundIsDecided`), because meeting is mutual and the scheduler keeps its
   promise (`SearchInv` is part of the invariant).  Schedules that leave the others
   as they are keep this when a robot is taken out for a new attempt
   (`DecidedAmongFewer`), whatever the order of the queue and wherever the budget
   ends the attempt.
2. *Time* (`SpanInv`, with `ThoroughInv`).  When the robots before it have stopped, a
   robot needs its route's length more, and the schedule found is the earliest
   (`NextFinishesSoon`); the lengths add up to no more than the horizon
   (`LengthsFacts`).  A repair that is accepted ends earlier than some schedule it
   replaces (`AcceptedFinishesSoon`).
3. *Fallback* (`CbsInv`).  `ReachedExact` shows that the low level's sets are those
   of the frames that can be reached at a tick, so that a traced plan starts,
   steps and ends as it has to and keeps its constraints (`LowLevelFollows`,
   `LowLevelKeeps`).  Plans without a first conflict are apart
   (`NoConflictIsFree`): at the starts because of the tick-zero check
   (`AcceptedStartsApart`), at the last tick and behind it since everyone is at its
   goal and goals do not move.  An answer therefore is without conflicts.
4. *Least cost* (`OptimalInv`).  A `Journey` is a walk without end for each robot
   such that no two of them ever meet.  The low level is no later than any walk that
   keeps its constraints, and finds a plan if there is such a walk (`StrollIsBeaten`):
   edge constraints that it does not heed at the goal make plans cheaper, never
   dearer.  On no journey do both robots of a conflict do what its constraints forbid
   (`NotBothBroken`), so every journey keeps the constraints of some open node
   (`Covering`, `ChildFits`), and the cheapest node costs no more than any journey
   (`SolvedIsLeast`).  Standing still is a journey (`StandingIsJourney`): there is
   always a node.  Whatever the joint search `CheaperExists` reaches came about by a
   journey of that cost (`PastGrows`, `PastIsJourney`).
5. *Contract* (`StepsImplement`).  `AllScheduled` and the agreement of the fallback
   publish; an accepted trial replaces the schedules by ones whose last robot is
   done earlier, whose sum is no greater and which leave all but three robots as
   they were (`AcceptedIsBetter`); all else is a stutter.  All three are sound
   (`ScheduledIsSound`, `AgreedIsSound`, `AcceptedIsSound`) and nothing changes them
   afterwards (`SoundInv`), which gives `NeverMeet` for what is returned.

That a route ends holding nothing is needed: the low level looks at vertex
constraints only to tell when it may stay at its goal, and a robot that rested
there and held a resource would break the edge constraints of later ticks.

`PlanningServiceProofs` proves, for any finite set of processes and any requests,
editions, settings and output directories:

- `HitsAreCurrent`, while no source is edited midway: a cache hit is never of
  outdated sources, in geometry or cells, and is exactly what its sources give with the
  settings asked for unless its entry was emptied under another writer, wherever
  writers meet or die;
- `DoneIsOnDisk`, while the disk does not fill up: success is answered only with
  the whole plan on disk;
- `DoneIsWritten`, full disk or not: on success every file of the plan was written for
  this request, and the pictures are whole.

`stale_cache` and `full_disk` show that the first two fail without their hypotheses.
`CacheInv` says that head and cells of one file, whatever its name, are of one
edition and, if it is not torn, of one writer (`FileWhole`), that only a torn file has
two writers (`SoleWriters`), that the entry is never the temporary file and nobody reads
the latter (`EntryApart`, `HoldsFile`), and that what each process has read so far fits
its step and its file (`JobInv`).  `ServiceInv` says which files a request has
written at each step and that two that export at one time do so to different
directories.
`ProcessesAssumption` (finitely many processes) leaves a free name for every new file.

`TaskAllocationProofs` proves of the allocation, for any problem and wherever the
budget ends it:

- `KeepsEveryTaskOnce`: every task that is not left over is at one stop of one
  robot that is capable of it, at its location;
- `KeepsStatesExact`: what is kept of a route by differences is what its stops
  amount to, after any sequence of insertions, merges and removals;
- `KeepsSlack`: balancing stays within its slack of what it started from;
- `MovesAlwaysPay`: every relocation lowers the objective and every balancing move
  lowers the squares of the task counts, so neither loop comes back to an
  earlier allocation.

`ProblemsAssumption` says of a problem what the constructor and the checks before
the allocation leave (`offline_mission_planner.cpp:649-691`): ticks, tolerances,
weights and limits are natural numbers, and each task has a capable robot.  Nothing
is assumed of distances, which need not be symmetric nor obey the triangle
inequality, but that there is a way or none.  The inductive invariant
`AllocationInv` says that each route is exact (`GoodRoute`: `rebuild` of its stops
yields the legs, the travel, the service; stops are apart, hold tasks of their place
and none twice) and has a way for every leg, that a task is on one route or is left
over (`Assigned`), and, while balancing and after it, that the loads are within the slack of
those before (`BalanceKept`).  The lemmas follow `RouteState` one operation at a
time: `inserted`, `merged` and `removed` each turn an exact route into an exact one.
That each route can be travelled is needed for the slack: without a way a leg counts
`-1`, a load may be negative, and a share of it allows less than nothing.

What stays with TLC, and why:

- *Optimality of the other searches*: `ShortestOrNone`, `ClosedSettled`, `AnswersAsLowLevel`, `SearchAnswers`, `RoutesBest`,
  `SchedulesCheapest`.  The references they compare with are recursive or folds, and
  what those compute for every input takes induction over data.
- *Local optimality of the allocation* (`LocallyOptimal`): that no move left would
  pay, where the passes ended by themselves, compares with routes rebuilt from
  their stops over all moves at once.
- *Path planner, frames, checkpoints and core planner*: `BundleSound`,
  `AnswersFresh`, `KeepsTimetable`, `ResourcesHeld`, `CheckpointsTrue`,
  `TasksServed`, `NothingToGain` and `SchedulesServe`.  They are invariants in the
  prover's reach and not proved (section 6).
- *Liveness* (`Terminates` and its like) under fairness, and `ENABLED`.

## 5. Not modelled

The component list in `PROJECT.json` has each part and the reason.

- **Configuration** (`offline_planner_config.cpp`): parsing and range checks of
  one file; a request of `PlanningService` is valid or is not.
- **Validation of missions** (`offline_mission_planner.cpp`, 662-694): a list of
  independent checks; what they leave is the assumption `IsProblem`.
- **What is in the files**: JSON, text, pictures and animation; CSV and YAML
  syntax; pixels, thresholds and inflation, which `MapCache` takes as one
  function; maps turned against ROOT.
- **Within the modelled parts**: statistics, logging, the bucket index of the
  reservations, overflow checks of allocation estimates, and floating-point
  rounding.
- **Task metadata, CLI, examples**: no state of their own.

Seen while modelling, without a property because the repository promises nothing
else: a robot that waits just before it enters or leaves a shared region gets no
`resource_entry` or `resource_exit` there, since the loop goes on behind the hold
(402-412); of two bends with no other checkpoint between them only the first is
marked (417); a file of an earlier request stays in the output directory when a later one
does not write it (an animation, a map no longer there); when the coarse search
finds a path's end blocked, `estimate_distance` throws `invalid_argument` past the
handler that would have tried the full resolution (888); a start and goal in one
coarse cell give a path of one step; a way within one map never leads over
another, even if that is the only one; robots whose clearance and speed differ beyond
the digits of the keys share cached paths, which may be too narrow for one of them;
and cache entries that two processes wrote at once may be hits with zeros in them.

## 6. Plan

1. **Rest of the offline planner**: validation of the input, and an abstract
   specification of allocation (every task with one capable robot, moved one at
   a time) that `TaskAllocation` implements.
2. **Proofs**: caches of the path planner never change an answer; core missions are
   served; checkpoints hold what they name; the multi-map environment meets the
   assumptions of `CbsOptimalityProofs`.
