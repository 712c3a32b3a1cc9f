----------------------- MODULE NavigationCheckpoints -----------------------
(***************************************************************************)
(* What the executing agent is told of a coordinated route: the navigation *)
(* checkpoints that extract_navigation_annotations                         *)
(* (offline_mission_planner.cpp) derives from the planned paths, whose     *)
(* clocks know nothing of waits, and from the schedule, which knows        *)
(* nothing of stops.                                                       *)
(*                                                                         *)
(* Frames are counted from 1 and ticks from 0, as in the scheduler.  One   *)
(* task stands for all tasks of a stop.  Traffic events repeat what the    *)
(* holding checkpoints say and are left out, as are the names of the       *)
(* checkpoints that are numbered at the end.                               *)
(***************************************************************************)
EXTENDS RouteFrames

VARIABLES request, options, frames,  \* see FrameBuilder
          timed,    \* the coordinated schedule: the frame of each tick, <<>> before
          points    \* the checkpoints, <<>> before

LastTick == Len(timed) - 1
PosAt(t) == frames[timed[t + 1]].pos

tick_at_frame(f) ==
  LET found == SelectInSeq(timed, LAMBDA g : g = f)
  IN IF found = 0 THEN LastTick ELSE found - 1

Nowhere == ""

resource_at(pos) ==
  LET first == SelectInSeq(options.regions, LAMBDA r : pos \in r.cells)
  IN IF first = 0 THEN Nowhere ELSE options.regions[first].id

Stay(type, pos, arrival, departure, about) ==
  [type |-> type, pos |-> pos, arrival |-> arrival, departure |-> departure, about |-> about]

Mark(type, pos, tick, about) == Stay(type, pos, tick, tick, about)
-----------------------------------------------------------------------------
(* append_path_checkpoints *)

(* By 45 degrees or more, as every change of direction between neighbours  *)
(* of a grid is.                                                           *)
Bends(a, b, c) ==
  LET dot == (b.x - a.x) * (c.x - b.x) + (b.y - a.y) * (c.y - b.y)
      Square(p, q) == (q.x - p.x) * (q.x - p.x) + (q.y - p.y) * (q.y - p.y)
  IN /\ a.map = b.map /\ b.map = c.map
     /\ dot <= 0 \/ 2 * dot * dot <= Square(a, b) * Square(b, c)

MaxTurnRun == 8

TurnSteps(path) ==
  SelectSeq([i \in DOMAIN path |-> i],
            LAMBDA i : /\ 1 < i /\ i < Len(path)
                       /\ Bends(path[i - 1].pos, path[i].pos, path[i + 1].pos))

(* Turns with no more than eight steps from one to the next are one bend,  *)
(* marked at its middle turn.                                              *)
TurnRuns(steps) ==
  LET Join(runs, i) ==
        IF runs # <<>> /\ i - Last(Last(runs)) <= MaxTurnRun
          THEN Append(Front(runs), Append(Last(runs), i))
          ELSE Append(runs, <<i>>)
  IN FoldLeft(Join, <<>>, steps)

Representative(run) == run[(Len(run) + 1) \div 2]

Turns(path, from) ==
  LET runs == TurnRuns(TurnSteps(path))
  IN [k \in DOMAIN runs |->
        LET step == path[Representative(runs[k])]
        IN Mark("turn", step.pos, tick_at_frame(from + step.tick), Nowhere)]

Passage(before, after, from) ==
  IF after.transition = NoTransition THEN <<>>
  ELSE << Mark("transition_entry", before.pos, tick_at_frame(from + before.tick), after.transition),
          Mark("transition_exit", after.pos, tick_at_frame(from + after.tick), after.transition) >>

append_path_checkpoints(path, from) ==
  Turns(path, from)
  \o FlattenSeq([i \in 1..(Len(path) - 1) |-> Passage(path[i], path[i + 1], from)])

ForgetService(done, k) ==   \* mutated: the next path begins where the service does
  LET path == request.segments[k]
      there == done.frame + Last(path).tick
      way == done.points \o append_path_checkpoints(path, done.frame)
  IN IF k > Len(request.stops) THEN [done EXCEPT !.points = way]
     ELSE LET stop == request.stops[k]
          IN [points |-> Append(way, Stay("task", stop.location, tick_at_frame(there),
                                          tick_at_frame(there + stop.service), k)),
              frame |-> there]

(* The path to a stop and the task there, or the path home. *)
Leg(done, k) ==
  LET path == request.segments[k]
      there == done.frame + Last(path).tick
      way == done.points \o append_path_checkpoints(path, done.frame)
  IN IF k > Len(request.stops) THEN [done EXCEPT !.points = way]
     ELSE LET stop == request.stops[k]
              served == there + stop.service
          IN [points |-> Append(way, Stay("task", stop.location, tick_at_frame(there),
                                          tick_at_frame(served), k)),
              frame |-> served]

RouteCheckpoints ==
  FoldLeft(Leg, [points |-> <<>>, frame |-> 1], [k \in DOMAIN request.segments |-> k]).points
-----------------------------------------------------------------------------
(* The loop over the schedule looks at the first tick of each frame only:  *)
(* it goes on behind the hold, if there is one.                            *)
Looked == SelectSeq([n \in DOMAIN timed |-> n - 1],
                    LAMBDA t : t = 0 \/ timed[t + 1] # timed[t])

ResourceAhead(t) == IF t = LastTick THEN Nowhere ELSE resource_at(PosAt(t + 1))

Boundary(t) ==
  LET before == resource_at(PosAt(t))
      after == ResourceAhead(t)
  IN (IF before \in {Nowhere, after} THEN <<>>
      ELSE << Mark("resource_exit", PosAt(t), t, before) >>)
     \o (IF after \in {Nowhere, before} THEN <<>>
         ELSE << Mark("resource_entry", PosAt(t + 1), t + 1, after) >>)

OneTickLonger(t) ==   \* mutated: the tick the robot moves on counts as well
  LET same == Cardinality({u \in DOMAIN timed : timed[u] = timed[t + 1]})
  IN IF same = 1 THEN <<>> ELSE << Stay("holding", PosAt(t), t, t + same, Nowhere) >>

Holding(t) ==
  LET same == Cardinality({u \in DOMAIN timed : timed[u] = timed[t + 1]})
  IN IF same = 1 THEN <<>> ELSE << Stay("holding", PosAt(t), t, t + same - 1, Nowhere) >>

ScheduleCheckpoints ==
  FlattenSeq([n \in DOMAIN Looked |-> Boundary(Looked[n]) \o Holding(Looked[n])])

ByArrival(ps) ==
  FlattenSeq([n \in DOMAIN timed |-> SelectSeq(ps, LAMBDA p : p.arrival = n - 1)])

(* Of turns next to each other the first remains. *)
MergeTurns(ps) ==
  LET Again(n) == n > 1 /\ ps[n].type = "turn" /\ ps[n - 1].type = "turn"
      kept == SelectSeq([n \in DOMAIN ps |-> n], LAMBDA n : ~Again(n))
  IN [n \in DOMAIN kept |-> ps[kept[n]]]

Annotate ==
  /\ timed # <<>>
  /\ points = <<>>
  /\ points' = MergeTurns(ByArrival(
       << Mark("start", PosAt(0), 0, Nowhere) >>
       \o RouteCheckpoints \o ScheduleCheckpoints
       \o << Mark("finish", PosAt(LastTick), LastTick, Nowhere) >>))
  /\ UNCHANGED <<request, options, frames, timed>>

(* A timing the scheduler may come to: the robot waits on up to MostWaits  *)
(* frames it may wait at, for a tick or two as the frame's number is even  *)
(* or odd, and passes the others.                                          *)
Coordinate(MostWaits) ==
  /\ timed = <<>>
  /\ LET stands == {f \in 1..(Len(frames) - 1) : ~InTransit(frames[f])}
     IN \E held \in UNION {kSubset(n, stands) : n \in 0..MostWaits} :
          timed' = FlattenSeq([f \in DOMAIN frames |->
                                 [tick \in 1..(IF f \in held THEN 2 + (f % 2) ELSE 1) |-> f]])
  /\ UNCHANGED <<request, options, frames, points>>
-----------------------------------------------------------------------------
Annotated == points # <<>>
Marks(type) == {p \in Range(points) : p.type = type}

(* From its arrival to its departure the robot is where a checkpoint says. *)
OnSchedule ==
  \A p \in Range(points) : \A t \in p.arrival..p.departure : PosAt(t) = p.pos

(* Every stop has its task, in order, and from its arrival to its          *)
(* departure just the service passes on the route's clock.                 *)
ServedInFull ==
  \A k \in DOMAIN request.stops : \E p \in Marks("task") :
    /\ p.about = k
    /\ timed[p.departure + 1] - timed[p.arrival + 1] = request.stops[k].service
    /\ \A q \in Marks("task") : q.about < k => q.departure <= p.arrival

(* The holds add up to what coordination made the schedule longer by.      *)
HoldsAreTheDelay ==
  MapThenSumSet(LAMBDA p : p.departure - p.arrival, Marks("holding"))
    = Len(timed) - Len(frames)

(* Whoever follows the resource checkpoints is told of a region that is    *)
(* left or entered at the tick it happens, unless the robot waited just    *)
(* before it, and is told of none that is not.                             *)
BoundariesMarked ==
  LET Left(t) == [about |-> resource_at(PosAt(t)), arrival |-> t]
      Entered(t) == [about |-> resource_at(PosAt(t + 1)), arrival |-> t + 1]
      Told(type) == {[about |-> p.about, arrival |-> p.arrival] : p \in Marks(type)}
      Crossings == {t \in 0..(LastTick - 1) : resource_at(PosAt(t)) # resource_at(PosAt(t + 1))}
      Waited(t) == t > 0 /\ timed[t] = timed[t + 1]
      Into == {t \in Crossings : Entered(t).about # Nowhere}
      OutOf == {t \in Crossings \cup {LastTick} : Left(t).about # Nowhere}
  IN /\ Told("resource_entry") \subseteq {Entered(t) : t \in Into}
     /\ Told("resource_exit") \subseteq {Left(t) : t \in OutOf}
     /\ {Entered(t) : t \in {u \in Into : ~Waited(u)}} \subseteq Told("resource_entry")
     /\ {Left(t) : t \in {u \in OutOf : ~Waited(u)}} \subseteq Told("resource_exit")

(* A route begins with its start and ends with its finish, and no two      *)
(* turns are neighbours (test/offline_scenario_test.cpp:59-71).            *)
InOrder ==
  /\ points[1].type = "start" /\ Last(points).type = "finish"
  /\ \A n \in 1..(Len(points) - 1) :
       /\ points[n].arrival <= points[n + 1].arrival
       /\ ~(points[n].type = "turn" /\ points[n + 1].type = "turn")

(* What the checkpoints say agrees with the schedule, although half of     *)
(* them are placed by frames counted along the paths and half by ticks.    *)
CheckpointsTrue ==
  Annotated =>
    OnSchedule /\ ServedInFull /\ HoldsAreTheDelay /\ BoundariesMarked /\ InOrder
=============================================================================
